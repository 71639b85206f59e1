----------------------------- MODULE ImuSensor -----------------------------
(***************************************************************************)
(* ImuSensor (sensors/imu/imu_sensor.cpp): the angular velocity and an     *)
(* acceleration made from two velocities, each with a noise pipeline of    *)
(* its own.  Both pipelines are built without a seed and a sensor name, so *)
(* they get the defaults of AxisNoisePipeline (sensors/noise/noise.hpp).   *)
(* One axis of velocity stands for the three.                              *)
(***************************************************************************)
EXTENDS GaussianNoise, Integers

CONSTANTS
  Axes,        \* the axes of a pipeline
  ImuParams,   \* the NoiseParams a configuration may give an axis
  MaxChange,   \* the most the velocity changes in one period
  MaxVelocity, \* the velocities of the body: -MaxVelocity..MaxVelocity
  MaxBuilds,   \* bound: samples after a LoadConfig
  MaxWait      \* bound: periods between two samples

ImuAssumption ==
  /\ MaxChange \in Nat /\ MaxVelocity \in Nat
  /\ MaxBuilds \in Nat /\ MaxWait \in Nat \ {0}

Streams == {"angular_velocity", "linear_acceleration"}
Velocities == -MaxVelocity..MaxVelocity

VARIABLES
  imuParams,    \* config_.noise, the same for every axis of a stream
  pipelines,    \* angular_velocity_noise_ and linear_acceleration_noise_
  velocity,     \* the velocity of the body
  waited,       \* periods since the last sample or reset
  hasPrev,      \* has_prev_velocity_
  prevVelocity, \* prev_body_velocity_
  acceleration, \* the acceleration of the last sample times the period
  late,         \* the last sample came more than a period after the one before
  samples,      \* what the last sample of each stream and axis is made of
  earlier,      \* the noise of the samples before it
  builds        \* samples since LoadConfig

body    == <<velocity, waited>>
imuVars == <<imuParams, pipelines, body, hasPrev, prevVelocity, acceleration, late,
             samples, earlier, builds>>

\* The constructor's defaults: experiment seed 0, sensor name "axis_noise".
NewPipelines == [s \in Streams |-> Pipeline(Axes, 0, "axis_noise")]

NoSample == [s \in Streams |-> [a \in Axes |-> Sample(NewModel, [noise |-> FALSE])]]

\* RebuildNoisePipeline, at the end of LoadConfig.
LoadConfig(p) ==
  /\ imuParams' = p
  /\ pipelines' = NewPipelines
  /\ hasPrev' = FALSE
  /\ samples' = NoSample
  /\ earlier' = [s \in Streams |-> [a \in Axes |-> {}]]
  /\ builds' = 0 /\ waited' = 0
  /\ UNCHANGED <<velocity, prevVelocity, acceleration, late>>

\* The body moves on for one period of the sensor.
Move ==
  /\ waited < MaxWait
  /\ waited' = waited + 1
  /\ \E v \in Velocities :
       /\ v - velocity \in -MaxChange..MaxChange
       /\ velocity' = v
  /\ UNCHANGED <<imuParams, pipelines, hasPrev, prevVelocity, acceleration, late,
                 samples, earlier, builds>>

Build ==
  LET applied == [s \in Streams |->
                    PipelineApply(pipelines[s], [a \in Axes |-> imuParams[s]])]
  IN  /\ waited > 0
      /\ builds < MaxBuilds
      /\ acceleration' = IF hasPrev THEN velocity - prevVelocity ELSE 0
      /\ prevVelocity' = velocity
      /\ hasPrev' = TRUE
      /\ pipelines' = [s \in Streams |-> [a \in Axes |-> applied[s][a].model]]
      /\ earlier' = [s \in Streams |-> [a \in Axes |-> earlier[s][a] \cup {samples[s][a].noise}]]
      /\ samples' = [s \in Streams |-> [a \in Axes |-> applied[s][a].sample]]
      /\ builds' = builds + 1
      /\ late' = (hasPrev /\ waited > 1)
      /\ waited' = 0
      /\ UNCHANGED <<imuParams, velocity>>

\* A variant that keeps the velocity of before the reset.
ResetKeepsVelocity ==
  /\ pipelines' = [s \in Streams |-> PipelineReset(pipelines[s])]
  /\ waited' = 0
  /\ UNCHANGED <<imuParams, velocity, hasPrev, prevVelocity, acceleration, late,
                 samples, earlier, builds>>

ResetImu ==
  /\ hasPrev' = FALSE
  /\ prevVelocity' = 0
  /\ pipelines' = [s \in Streams |-> PipelineReset(pipelines[s])]
  /\ waited' = 0
  /\ UNCHANGED <<imuParams, velocity, acceleration, late, samples, earlier, builds>>

ImuInit ==
  /\ imuParams = [s \in Streams |-> [type |-> "none", bias |-> FALSE, walk |-> FALSE, noise |-> FALSE]]
  /\ pipelines = NewPipelines
  /\ velocity = 0 /\ waited = 0
  /\ hasPrev = FALSE /\ prevVelocity = 0 /\ acceleration = 0 /\ late = FALSE
  /\ samples = NoSample
  /\ earlier = [s \in Streams |-> [a \in Axes |-> {}]]
  /\ builds = 0

ImuNext ==
  \/ \E p \in [Streams -> ImuParams] : LoadConfig(p)
  \/ Move
  \/ Build
  \/ ResetImu

ImuSpec == ImuInit /\ [][ImuNext]_imuVars
-----------------------------------------------------------------------------
(***************************************************************************)
(* The acceleration is one the body can have had, whatever resets and      *)
(* reloads lie between the samples, as long as samples come every period:  *)
(* no velocity of before a reset enters a difference.                      *)
(***************************************************************************)
AccelerationPossible == ~late => acceleration \in -MaxChange..MaxChange

(***************************************************************************)
(* Reset clears the biases and never reseeds: the noise of a sample is     *)
(* never one that an earlier sample of that axis had (docs/physical_ai/    *)
(* sensor_contract.md, runtime_continue).                                  *)
(***************************************************************************)
NoiseNeverRepeats ==
  \A s \in Streams, a \in Axes :
    samples[s][a].noise # NoVariate => samples[s][a].noise \notin earlier[s][a]

(***************************************************************************)
(* The axes of one pipeline share no variate.                              *)
(***************************************************************************)
PipelineAxesIndependent ==
  \A s \in Streams, a, b \in Axes :
    a # b => Variates(samples[s][a]) \cap Variates(samples[s][b]) = {}

(***************************************************************************)
(* The samples one stream delivers are sound over every order of loads,    *)
(* resets and waits: a possible acceleration, noise that is never used     *)
(* twice, and axes of their own.                                           *)
(***************************************************************************)
SamplesSound == AccelerationPossible /\ NoiseNeverRepeats /\ PipelineAxesIndependent

(***************************************************************************)
(* docs/physical_ai/sensor_contract.md: "No two axes become correlated     *)
(* merely because they share a default RNG state."  All axes of the        *)
(* sensor, those of the angular velocity and those of the acceleration.    *)
(***************************************************************************)
AxesIndependent ==
  \A s, t \in Streams, a, b \in Axes :
    <<s, a>> # <<t, b>> => Variates(samples[s][a]) \cap Variates(samples[t][b]) = {}
=============================================================================
