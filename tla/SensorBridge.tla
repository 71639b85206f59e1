---------------------------- MODULE SensorBridge ----------------------------
(***************************************************************************)
(* The loop of sensor_bridge_multi.cpp over runtime/sensor_runtime.hpp: it *)
(* reads the drone's position and an actor's from shared memory, estimates *)
(* both velocities by finite differences, moves the actor's body in the    *)
(* MuJoCo scene and lets every sensor scan and publish.                    *)
(*                                                                         *)
(* One axis is modelled, in whole units of length and of the loop period.  *)
(* A position is only ever used as a difference, so the state holds how    *)
(* far each body has moved since the position the bridge remembers of it;  *)
(* a position that is read is the one at the time of the loop.             *)
(* Either read may fail in any loop, and a loop may take longer than its   *)
(* period.  The low-pass filter is any value between its old output and    *)
(* its input.                                                              *)
(***************************************************************************)
EXTENDS Integers, Sequences

CONSTANTS
  Sensors,      \* components_, in the order of the manifest
  MaxSpeed,     \* neither body moves faster than this
  MaxLoopTime,  \* the longest a loop takes, in periods
  MaxGap        \* bound: the longest a remembered position is kept

ASSUME BridgeAssumption ==
  /\ Len(Sensors) \in Nat \ {0}
  /\ MaxSpeed \in Nat
  /\ MaxLoopTime \in Nat \ {0}
  /\ MaxGap \in Nat

VARIABLES
  pc,          \* where the loop is
  dt,          \* t0 - prev_t
  selfMoved,   \* how far the drone is from prev_pos
  havePrev,    \* have_prev
  selfVel,     \* self_vel
  actorMoved,  \* how far the actor is from actor_prev
  actorAge,    \* ghost: how long ago actor_prev was read
  actorHavePrev, \* actor_have_prev
  actorVel,    \* actor_vel
  actorMissed, \* ghost: a read of the actor has failed
  qvel,        \* data_->qvel of the actor
  dirty,       \* actors_dirty_
  kinematics,  \* the actor's velocity as of the last mj_forward
  next,        \* the sensor Step comes to
  doppler      \* the closing speed in the latest frame of each sensor

world == <<selfMoved, actorMoved, actorAge>>
own   == <<havePrev, selfVel>>
actor == <<actorHavePrev, actorVel, actorMissed>>
scene == <<qvel, dirty, kinematics>>
vars  == <<pc, dt, world, own, actor, scene, next, doppler>>

Magnitude(n) == IF n < 0 THEN -n ELSE n

\* No estimate leaves this range: the longest way over the shortest loop.
Speeds == -(MaxSpeed * MaxGap)..(MaxSpeed * MaxGap)

\* What vel + vel_alpha * (moved / dt - vel) may be.
Filtered(vel, moved, elapsed) ==
  {v \in Speeds : \/ vel <= v /\ v * elapsed <= moved
                  \/ v <= vel /\ moved <= v * elapsed}

\* SetActor writes pose and velocity; the kinematics follow with the next Step.
SetActor(v) == qvel' = v /\ dirty' = TRUE
-----------------------------------------------------------------------------
\* The time between two reads of the clock; both bodies move meanwhile.
Wake ==
  /\ pc = "sleep"
  /\ \E t \in 1..MaxLoopTime :
       /\ dt + t <= MaxGap /\ actorAge + t <= MaxGap
       /\ dt' = dt + t
       /\ actorAge' = actorAge + t
       /\ \E s, a \in -(MaxSpeed * t)..(MaxSpeed * t) :
            selfMoved' = selfMoved + s /\ actorMoved' = actorMoved + a
  /\ pc' = "self"
  /\ UNCHANGED <<own, actor, scene, next, doppler>>

\* A variant that takes the time of every loop, read or not.
SelfReadFailsTimed ==
  /\ pc = "self"
  /\ pc' = "sleep"
  /\ dt' = 0
  /\ UNCHANGED <<world, own, actor, scene, next, doppler>>

\* Without the drone's own position nothing is done in this loop.
SelfReadFails ==
  /\ pc = "self"
  /\ pc' = "sleep"
  /\ UNCHANGED <<dt, world, own, actor, scene, next, doppler>>

\* The drone's position is read: its velocity follows from the move since the
\* previous successful read, and this one becomes the remembered one.  dt is
\* still dt_s for the actor below.
SelfRead ==
  /\ pc = "self"
  /\ IF havePrev THEN selfVel' \in Filtered(selfVel, selfMoved, dt) ELSE UNCHANGED selfVel
  /\ havePrev' = TRUE
  /\ selfMoved' = 0
  /\ pc' = "actor"
  /\ UNCHANGED <<dt, actorMoved, actorAge, actor, scene, next, doppler>>

\* The actor's velocity is computed with the drone's dt_s.
ActorRead ==
  /\ pc = "actor"
  /\ IF actorHavePrev THEN actorVel' \in Filtered(actorVel, actorMoved, dt)
                      ELSE UNCHANGED actorVel
  /\ actorHavePrev' = TRUE
  /\ actorMoved' = 0 /\ actorAge' = 0
  /\ SetActor(actorVel')
  /\ dt' = 0
  /\ pc' = "step"
  /\ UNCHANGED <<selfMoved, own, actorMissed, kinematics, next, doppler>>

\* SetActor is not called: the scene keeps the actor where and as it was.
ActorReadFails ==
  /\ pc = "actor"
  /\ actorMissed' = TRUE
  /\ dt' = 0
  /\ pc' = "step"
  /\ UNCHANGED <<world, own, actorHavePrev, actorVel, scene, next, doppler>>

\* A variant that leaves the refresh to the end of the step.
RefreshLate ==
  /\ pc = "step"
  /\ next' = 1
  /\ pc' = "scan"
  /\ UNCHANGED <<dt, world, own, actor, scene, doppler>>

\* SensorRuntime::Step: the kinematics first, if an actor was moved.
Refresh ==
  /\ pc = "step"
  /\ kinematics' = IF dirty THEN qvel ELSE kinematics
  /\ dirty' = FALSE
  /\ next' = 1
  /\ pc' = "scan"
  /\ UNCHANGED <<dt, world, own, actor, qvel, doppler>>

\* Then every sensor: dt is 1.0, so each is due in every loop.  A frame that
\* cannot be converted, mapped or written leaves the channel as it was.
ScanSensor ==
  /\ pc = "scan" /\ next <= Len(Sensors)
  /\ \/ doppler' = [doppler EXCEPT ![Sensors[next]] = kinematics - selfVel]
     \/ UNCHANGED doppler
  /\ next' = next + 1
  /\ UNCHANGED <<pc, dt, world, own, actor, scene>>

StepDone ==
  /\ pc = "scan" /\ next > Len(Sensors)
  /\ pc' = "sleep"
  /\ UNCHANGED <<dt, world, own, actor, scene, next, doppler>>

\* The end of the run that is looked at.
Horizon == pc = "sleep" /\ UNCHANGED vars

Init ==
  /\ pc = "sleep" /\ dt = 0 /\ next = 1
  /\ selfMoved = 0 /\ actorMoved = 0 /\ actorAge = 0
  /\ havePrev = FALSE /\ selfVel = 0
  /\ actorHavePrev = FALSE /\ actorVel = 0 /\ actorMissed = FALSE
  /\ qvel = 0 /\ dirty = FALSE /\ kinematics = 0
  /\ doppler = [s \in {Sensors[i] : i \in DOMAIN Sensors} |-> 0]

Next ==
  \/ Wake \/ SelfRead \/ SelfReadFails \/ ActorRead \/ ActorReadFails
  \/ Refresh \/ ScanSensor \/ StepDone \/ Horizon

Spec == Init /\ [][Next]_vars
-----------------------------------------------------------------------------
\* The types of the loop and of the scene, and the ranges of the times between reads.
TypeOK ==
  /\ pc \in {"sleep", "self", "actor", "step", "scan"}
  /\ dt \in 0..MaxGap /\ actorAge \in 0..MaxGap
  /\ selfMoved \in Int /\ actorMoved \in Int
  /\ havePrev \in BOOLEAN /\ actorHavePrev \in BOOLEAN /\ actorMissed \in BOOLEAN
  /\ {selfVel, actorVel, qvel, kinematics} \subseteq Speeds
  /\ dirty \in BOOLEAN
  /\ next \in 1..(Len(Sensors) + 1)
  /\ \A s \in DOMAIN doppler : doppler[s] \in Int

(***************************************************************************)
(* The drone's estimated velocity never exceeds a speed the drone can fly  *)
(* at, however many of its reads fail and however late a loop is: each     *)
(* move is divided by the time since the position it is measured from.     *)
(***************************************************************************)
SelfVelocityReal == Magnitude(selfVel) <= MaxSpeed

(***************************************************************************)
(* sensor_bridge_multi.cpp: velocities are estimated "so the radar reports *)
(* a real relative (Doppler) velocity".  No frame shows a closing speed    *)
(* that two bodies within their limits cannot have.                        *)
(***************************************************************************)
DopplerReal == \A s \in DOMAIN doppler : Magnitude(doppler[s]) <= 2 * MaxSpeed

(***************************************************************************)
(* It takes a failed read of the actor to break that: up to the first one  *)
(* the closing speeds are real, however late the loops are and however     *)
(* many reads of the drone's own position fail.                            *)
(***************************************************************************)
DopplerRealUntilMissed == ~actorMissed => DopplerReal

(***************************************************************************)
(* Every sensor of one step sees the actor as the latest SetActor left it: *)
(* no scan runs on kinematics older than the pose that was written.        *)
(***************************************************************************)
ScansSeeTheActor == pc = "scan" => ~dirty /\ kinematics = qvel
=============================================================================
