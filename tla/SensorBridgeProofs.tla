------------------------- MODULE SensorBridgeProofs -------------------------
(***************************************************************************)
(* The velocity estimates of the bridge, for every speed limit, every loop *)
(* time and every list of sensors.                                         *)
(*                                                                         *)
(* Both estimates are sound for the same reason: a move is divided by the  *)
(* time it took, so the remembered position is never older than dt says.   *)
(* For the drone that always holds.  For the actor it holds until a read   *)
(* of it fails: from then on its move may be older than the dt it is       *)
(* divided by, and the filter keeps what came of that.                     *)
(***************************************************************************)
EXTENDS SensorBridge, TLAPS

Within(n, b) == -b <= n /\ n <= b

\* The drone has not moved farther than it can in dt, and is not believed to
\* be faster than it is.
SelfInv ==
  /\ Within(selfMoved, MaxSpeed * dt)
  /\ pc = "self" => dt >= 1
  /\ pc = "actor" => selfMoved = 0
  /\ Within(selfVel, MaxSpeed)

\* The same of the actor, and of everything computed from its velocity.
ActorInv ==
  /\ Within(actorMoved, MaxSpeed * dt)
  /\ pc \in {"self", "actor"} => dt >= 1
  /\ Within(actorVel, MaxSpeed)
  /\ Within(qvel, MaxSpeed)
  /\ Within(kinematics, MaxSpeed)
  /\ \A s \in DOMAIN doppler : Within(doppler[s], 2 * MaxSpeed)
-----------------------------------------------------------------------------
(***************************************************************************)
(* Type correctness.                                                       *)
(***************************************************************************)
THEOREM TypeCorrect == Spec => []TypeOK
<1> USE BridgeAssumption
<1>0. 0 \in Speeds
  <2>1. MaxSpeed * MaxGap \in Nat
    OBVIOUS
  <2> QED BY <2>1 DEF Speeds
<1>1. Init => TypeOK
  <2> SUFFICES ASSUME Init PROVE TypeOK
    OBVIOUS
  <2>1. \A s \in DOMAIN doppler : doppler[s] \in Int
    BY DEF Init
  <2>2. /\ havePrev \in BOOLEAN /\ actorHavePrev \in BOOLEAN
        /\ actorMissed \in BOOLEAN /\ dirty \in BOOLEAN
    BY Zenon DEF Init
  <2>3. dt \in 0..MaxGap /\ actorAge \in 0..MaxGap /\ next \in 1..(Len(Sensors) + 1)
    BY DEF Init
  <2>4. /\ pc \in {"sleep", "self", "actor", "step", "scan"}
        /\ selfMoved \in Int /\ actorMoved \in Int
        /\ {selfVel, actorVel, qvel, kinematics} \subseteq Speeds
    BY <1>0 DEF Init
  <2> QED BY Zenon, <2>1, <2>2, <2>3, <2>4 DEF TypeOK
<1>2. TypeOK /\ [Next]_vars => TypeOK'
  <2> SUFFICES ASSUME TypeOK, [Next]_vars PROVE TypeOK'
    OBVIOUS
  <2> USE DEF TypeOK
  <2>1. CASE Wake
    <3>1. PICK t \in 1..MaxLoopTime :
            /\ dt + t <= MaxGap /\ actorAge + t <= MaxGap
            /\ dt' = dt + t
            /\ actorAge' = actorAge + t
            /\ \E s, a \in -(MaxSpeed * t)..(MaxSpeed * t) :
                 selfMoved' = selfMoved + s /\ actorMoved' = actorMoved + a
      BY <2>1 DEF Wake
    <3>2. selfMoved' \in Int /\ actorMoved' \in Int
      BY <3>1
    <3>3. dt' \in 0..MaxGap /\ actorAge' \in 0..MaxGap /\ pc' = "self"
      BY <2>1, <3>1 DEF Wake
    <3>4. UNCHANGED <<havePrev, selfVel, actorHavePrev, actorVel, actorMissed,
                     qvel, dirty, kinematics, next, doppler>>
      BY <2>1 DEF Wake, own, actor, scene
    <3> QED BY <3>2, <3>3, <3>4
  <2>2. CASE SelfRead
    <3>1. selfVel' \in Speeds
      BY <2>2 DEF SelfRead, Filtered
    <3> QED BY <2>2, <3>1 DEF SelfRead, actor, scene
  <2>3. CASE SelfReadFails
    BY <2>3 DEF SelfReadFails, world, own, actor, scene
  <2>4. CASE ActorRead
    <3>1. actorVel' \in Speeds
      BY <2>4 DEF ActorRead, Filtered
    <3> QED BY <2>4, <3>1 DEF ActorRead, SetActor, own
  <2>5. CASE ActorReadFails
    BY <2>5 DEF ActorReadFails, world, own, actor, scene
  <2>6. CASE Refresh
    <3>1. dirty' \in BOOLEAN /\ kinematics' \in {kinematics, qvel}
      BY <2>6, Zenon DEF Refresh
    <3>2. next' \in 1..(Len(Sensors) + 1)
      BY <2>6 DEF Refresh
    <3> QED BY <2>6, <3>1, <3>2 DEF Refresh, world, own, actor
  <2>7. CASE ScanSensor
    <3>1. kinematics - selfVel \in Int
      BY DEF Speeds
    <3>2. \A s \in DOMAIN doppler' : doppler'[s] \in Int
      BY <2>7, <3>1 DEF ScanSensor
    <3>3. next' \in 1..(Len(Sensors) + 1)
      BY <2>7 DEF ScanSensor
    <3> QED BY <2>7, <3>2, <3>3 DEF ScanSensor, world, own, actor, scene
  <2>8. CASE StepDone
    BY <2>8 DEF StepDone, world, own, actor, scene
  <2>9. CASE UNCHANGED vars
    BY <2>9 DEF vars, world, own, actor, scene
  <2> QED BY <2>1, <2>2, <2>3, <2>4, <2>5, <2>6, <2>7, <2>8, <2>9 DEF Next, Horizon
<1> QED BY <1>1, <1>2, PTL DEF Spec
-----------------------------------------------------------------------------
\* A factor that is not zero can be cancelled.
LEMMA Cancel ==
  ASSUME NEW a \in Int, NEW b \in Int, NEW e \in Nat \ {0}, a * e <= b * e
  PROVE  a <= b
<1> SUFFICES ASSUME a >= b + 1 PROVE FALSE
  OBVIOUS
<1>1. a * e >= (b + 1) * e
  OBVIOUS
<1>2. (b + 1) * e = b * e + e
  OBVIOUS
<1> QED BY <1>1, <1>2

\* The filter never leaves the range of its output and its input.
LEMMA FilteredWithin ==
  ASSUME NEW vel \in Int, NEW moved \in Int, NEW elapsed \in Nat \ {0},
         Within(vel, MaxSpeed), Within(moved, MaxSpeed * elapsed),
         NEW v \in Filtered(vel, moved, elapsed)
  PROVE  Within(v, MaxSpeed)
<1> USE BridgeAssumption
<1>1. v \in Int
  BY DEF Filtered, Speeds
<1>2. MaxSpeed * elapsed \in Int /\ v * elapsed \in Int /\ -MaxSpeed \in Int
  BY <1>1
<1>3. CASE vel <= v /\ v * elapsed <= moved
  <2>1. v * elapsed <= MaxSpeed * elapsed
    BY <1>2, <1>3 DEF Within
  <2>2. v <= MaxSpeed
    BY <1>1, <2>1, Cancel
  <2> QED BY <1>1, <1>3, <2>2 DEF Within
<1>4. CASE v <= vel /\ moved <= v * elapsed
  <2>1. -(MaxSpeed * elapsed) <= v * elapsed
    BY <1>2, <1>4 DEF Within
  <2>2. (-MaxSpeed) * elapsed = -(MaxSpeed * elapsed)
    OBVIOUS
  <2>3. -MaxSpeed <= v
    BY <1>1, <1>2, <2>1, <2>2, Cancel
  <2> QED BY <1>1, <1>4, <2>3 DEF Within
<1> QED BY <1>3, <1>4 DEF Filtered

\* Moves add up as the times do.
LEMMA MovesAdd ==
  ASSUME NEW m \in Int, NEW e \in Nat, Within(m, MaxSpeed * e),
         NEW t \in Nat, NEW s \in -(MaxSpeed * t)..(MaxSpeed * t)
  PROVE  Within(m + s, MaxSpeed * (e + t))
<1> USE BridgeAssumption
<1>1. MaxSpeed * (e + t) = MaxSpeed * e + MaxSpeed * t
  OBVIOUS
<1>2. MaxSpeed * e \in Int /\ MaxSpeed * t \in Int
  OBVIOUS
<1> QED BY <1>1, <1>2 DEF Within
-----------------------------------------------------------------------------
\* The distance since the last good read and the time since it grow together.
LEMMA SelfStep ==
  ASSUME TypeOK, SelfInv, [Next]_vars
  PROVE  SelfInv'
<1> USE BridgeAssumption DEF TypeOK, SelfInv
<1>1. selfVel \in Int /\ dt \in Nat
  BY DEF Speeds
<1>2. CASE Wake
  <2>a. PICK t \in 1..MaxLoopTime :
          /\ dt' = dt + t
          /\ \E s, a \in -(MaxSpeed * t)..(MaxSpeed * t) :
               selfMoved' = selfMoved + s /\ actorMoved' = actorMoved + a
    BY <1>2, Zenon DEF Wake
  <2>1. PICK s \in -(MaxSpeed * t)..(MaxSpeed * t) :
          dt' = dt + t /\ selfMoved' = selfMoved + s
    BY <2>a, Zenon
  <2>2. Within(selfMoved', MaxSpeed * dt')
    <3>1. Within(selfMoved + s, MaxSpeed * (dt + t))
      <4>1. t \in Nat
        OBVIOUS
      <4> QED BY <1>1, <2>1, <4>1, MovesAdd
    <3> QED BY <2>1, <3>1
  <2>3. pc' = "self" /\ dt' >= 1 /\ selfVel' = selfVel
    BY <1>1, <1>2, <2>1 DEF Wake, own
  <2> QED BY <2>2, <2>3
<1>3. CASE SelfRead
  <2>1. Within(selfVel', MaxSpeed)
    BY <1>1, <1>3, FilteredWithin DEF SelfRead
  <2>2. Within(0, MaxSpeed * dt)
    <3>1. MaxSpeed * dt \in Nat
      BY <1>1
    <3> QED BY <3>1 DEF Within
  <2> QED BY <1>3, <2>1, <2>2 DEF SelfRead
<1>4. CASE ActorRead \/ ActorReadFails
  <2>1. dt' = 0 /\ pc' = "step" /\ selfMoved' = 0 /\ selfVel' = selfVel
    BY <1>4 DEF ActorRead, ActorReadFails, own, world
  <2>2. Within(0, MaxSpeed * 0)
    BY DEF Within
  <2> QED BY <2>1, <2>2
<1>5. CASE SelfReadFails \/ Refresh \/ ScanSensor \/ StepDone \/ UNCHANGED vars
  <2>1. dt' = dt /\ selfMoved' = selfMoved /\ selfVel' = selfVel
    BY <1>5 DEF SelfReadFails, Refresh, ScanSensor, StepDone, vars, own, world
  <2>2. pc' = pc \/ pc' \in {"sleep", "scan"}
    BY <1>5 DEF SelfReadFails, Refresh, ScanSensor, StepDone, vars
  <2> QED BY <2>1, <2>2
<1> QED BY <1>2, <1>3, <1>4, <1>5 DEF Next, Horizon

\* The invariant the theorem on the own velocity rests on.
LEMMA SelfInvariance == Spec => [](TypeOK /\ SelfInv)
<1>1. Init => SelfInv
  <2>1. MaxSpeed * 0 = 0 /\ MaxSpeed \in Nat
    BY BridgeAssumption
  <2> QED BY <2>1 DEF Init, SelfInv, Within
<1>2. TypeOK /\ SelfInv /\ [Next]_vars => SelfInv'
  BY SelfStep
<1> QED BY <1>1, <1>2, TypeCorrect, PTL DEF Spec

(***************************************************************************)
(* Whatever reads fail and however late the loops are, the bridge never    *)
(* believes the drone to be faster than it can be.                         *)
(***************************************************************************)
THEOREM SelfVelocitySound == Spec => []SelfVelocityReal
<1>1. TypeOK /\ SelfInv => SelfVelocityReal
  BY BridgeAssumption DEF TypeOK, SelfInv, Speeds, Within, SelfVelocityReal, Magnitude
<1> QED BY <1>1, SelfInvariance, PTL
-----------------------------------------------------------------------------
\* The same for the actor, as long as none of its reads has failed.
LEMMA ActorStep ==
  ASSUME TypeOK, SelfInv, ActorInv, [Next]_vars, ~actorMissed'
  PROVE  ActorInv'
<1> USE BridgeAssumption DEF TypeOK
<1>1. /\ {selfVel, actorVel, qvel, kinematics} \subseteq Int /\ dt \in Nat
      /\ \A s \in DOMAIN doppler : Within(doppler[s], 2 * MaxSpeed)
  BY DEF Speeds, ActorInv
<1>2. CASE Wake
  <2>a. PICK t \in 1..MaxLoopTime :
          /\ dt' = dt + t
          /\ \E s, a \in -(MaxSpeed * t)..(MaxSpeed * t) :
               selfMoved' = selfMoved + s /\ actorMoved' = actorMoved + a
    BY <1>2, Zenon DEF Wake
  <2>1. PICK a \in -(MaxSpeed * t)..(MaxSpeed * t) :
          dt' = dt + t /\ actorMoved' = actorMoved + a
    BY <2>a, Zenon
  <2>2. Within(actorMoved', MaxSpeed * dt')
    <3>1. Within(actorMoved + a, MaxSpeed * (dt + t))
      <4>1. t \in Nat /\ Within(actorMoved, MaxSpeed * dt)
        BY DEF ActorInv
      <4> QED BY <1>1, <2>1, <4>1, MovesAdd
    <3> QED BY <2>1, <3>1
  <2>3. dt' >= 1 /\ UNCHANGED <<actorVel, qvel, kinematics, doppler>>
    BY <1>1, <1>2, <2>1 DEF Wake, actor, scene
  <2> QED BY <2>2, <2>3 DEF ActorInv
<1>3. CASE SelfRead
  BY <1>3 DEF SelfRead, actor, scene, ActorInv
<1>4. CASE ActorRead
  <2>1. Within(actorVel', MaxSpeed)
    BY <1>1, <1>4, FilteredWithin DEF ActorRead, ActorInv
  <2>2. Within(0, MaxSpeed * 0)
    BY DEF Within
  <2>3. dt' = 0 /\ actorMoved' = 0 /\ qvel' = actorVel' /\ pc' = "step"
        /\ UNCHANGED <<kinematics, doppler>>
    BY <1>4 DEF ActorRead, SetActor
  <2> QED BY <2>1, <2>2, <2>3 DEF ActorInv
<1>5. CASE Refresh
  <2>1. kinematics' \in {kinematics, qvel} /\ pc' = "scan"
        /\ UNCHANGED <<dt, actorMoved, actorVel, qvel, doppler>>
    BY <1>5 DEF Refresh, world, actor
  <2> QED BY <2>1 DEF ActorInv
<1>6. CASE ScanSensor
  <2>1. Within(kinematics - selfVel, 2 * MaxSpeed)
    BY <1>1 DEF ActorInv, SelfInv, Within
  <2>2. \A s \in DOMAIN doppler' : doppler'[s] \in {doppler[s], kinematics - selfVel}
        /\ s \in DOMAIN doppler
    BY <1>6 DEF ScanSensor
  <2>3. UNCHANGED <<pc, dt, actorMoved, actorVel, qvel, kinematics>>
    BY <1>6 DEF ScanSensor, world, actor, scene
  <2>4. \A s \in DOMAIN doppler' : Within(doppler'[s], 2 * MaxSpeed)
    BY <1>1, <2>1, <2>2
  <2> QED BY <2>3, <2>4 DEF ActorInv
<1>7. CASE SelfReadFails \/ StepDone \/ UNCHANGED vars
  <2>1. UNCHANGED <<dt, actorMoved, actorVel, qvel, kinematics, doppler>>
    BY <1>7 DEF SelfReadFails, StepDone, vars, world, actor, scene
  <2>2. pc' = pc \/ pc' = "sleep"
    BY <1>7 DEF SelfReadFails, StepDone, vars
  <2> QED BY <2>1, <2>2 DEF ActorInv
<1>8. ~ActorReadFails
  BY DEF ActorReadFails
<1> QED BY <1>2, <1>3, <1>4, <1>5, <1>6, <1>7, <1>8 DEF Next, Horizon

\* A failed read of the actor is never forgotten.
LEMMA MissedStays ==
  ASSUME TypeOK, [Next]_vars, actorMissed
  PROVE  actorMissed'
BY DEF Next, Wake, SelfRead, SelfReadFails, ActorRead, SetActor, ActorReadFails, Refresh,
       ScanSensor, StepDone, Horizon, vars, actor

(***************************************************************************)
(* Up to the first failed read of the actor no frame shows a closing speed *)
(* that two bodies within their limits cannot have.                        *)
(***************************************************************************)
THEOREM DopplerSound == Spec => []DopplerRealUntilMissed
<1>1. Init => (~actorMissed => ActorInv)
  <2>1. MaxSpeed * 0 = 0 /\ MaxSpeed \in Nat
    BY BridgeAssumption
  <2>2. Init => \A s \in DOMAIN doppler : doppler[s] = 0
    BY DEF Init
  <2>3. Within(0, MaxSpeed * 0) /\ Within(0, MaxSpeed) /\ Within(0, 2 * MaxSpeed)
    BY <2>1 DEF Within
  <2> QED BY <2>2, <2>3 DEF Init, ActorInv
<1>2. TypeOK /\ SelfInv /\ (~actorMissed => ActorInv) /\ [Next]_vars
        => (~actorMissed => ActorInv)'
  <2> SUFFICES ASSUME TypeOK, SelfInv, ~actorMissed => ActorInv, [Next]_vars, ~actorMissed'
               PROVE  ActorInv'
    OBVIOUS
  <2>1. ~actorMissed
    BY MissedStays
  <2> QED BY <2>1, ActorStep
<1>3. TypeOK /\ (~actorMissed => ActorInv) => DopplerRealUntilMissed
  BY BridgeAssumption
  DEF TypeOK, ActorInv, Within, DopplerReal, DopplerRealUntilMissed, Magnitude
<1> QED BY <1>1, <1>2, <1>3, SelfInvariance, PTL DEF Spec
-----------------------------------------------------------------------------
(***************************************************************************)
(* Everywhere in the loop, the kinematics lag behind the actor only while  *)
(* dirty says so; a step that finds nothing to refresh relies on that.     *)
(***************************************************************************)
RefreshInv ==
  /\ ~dirty => kinematics = qvel
  /\ pc = "scan" => ~dirty

(***************************************************************************)
(* No sensor of any step scans on kinematics older than the latest write   *)
(* of the actor's pose: between two scans of a step nothing writes it.     *)
(***************************************************************************)
THEOREM ScansSeeRefreshed == Spec => []ScansSeeTheActor
<1>1. Init => RefreshInv
  BY DEF Init, RefreshInv
<1>2. TypeOK /\ RefreshInv /\ [Next]_vars => RefreshInv'
  <2> SUFFICES ASSUME TypeOK, RefreshInv, [Next]_vars PROVE RefreshInv'
    OBVIOUS
  <2>1. CASE Refresh
    <3>1. dirty' = FALSE /\ qvel' = qvel /\ kinematics' = IF dirty THEN qvel ELSE kinematics
      BY <2>1 DEF Refresh
    <3> QED BY <3>1 DEF RefreshInv
  <2>2. CASE ActorRead
    <3>1. dirty' = TRUE /\ pc' = "step"
      BY <2>2 DEF ActorRead, SetActor
    <3> QED BY <3>1 DEF RefreshInv
  <2>3. CASE Wake \/ SelfRead \/ SelfReadFails \/ ActorReadFails \/ StepDone
    <3>1. pc' # "scan" /\ UNCHANGED scene
      BY <2>3 DEF Wake, SelfRead, SelfReadFails, ActorReadFails, StepDone
    <3> QED BY <3>1 DEF RefreshInv, scene
  <2>4. CASE ScanSensor \/ UNCHANGED vars
    <3>1. UNCHANGED pc /\ UNCHANGED scene
      BY <2>4 DEF ScanSensor, vars
    <3> QED BY <3>1 DEF RefreshInv, scene
  <2> QED BY <2>1, <2>2, <2>3, <2>4 DEF Next, Horizon
<1>3. RefreshInv => ScansSeeTheActor
  BY DEF RefreshInv, ScansSeeTheActor
<1> QED BY <1>1, <1>2, <1>3, TypeCorrect, PTL DEF Spec
=============================================================================
