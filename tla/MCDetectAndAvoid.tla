-------------------------- MODULE MCDetectAndAvoid --------------------------
(***************************************************************************)
(* The parts that bring a radar's frames to an aircraft that avoids, as    *)
(* one instance for TLC: the bridge's loop, the channels they meet on, the *)
(* picture the reader makes of them and the legs it flies.  They share no  *)
(* state, so a behaviour drives one of them and the others stay as they    *)
(* were created.                                                           *)
(***************************************************************************)
EXTENDS SensorBridge, FlightCommand, ChannelWiring, RadarPicture

ASSUME PictureAssumption

VARIABLE part  \* the one this behaviour drives

\* The data of a part vary only where it is driven.
DaaInit ==
  /\ part \in {"bridge", "wiring", "flight", "picture"}
  /\ Init /\ FlightInit
  /\ IF part = "wiring" THEN WiringInit
     ELSE /\ files = CHOOSE f \in SomeFiles : TRUE
          /\ env = CHOOSE e \in Environments : TRUE
          /\ edits = 0 /\ bridge = None /\ last = None /\ fit = [r \in Robots |-> None]
  /\ IF part = "picture" THEN PictureInit
     ELSE /\ units = CHOOSE f \in Fits : TRUE
          /\ window = CHOOSE w \in Windows : TRUE
          /\ motion = CHOOSE m \in [true : Velocities, filter : {"none"}, given : Velocities] : TRUE
          /\ sky = {} /\ missing = {} /\ answered = {} /\ looks = 0
          /\ best = [rng |-> Open, source |-> 0, count |-> 0]

DaaNext ==
  /\ UNCHANGED part
  /\ \/ part = "bridge" /\ Next /\ UNCHANGED <<wiringVars, flightVars, pictureVars>>
     \/ part = "wiring" /\ WiringNext /\ UNCHANGED <<vars, flightVars, pictureVars>>
     \/ part = "flight" /\ FlightNext /\ UNCHANGED <<vars, wiringVars, pictureVars>>
     \/ part = "picture" /\ PictureNext /\ UNCHANGED <<vars, wiringVars, flightVars>>

daaVars == <<part, vars, wiringVars, flightVars, pictureVars>>

\* The thread that flies is scheduled, and the time of its waits passes.
ClientRuns == part = "flight" /\ Client /\ UNCHANGED <<part, vars, wiringVars, pictureVars>>
DaaSpec == DaaInit /\ [][DaaNext]_daaVars /\ WF_daaVars(ClientRuns)

\* The channels alone.
ChannelsAlone == DaaInit /\ part = "wiring" /\ [][DaaNext]_daaVars
-----------------------------------------------------------------------------
LidarAndRadar == <<"lidar", "radar">>

\* Every description of a pdudef here has both robots; the primary radar is
\* declared for both, for the writer with another width, for one, or for none.
Entry(n, c, s) == [name |-> n, ch |-> c, size |-> s]
Motor == Entry("motor", 1, 1)
Both(l) == [readers |-> l, writers |-> l]
PrimaryDeclared == Both(<<Motor, Entry("radar_points", 5, 3)>>)
WiderForWriters == [readers |-> <<Entry("radar_points", 5, 2)>>,
                    writers |-> <<Entry("pose", 3, 1), Entry("radar_points", 5, 3)>>]
ReaderOnly == [readers |-> <<Motor, Entry("rear", 2, 0)>>, writers |-> << >>]
NothingDeclared == Both(<<Motor>>)
TwoRobots(a, b) == [r \in {"Drone", "Drone1"} |-> IF r = "Drone" THEN a ELSE b]
FileSets ==
  {[p \in {"cfg", "launched"} |-> IF p = "cfg" THEN TwoRobots(PrimaryDeclared, PrimaryDeclared) ELSE f] :
     f \in {None, TwoRobots(WiderForWriters, ReaderOnly), TwoRobots(ReaderOnly, NothingDeclared)}}

Component(i, n, t, k, q) == [id |-> i, pdu_name |-> n, type |-> t, kind |-> k, requires |-> q]
SomeManifests ==
  [default |-> <<Component("front", "radar_scan", "radar", "sensor", {<<"doppler", TRUE>>}),
                 Component("rear", "rear", "radar", "sensor", {}),
                 Component("top", "lidar_points", "lidar_3d", "sensor", {})>>,
   other   |-> <<Component("front", "radar_points", "radar", "sensor", {}),
                 Component("rear", None, "radar", "sensor", {}),
                 Component("tester", "rear", "radar", "actuator", {})>>,
   broken  |-> <<Component("top", "lidar_points", "lidar_3d", "sensor", {<<"doppler", TRUE>>})>>]

\* Nothing set, everything set by the launcher, or the channels given.
Environment(p, sp, m, sm, of, c) ==
  [pdudef |-> p, stackPdudef |-> sp, manifest |-> m, stackManifest |-> sm,
   manifestOf |-> [r \in {"Drone", "Drone1"} |-> IF r = "Drone" THEN of ELSE None],
   channels |-> c]
SomeEnvironments ==
  {Environment(None, None, None, None, None, {}),
   Environment("launched", None, "other", None, "default", {}),
   Environment(None, "launched", None, "other", None, {}),
   Environment(None, "launched", None, None, None, {2, 3})}
SomeOverrides == {[n \in {} |-> 0], [n \in {"rear"} |-> 4]}
SomeLengths == {-1, 2, 4}

\* Eight directions.
SomeCosine == [a \in 0..7 |-> <<2, 1, 0, -1, -2, -1, 0, 1>>[a + 1]]
RadarUnit(y, a, b, e, f, r) ==
  [yaw |-> y, az_lo |-> a, az_hi |-> b, el_lo |-> e, el_hi |-> f, range |-> r]
Front == RadarUnit(0, -1, 1, -1, 1, 2)
SomeFits == {<<Front>>, <<Front, RadarUnit(4, 3, 5, -2, 0, 3)>>,
             <<RadarUnit(0, 0, 3, -1, 0, 3), RadarUnit(0, 1, 2, 0, 1, 2)>>,
             <<RadarUnit(4, 3, 5, -2, 0, 3)>>, <<Front, RadarUnit(0, -4, 4, 1, 2, 1)>>}
Target(a, e, r, v) == [az |-> a, el |-> e, rng |-> r, radial |-> v]
SomeTargets == {Target(0, 0, 1, 0), Target(1, 0, 2, -3), Target(4, -1, 3, -3), Target(0, 2, 1, 2)}
SomeVelocities == {<<2, -1>>, <<-2, 1>>}
SomeWindows == {<<Open, Open, Open>>, <<2, 1, Open>>, <<Open, Open, 2>>}
=============================================================================
