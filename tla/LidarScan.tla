------------------------------ MODULE LidarScan ------------------------------
(***************************************************************************)
(* The three LiDARs and the two ray casters under them:                    *)
(*   - LiDAR2DSensor casts its own rays at the MuJoCo scene, adds noise    *)
(*     and blind padding;                                                  *)
(*   - LidarScanSensor and Lidar3DSensor use MujocoRayCaster.              *)
(* A ray that meets the vehicle itself goes on behind that surface, at     *)
(* most Attempts times.                                                    *)
(*                                                                         *)
(* Distances and directions are whole units; the ray in a direction is the *)
(* set of surfaces it crosses, each with its distance and body (mj_ray is  *)
(* external: the nearest surface ahead).  Epsilon is what the ray caster   *)
(* moves a ray behind a surface, and the least that LiDAR2DSensor does:    *)
(* eps in its configuration, which grows with origin_offset_m.             *)
(***************************************************************************)
EXTENDS Integers, Sequences, FiniteSets

CONSTANTS
  Parent,       \* the body tree; the world is its own parent
  Scenes,       \* direction -> set of surfaces
  Configs2D, Configs3D,  \* configurations that are loaded
  Epsilon, Attempts,
  Spread,       \* how far a noise rule moves a reading at most
  Period,       \* units of time in a second
  LidarScans    \* bound: scans and reloads

VARIABLES
  caster,    \* the other two LiDARs were built with a ray caster
  planar,    \* config_ of LiDAR2DSensor, with the bodies it is bound to
  solid,     \* config_ of Lidar3DSensor
  space,     \* the scene of the latest scan
  scanFrame, \* the frame LiDAR2DSensor::Scan was given
  plainFrame,\* the frame of LidarScanSensor, configured alike
  cloud,     \* the frame of Lidar3DSensor
  lidarCount \* scans and reloads so far

lidarVars == <<caster, planar, solid, space, scanFrame, plainFrame, cloud, lidarCount>>

Lowest(S) == CHOOSE n \in S : \A m \in S : n <= m
AtLeastOne(n) == IF n < 1 THEN 1 ELSE n
Gap(m, n) == IF m < n THEN n - m ELSE m - n
-----------------------------------------------------------------------------
(***************************************************************************)
(* Rays                                                                    *)
(***************************************************************************)
\* IsSelfGeom: the excluded body or one below it in the tree.
IsSelf(body, excluded) ==
  LET reaches[b \in DOMAIN Parent] == b = excluded \/ (Parent[b] # b /\ reaches[Parent[b]])
  IN excluded \in DOMAIN Parent /\ reaches[body]

\* A line of which a ray can tell: it goes on eps behind a surface of the vehicle
\* and would miss what is nearer to that.
Apart(line, c) ==
  \A s, t \in line : IsSelf(s.body, c.exclude) /\ s # t /\ s.dist <= t.dist => s.dist + c.eps <= t.dist

\* The surface a ray meets first from a point on it: mj_ray.
Ahead(line, from) == {s \in line : s.dist >= from}
FirstAhead(line, from) == CHOOSE s \in Ahead(line, from) :
                       \A t \in Ahead(line, from) : s.dist <= t.dist

\* A variant that reports the distance of the last leg.
CastRayLastLeg(line, c) ==
  LET miss == c.max
      cast[k \in 0..Attempts] == [from \in 0..c.max |->
        IF k = Attempts \/ Ahead(line, from) = {} THEN miss
        ELSE LET s == FirstAhead(line, from) IN
             IF ~IsSelf(s.body, c.exclude)
             THEN IF s.dist < c.min \/ s.dist > c.max THEN miss ELSE s.dist - from
             ELSE IF s.dist + c.eps >= c.max THEN miss ELSE cast[k + 1][s.dist + c.eps]]
  IN cast[0][0]

\* LiDAR2DSensor::CastRay: the distance of the first surface that is not the
\* vehicle's, or the maximum.
CastRay(line, c) ==
  LET miss == c.max
      cast[k \in 0..Attempts] == [from \in 0..c.max |->
        IF k = Attempts \/ Ahead(line, from) = {} THEN miss
        ELSE LET s == FirstAhead(line, from) IN
             IF ~IsSelf(s.body, c.exclude)
             THEN IF s.dist < c.min \/ s.dist > c.max THEN miss ELSE s.dist
             ELSE IF s.dist + c.eps >= c.max THEN miss ELSE cast[k + 1][s.dist + c.eps]]
  IN cast[0][0]

\* MujocoRayCaster::Cast, which knows no minimum: the distance or a miss.
Miss == -1
Cast(line, excluded, max) ==
  LET cast[k \in 0..Attempts] == [from \in 0..max |->
        IF k = Attempts \/ Ahead(line, from) = {} THEN Miss
        ELSE LET s == FirstAhead(line, from) IN
             IF ~IsSelf(s.body, excluded) THEN IF s.dist > max THEN Miss ELSE s.dist
             ELSE IF s.dist + Epsilon >= max THEN Miss ELSE cast[k + 1][s.dist + Epsilon]]
  IN cast[0][0]

\* What LidarScanSensor and Lidar3DSensor read from it.
InRange(d, min, max) == IF d # Miss /\ d >= min /\ d <= max THEN d ELSE max
-----------------------------------------------------------------------------
(***************************************************************************)
(* LiDAR2DSensor                                                           *)
(***************************************************************************)
\* RangeNoisePipeline::Apply: the first rule whose range holds the value.
RuleFor(value, rules) ==
  LET at == {i \in DOMAIN rules : rules[i].lo <= value /\ value <= rules[i].hi}
  IN IF at = {} THEN [type |-> "none", dependent |-> FALSE, sigma |-> 0] ELSE rules[Lowest(at)]

\* ApplyRangeRule: a deviation grows with the distance or is given.
Noisy(value, rules) ==
  LET rule  == RuleFor(value, rules)
      sigma == IF rule.dependent THEN value * rule.sigma ELSE rule.sigma
  IN IF rule.type = "none" \/ sigma <= 0 THEN {value}
     ELSE (value - Spread)..(value + Spread)

RayCount(c) == AtLeastOne((c.last - c.first + c.step - 1) \div c.step)
BeamYaw(c, i) == IF c.ascending THEN c.first + (i - 1) * c.step ELSE c.last - (i - 1) * c.step
Line(scene, direction) == IF direction \in DOMAIN scene THEN scene[direction] ELSE {}

\* The readings of one scan, blind padding first.
Padded(c, readings) == [i \in 1..c.pad |-> c.blind] \o readings
AtMost(n, max) == IF n > max THEN max ELSE n

Readings(c, scene) ==
  LET clean == [i \in 1..RayCount(c) |-> CastRay(Line(scene, BeamYaw(c, i) + c.bias), c)]
      moved(noise) == [i \in 1..RayCount(c) |-> clean[i] + noise[i]]
  IN {moved(noise) : noise \in {n \in [1..RayCount(c) -> (-Spread)..Spread] :
        \A i \in 1..RayCount(c) : clean[i] + n[i] \in Noisy(clean[i], c.rules)}}

\* A variant that writes the header before it knows that there will be ranges.
ReturnsEarlyHeaderFirst(c) == scanFrame' = [scanFrame EXCEPT !.stamp = @ + 1, !.of = c]

\* Only the stamp is written when there is no body or no resolution ...
ReturnsEarly(c) == scanFrame' = [scanFrame EXCEPT !.stamp = @ + 1]

\* ... otherwise LiDAR2DSensor::Scan writes header and ranges together.
Scan2D(scene) ==
  LET c == planar
  IN IF c.body \in DOMAIN Parent /\ c.step > 0
     THEN \E r \in Readings(c, scene) :
            scanFrame' = [stamp |-> scanFrame.stamp + 1, of |-> c,
                          ranges |-> Padded(c, [i \in 1..RayCount(c) |-> AtMost(r[i], c.max)])]
     ELSE ReturnsEarly(c)

\* LidarScanSensor::Scan: header first, ranges from nothing, both ends cast; none
\* without a ray caster or a resolution.
Beams(c) == IF caster /\ c.step > 0 /\ c.last >= c.first THEN (c.last - c.first) \div c.step + 1 ELSE 0
ScanPlain(scene) ==
  LET c == planar
  IN plainFrame' = [stamp |-> plainFrame.stamp + 1, of |-> c,
       ranges |-> [i \in 1..Beams(c) |->
         InRange(Cast(Line(scene, c.first + (i - 1) * c.step + c.bias), c.exclude, c.max), c.min, c.max)]]

-----------------------------------------------------------------------------
(***************************************************************************)
(* Lidar3DSensor                                                           *)
(***************************************************************************)
Height(c) == AtLeastOne(c.channels)
Width(c) == IF c.rps <= 0 \/ c.channels <= 0 THEN 0
            ELSE AtLeastOne((c.pps \div c.rps) \div c.channels)

\* SetConfig throws on anything else, before anything is assigned.
Accepts(c) ==
  /\ c.channels > 0 /\ c.rps > 0 /\ c.pps > 0
  /\ LET columns == AtLeastOne(((c.pps \div c.rps) \div c.channels)) IN
     /\ c.offsets # << >> => Len(c.offsets) = c.channels
     /\ \A i \in DOMAIN c.offsets : c.offsets[i] >= 0 /\ c.offsets[i] * c.rps * columns < Period

\* The unit of time is so small that every column period is a whole number of it.
LidarAssumption ==
  /\ Epsilon \in Nat \ {0} /\ Attempts \in Nat \ {0} /\ Spread \in Nat /\ Period \in Nat \ {0}
  /\ Scenes # {}
  /\ \A scene \in Scenes : \A d \in DOMAIN scene :
       d \in Int /\ IsFiniteSet(scene[d]) /\ \A s \in scene[d] : s.dist \in Nat
  /\ \A c \in Configs2D : {c.first, c.last, c.step, c.min} \subseteq Int /\ {c.pad, c.max, c.eps} \subseteq Nat
  /\ \A c \in Configs2D : c.eps >= Epsilon
  /\ \A c \in Configs3D : {c.channels, c.rps, c.pps} \subseteq Int /\ c.offsets \in Seq(Int)
  /\ \A c \in Configs3D : Accepts(c) => Period % (c.rps * Width(c)) = 0

\* ScanAt: one point of each channel and column, with its time in the scan.
ColumnPeriod(c) == (Period \div c.rps) \div Width(c)
FiringTime(c, iv, ih) ==
  (ih - 1) * ColumnPeriod(c)
    + (IF c.offsets = << >> THEN (ColumnPeriod(c) * (iv - 1)) \div Height(c) ELSE c.offsets[iv])

\* Its size is announced before the return without a ray caster.
Scan3D(scene) ==
  LET c == solid
      columns == Width(c)
  IN cloud' = [stamp |-> cloud.stamp + 1, height |-> Height(c), width |-> columns,
       period |-> Period \div c.rps,
       points |-> IF ~caster THEN << >> ELSE [k \in 1..(Height(c) * columns) |->
         LET iv == (k - 1) \div columns + 1
             ih == ((k - 1) % columns) + 1
         IN [depth |-> InRange(Cast(Line(scene, ih - 1), c.exclude, c.max), c.min, c.max),
             time  |-> FiringTime(c, iv, ih)]]]
-----------------------------------------------------------------------------
\* All three scan what is there now.
ScanAll ==
  /\ lidarCount < LidarScans /\ lidarCount' = lidarCount + 1
  /\ \E s \in Scenes : space' = s /\ Scan2D(s) /\ ScanPlain(s) /\ Scan3D(s)
  /\ UNCHANGED <<caster, planar, solid>>

\* LoadConfig with SetRuntimeOptions, and SetConfig; the next scan may be given the
\* old frame again.
Reload2D ==
  /\ lidarCount < LidarScans /\ lidarCount' = lidarCount + 1
  /\ planar' \in Configs2D
  /\ UNCHANGED <<caster, solid, space, scanFrame, plainFrame, cloud>>

Reload3D ==
  /\ lidarCount < LidarScans /\ lidarCount' = lidarCount + 1
  /\ \E c \in Configs3D :
       IF Accepts(c) THEN solid' = c /\ cloud' = [cloud EXCEPT !.stamp = 0]
                     ELSE UNCHANGED <<solid, cloud>>
  /\ UNCHANGED <<caster, planar, space, scanFrame, plainFrame>>

EmptyFrame == [stamp |-> 0, of |-> [first |-> 0], ranges |-> << >>]

LidarInit ==
  /\ caster \in BOOLEAN
  /\ planar \in Configs2D
  /\ solid \in {c \in Configs3D : Accepts(c)}
  /\ space = CHOOSE s \in Scenes : TRUE
  /\ scanFrame = EmptyFrame /\ plainFrame = EmptyFrame
  /\ cloud = [stamp |-> 0, height |-> 0, width |-> 0, period |-> 0, points |-> << >>]
  /\ lidarCount = 0

LidarNext == ScanAll \/ Reload2D \/ Reload3D

LidarSpec == LidarInit /\ [][LidarNext]_lidarVars
-----------------------------------------------------------------------------
(***************************************************************************)
(* What a beam should read: the nearest surface of anything but the        *)
(* vehicle, if it is in range and the ray gets there.                      *)
(***************************************************************************)
Truth(line, c) ==
  LET foreign == {s.dist : s \in {t \in line : ~IsSelf(t.body, c.exclude)}}
      before  == {s \in line : IsSelf(s.body, c.exclude) /\ s.dist < Lowest(foreign)}
  IN IF foreign = {} \/ Cardinality(before) >= Attempts THEN c.max
     ELSE IF c.min <= Lowest(foreign) /\ Lowest(foreign) <= c.max THEN Lowest(foreign) ELSE c.max

(***************************************************************************)
(* Every reading of LiDAR2DSensor is the nearest surface in range that is  *)
(* not the vehicle's, however many of the vehicle's own are before it,     *)
(* moved by no more than the noise of its range; and none is beyond the    *)
(* maximum.  A surface nearer behind one of the vehicle's own than the ray *)
(* is moved cannot be seen; this is about the other lines.                 *)
(***************************************************************************)
ReadingsAreEchoes ==
  scanFrame.ranges # << >> /\ scanFrame.of = planar /\ plainFrame.of = planar
      /\ scanFrame.stamp = plainFrame.stamp /\ planar.step > 0 /\ planar.body \in DOMAIN Parent =>
    LET c == planar
        line(i) == Line(space, BeamYaw(c, i) + c.bias)
    IN \A i \in 1..RayCount(c) : Apart(line(i), c) =>
      LET r == scanFrame.ranges[c.pad + i]
          t == Truth(line(i), c)
      IN /\ Gap(r, t) <= (IF RuleFor(t, c.rules).type = "none" THEN 0 ELSE Spread)
         /\ r <= c.max

(***************************************************************************)
(* mujoco_ray_caster.cpp: "mirrors LiDAR2DSensor::CastRay".  One ray reads *)
(* the same through both casters, with either sensor's limits; where the   *)
(* 2D LiDAR moves it farther, if it can tell the surfaces of its line.     *)
(***************************************************************************)
CastersAgree ==
  \A d \in DOMAIN space : planar.eps = Epsilon \/ Apart(space[d], planar) =>
    CastRay(space[d], planar) = InRange(Cast(space[d], planar.exclude, planar.max), planar.min, planar.max)

(***************************************************************************)
(* Every LiDAR sees the scene that is there.                               *)
(***************************************************************************)
ScansSeeTheScene == ReadingsAreEchoes /\ CastersAgree

(***************************************************************************)
(* A frame's ranges belong to its header: as many as the header's angles   *)
(* say, padding included, also when a reload is followed by scans that     *)
(* return early.                                                           *)
(***************************************************************************)
HeaderMatchesRanges ==
  scanFrame.of # EmptyFrame.of /\ scanFrame.of.step > 0 =>
    Len(scanFrame.ranges) = scanFrame.of.pad + RayCount(scanFrame.of)

(***************************************************************************)
(* The points of a cloud are captured within its scan, and each channel's  *)
(* in the order of its columns: the check of the firing offsets when a     *)
(* configuration is set is enough for the scan that computes with them.    *)
(* The size a cloud announces is how many there are, unless there is no    *)
(* ray caster: then it is announced all the same and there are none.       *)
(***************************************************************************)
PointsWithinScan ==
  LET time(iv, ih) == cloud.points[(iv - 1) * cloud.width + ih].time
  IN /\ Len(cloud.points) = IF caster THEN cloud.height * cloud.width ELSE 0
     /\ \A k \in DOMAIN cloud.points : 0 <= cloud.points[k].time /\ cloud.points[k].time < cloud.period
     /\ caster => \A iv \in 1..cloud.height, ih \in 1..(cloud.width - 1) : time(iv, ih) < time(iv, ih + 1)

(***************************************************************************)
(* A frame is of one scan: the header and the ranges, the points and their *)
(* times.                                                                  *)
(***************************************************************************)
FramesOfOneScan == HeaderMatchesRanges /\ PointsWithinScan
=============================================================================
