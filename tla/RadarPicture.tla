----------------------------- MODULE RadarPicture -----------------------------
(***************************************************************************)
(* What daa_common.py makes of the radars of one aircraft: where its fit   *)
(* can look (azimuth_coverage_deg, covers_az, covers_el, coverage_gap) and *)
(* what a scan of all of them reports (_read_channel, _hits, scan_units,   *)
(* scan_best).                                                             *)
(*                                                                         *)
(* Angles are whole units, Circle of them in a turn; azimuth windows are   *)
(* in the body frame and may run past half a turn, as in RadarUnit.        *)
(* Speeds along a line of sight use a cosine rounded to an integer, the    *)
(* same for the radar and for its reader.  A radar returns every target    *)
(* inside its window and range (external here, see RadarScan).             *)
(***************************************************************************)
EXTENDS Integers, Sequences, FiniteSets

CONSTANTS
  Circle,      \* units of angle in a turn
  Cosine,      \* [0..Circle - 1 -> Int]
  Fits,        \* sequences of radars an aircraft may carry
  Targets,     \* targets there may be
  Velocities,  \* <<forward, left>>: the aircraft's own
  Windows,     \* <<azHalf, elHalf, r_max>> of a scenario; Open leaves one as it is
  Open,        \* no limit, no reading
  Tolerance,   \* moving_tol_mps and min_abs_doppler
  MaxLooks     \* bound: scans

\* A fit has a radar, a window begins before it ends and is no taller than the sky.  A
\* target's bearing is what atan2 gives: no more than half a turn either way.
PictureAssumption ==
  /\ Circle \in Nat \ {0}
  /\ Cosine \in [0..(Circle - 1) -> Int]
  /\ Tolerance \in Nat
  /\ \A f \in Fits :
       /\ f # << >>
       /\ f \in Seq([yaw : Int, az_lo : Int, az_hi : Int, el_lo : Int, el_hi : Int, range : Int])
       /\ \A i \in DOMAIN f : /\ f[i].az_lo <= f[i].az_hi
                             /\ -Circle <= f[i].el_lo /\ f[i].el_lo <= f[i].el_hi /\ f[i].el_hi <= Circle
  /\ IsFiniteSet(Targets)
  /\ \A t \in Targets : /\ t \in [az : Int, el : Int, rng : Int, radial : Int]
                        /\ -Circle <= 2 * t.az /\ 2 * t.az <= Circle
  /\ \A v \in Velocities : v[1] \in Int /\ v[2] \in Int
  /\ Open \notin Int
  /\ \A w \in Windows, i \in 1..3 : w[i] \in Int \/ w[i] = Open

VARIABLES
  units,     \* radar_fit
  sky,       \* the targets of the latest scan
  motion,    \* the aircraft's velocity, the filter chosen and what it is given
  window,    \* the scenario's own window
  missing,   \* _missing_channels
  answered,  \* ghost: the radars whose channel could be read in the latest scan
  best,      \* what scan_best returned
  looks      \* scans so far

pictureVars == <<units, sky, motion, window, missing, answered, best, looks>>

Nearest(S) == CHOOSE n \in S : \A m \in S : n <= m
Farthest(S) == CHOOSE n \in S : \A m \in S : m <= n
Abs(n) == IF n < 0 THEN -n ELSE n
Turn(n) == n % Circle

\* An angle in (-Circle/2, Circle/2], as atan2 gives it, and in the half-open
\* interval the other way round, as _hits folds it.
Signed(n) == IF Turn(n) > Circle \div 2 THEN Turn(n) - Circle ELSE Turn(n)
Folded(n) == Turn(n + Circle \div 2) - Circle \div 2

Along(v, az) == v[1] * Cosine[Turn(az)] + v[2] * Cosine[Turn(az - Circle \div 4)]
-----------------------------------------------------------------------------
(***************************************************************************)
(* Where the fit can look                                                  *)
(***************************************************************************)
\* A window on [0, Circle], in two if it wraps.
Segments(u) ==
  LET lo == Turn(u.az_lo)
      hi == lo + (u.az_hi - u.az_lo)
  IN IF hi > Circle THEN {<<lo, Circle>>, <<0, hi - Circle>>} ELSE {<<lo, hi>>}

\* A variant that takes the end of the segment that begins last.
MergeToLast(total, cur, seg) ==
  IF seg[1] > cur[2] THEN <<total + (cur[2] - cur[1]), seg>>
  ELSE <<total, <<cur[1], seg[2]>>>>

\* One step of the sweep: close the current segment or extend it.
Merge(total, cur, seg) ==
  IF seg[1] > cur[2] THEN <<total + (cur[2] - cur[1]), seg>>
  ELSE <<total, <<cur[1], Farthest({cur[2], seg[2]})>>>>

\* The sweep over all segments, in order.
Sweep(segs) ==
  LET Before(s, t) == s[1] < t[1] \/ (s[1] = t[1] /\ s[2] < t[2])
      At(i) == CHOOSE s \in segs : Cardinality({t \in segs : Before(t, s)}) = i - 1
      swept[i \in 1..Cardinality(segs)] ==
        IF i = 1 THEN <<0, At(1)>>
        ELSE LET before == swept[i - 1] IN Merge(before[1], before[2], At(i))
      result == swept[Cardinality(segs)]
  IN result[1] + (result[2][2] - result[2][1])

AzimuthCoverage ==
  IF \E i \in DOMAIN units : units[i].az_hi - units[i].az_lo >= Circle THEN Circle
  ELSE Sweep(UNION {Segments(units[i]) : i \in DOMAIN units})

ElevationCoverage == Sweep({<<units[i].el_lo, units[i].el_hi>> : i \in DOMAIN units})

LooksAt(u, az) == Turn(az - u.az_lo) <= u.az_hi - u.az_lo
Reaches(u, el) == u.el_lo <= el /\ el <= u.el_hi
CoversAz(az) == \E i \in DOMAIN units : LooksAt(units[i], az)
CoversEl(el) == \E i \in DOMAIN units : Reaches(units[i], el)
UnitSees(u, t) == LooksAt(u, t.az) /\ Reaches(u, t.el) /\ t.rng <= u.range

\* Why a target cannot be seen, or None.
CoverageGap(t) ==
  CASE window[1] # Open /\ Abs(t.az) > window[1] -> "own azimuth"
    [] ~(window[1] # Open /\ Abs(t.az) > window[1]) /\ window[2] # Open /\ Abs(t.el) > window[2]
         -> "own elevation"
    [] OTHER ->
       IF \E i \in DOMAIN units : UnitSees(units[i], t) THEN "none"
       ELSE IF \E i \in DOMAIN units : LooksAt(units[i], t.az) /\ Reaches(units[i], t.el)
            THEN "range"
       ELSE IF CoversAz(t.az) THEN "elevation"
       ELSE IF CoversEl(t.el) THEN "azimuth" ELSE "bearing"
-----------------------------------------------------------------------------
(***************************************************************************)
(* What a scan reports                                                     *)
(***************************************************************************)
\* The radar's own frame: a return's azimuth is from its boresight, its Doppler
\* the rate at which the distance grows.
Return(u, t) ==
  [az |-> Signed(t.az - u.yaw), el |-> t.el, rng |-> t.rng,
   doppler |-> t.radial - Along(motion.true, t.az)]

\* A variant that takes the absolute value whatever is given.
StaticAbsolute(r) == motion.filter # "none" /\ Abs(r.doppler) < Tolerance

\* Static structure: a Doppler of about zero, or of about what the velocity that
\* is given makes of it.  The velocity is not turned into the radar's frame.
Static(r) ==
  \/ motion.filter = "absolute" /\ Abs(r.doppler) < Tolerance
  \/ motion.filter = "own" /\ Abs(r.doppler + Along(motion.given, r.az)) < Tolerance

\* A variant that leaves the bearing in the radar's frame.
InsideUnturned(u, r) ==
  /\ window[1] # Open => Abs(r.az) <= window[1]
  /\ window[2] # Open => Abs(r.el) <= window[2]
  /\ window[3] # Open => r.rng <= window[3]

\* The scenario's window is in the body frame: the bearing is turned.
Inside(u, r) ==
  LET az == IF u.yaw # 0 THEN Folded(r.az + u.yaw) ELSE r.az
  IN /\ window[1] # Open => Abs(az) <= window[1]
     /\ window[2] # Open => Abs(r.el) <= window[2]
     /\ window[3] # Open => r.rng <= window[3]

\* _hits: what is not too near, not static and inside the window.
Hits(u, targets) ==
  {r \in {Return(u, t) : t \in {s \in targets : UnitSees(u, s)}} :
     r.rng > 0 /\ ~Static(r) /\ Inside(u, r)}

\* scan_units and scan_best over the radars that could be read.
Best(readable, targets) ==
  LET seen == {i \in readable : Hits(units[i], targets) # {}}
      ranges(i) == {r.rng : r \in Hits(units[i], targets)}
      count == Cardinality(UNION {{i} \X Hits(units[i], targets) : i \in readable})
  IN IF seen = {} THEN [rng |-> Open, source |-> 0, count |-> 0]
     ELSE LET rng == Nearest(UNION {ranges(i) : i \in seen})
          IN [rng |-> rng, source |-> Nearest({i \in seen : rng \in ranges(i)}), count |-> count]

\* One call of scan_best: a read raises and its channel is never read again, or
\* gives nothing this time, or the latest scan of the radar.
ScanBest ==
  /\ looks < MaxLooks /\ looks' = looks + 1
  /\ sky' \in SUBSET Targets
  /\ \E raised \in SUBSET (DOMAIN units \ missing), empty \in SUBSET DOMAIN units :
       /\ missing' = missing \cup raised
       /\ answered' = DOMAIN units \ (missing' \cup empty)
       /\ best' = Best(answered', sky')
  /\ UNCHANGED <<units, motion, window>>

PictureInit ==
  /\ units \in Fits /\ window \in Windows
  /\ motion \in [true : Velocities, filter : {"none", "absolute", "own"}, given : Velocities]
  /\ motion.filter # "own" => motion.given = motion.true
  /\ sky = {} /\ missing = {} /\ answered = {} /\ looks = 0
  /\ best = [rng |-> Open, source |-> 0, count |-> 0]

PictureNext == ScanBest

PictureSpec == PictureInit /\ [][PictureNext]_pictureVars
-----------------------------------------------------------------------------
(***************************************************************************)
(* azimuth_coverage_deg: "overlaps counted once".  For every fit it is the *)
(* number of unit arcs some window contains, wrapping or not; and          *)
(* elevation_coverage_deg is the same of the elevation windows.            *)
(***************************************************************************)
CoverageCountedOnce ==
  /\ AzimuthCoverage = Cardinality({a \in 0..(Circle - 1) : \E i \in DOMAIN units :
       LET d == Turn(a - units[i].az_lo) IN d + 1 <= units[i].az_hi - units[i].az_lo})
  /\ ElevationCoverage = Cardinality({e \in -Circle..Circle : \E i \in DOMAIN units :
       units[i].el_lo <= e /\ e + 1 <= units[i].el_hi})

(***************************************************************************)
(* coverage_gap: "Why the target at this bearing cannot be seen -- or None *)
(* if it can".  With every radar answering and nothing taken for static,   *)
(* a target alone in the scene is reported exactly when there is no gap,   *)
(* however the radars are mounted.                                         *)
(***************************************************************************)
GapExplainsMiss ==
  answered = DOMAIN units /\ motion.filter = "none" /\ Cardinality(sky) = 1 =>
    \A t \in sky : t.rng > 0 /\ (window[3] # Open => t.rng <= window[3]) =>
      (best.rng = t.rng) = (CoverageGap(t) = "none")

\* The targets that close or leave faster than the tolerance where some radar
\* that has answered sees them and the window has them.
Movers ==
  {t \in sky : /\ Abs(t.radial) >= Tolerance /\ t.rng > 0
               /\ window[3] # Open => t.rng <= window[3]
               /\ CoverageGap(t) = "none"
               /\ \E i \in answered : UnitSees(units[i], t)}

\* The velocity that is given is the aircraft's, in the frame of this radar.
InFrameOf(u) ==
  \A az \in 0..(Circle - 1) : Along(motion.given, az) = Along(motion.true, az + u.yaw)

(***************************************************************************)
(* The filter for moving targets, given the aircraft's own velocity in the *)
(* frame of its radars, however they are mounted: no static structure is   *)
(* reported, and no target that closes faster than the tolerance hides     *)
(* behind the aircraft's own speed or behind a farther one.                *)
(***************************************************************************)
MoversOnly ==
  motion.filter = "own" /\ (\A i \in DOMAIN units : InFrameOf(units[i]))
  => best.rng = IF Movers = {} THEN Open ELSE Nearest({t.rng : t \in Movers})
=============================================================================
