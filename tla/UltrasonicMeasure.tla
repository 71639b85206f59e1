-------------------------- MODULE UltrasonicMeasure --------------------------
(***************************************************************************)
(* UltrasonicSensor::Measure (sensors/ultrasonic/ultrasonic_sensor.cpp):   *)
(* a cone of rays, each with the distance of its echo projected onto the   *)
(* forward axis, is reduced to one range and one status in a single pass.  *)
(* A ray without an echo is one that hits nothing, hits the robot itself   *)
(* or points backwards.                                                    *)
(***************************************************************************)
EXTENDS Integers

CONSTANTS
  Rays,       \* the number of rays of the cone
  RangeMin,   \* detection_distance.min
  RangeMax,   \* detection_distance.max
  Distances,  \* the projected distances an echo may have
  NoEcho,     \* a ray that finds nothing
  Noise       \* what the noise pipeline may add

ASSUME UltrasonicAssumption ==
  /\ Rays \in Nat
  /\ RangeMin \in Nat /\ RangeMax \in Nat /\ RangeMin <= RangeMax
  /\ Distances \subseteq Nat
  /\ NoEcho \notin Int
  /\ Noise \subseteq Int

VARIABLES
  pc,       \* "idle", "cast" or "report"
  echo,     \* what each ray of this measurement meets
  ray,      \* the ray the loop has come to
  nearest,  \* min_projected_dist
  hit,      \* hit_found
  below,    \* below_min_found
  raw,      \* out.range before the noise
  range,    \* out.range
  status    \* out.status

scan   == <<echo, ray, nearest, hit, below>>
output == <<raw, range, status>>
vars   == <<pc, scan, output>>

Clamp(d, lo, hi) == IF d < lo THEN lo ELSE IF d > hi THEN hi ELSE d
-----------------------------------------------------------------------------
\* The runtime frame could not be resolved or there are no rays.
Invalid ==
  /\ pc = "idle"
  /\ raw' = 0 /\ range' = 0 /\ status' = "INVALID"
  /\ UNCHANGED <<pc, scan>>

Begin ==
  /\ pc = "idle" /\ Rays > 0
  /\ echo' \in [1..Rays -> Distances \cup {NoEcho}]
  /\ ray' = 1
  /\ nearest' = RangeMax
  /\ hit' = FALSE /\ below' = FALSE
  /\ pc' = "cast"
  /\ UNCHANGED output

NextRay ==
  /\ pc = "cast" /\ ray <= Rays
  /\ ray' = ray + 1
  /\ UNCHANGED <<pc, echo, output>>

Misses ==
  /\ NextRay
  /\ echo[ray] = NoEcho
  /\ UNCHANGED <<nearest, hit, below>>

\* A variant that notes the blind zone and keeps the distance.
TooNearKeeps ==
  /\ NextRay
  /\ echo[ray] # NoEcho /\ echo[ray] < RangeMin
  /\ below' = TRUE
  /\ UNCHANGED <<hit, nearest>>

\* An echo from inside the blind zone.
TooNear ==
  /\ NextRay
  /\ echo[ray] # NoEcho /\ echo[ray] < RangeMin
  /\ below' = TRUE
  /\ nearest' = RangeMin
  /\ UNCHANGED hit

Nearer ==
  /\ NextRay
  /\ echo[ray] # NoEcho /\ echo[ray] >= RangeMin
  /\ echo[ray] <= RangeMax /\ echo[ray] < nearest
  /\ nearest' = echo[ray]
  /\ hit' = TRUE
  /\ UNCHANGED below

Farther ==
  /\ NextRay
  /\ echo[ray] # NoEcho /\ echo[ray] >= RangeMin
  /\ echo[ray] > RangeMax \/ echo[ray] >= nearest
  /\ UNCHANGED <<nearest, hit, below>>

Report ==
  /\ pc = "cast" /\ ray > Rays
  /\ status' = IF hit THEN "OK" ELSE IF below THEN "BELOW_MIN_RANGE" ELSE "NO_HIT"
  /\ raw' = IF hit THEN nearest ELSE IF below THEN RangeMin ELSE RangeMax
  /\ \E n \in Noise : range' = Clamp(raw' + n, RangeMin, RangeMax)
  /\ pc' = "report"
  /\ UNCHANGED scan

\* The caller takes the frame; the next measurement starts from nothing.
Return == pc = "report" /\ pc' = "idle" /\ UNCHANGED <<scan, output>>

Init ==
  /\ pc = "idle"
  /\ echo = [r \in 1..Rays |-> NoEcho] /\ ray = 1
  /\ nearest = RangeMax /\ hit = FALSE /\ below = FALSE
  /\ raw = 0 /\ range = 0 /\ status = "INVALID"

Next ==
  \/ Invalid \/ Begin
  \/ Misses \/ TooNear \/ Nearer \/ Farther
  \/ Report \/ Return

Spec == Init /\ [][Next]_vars
-----------------------------------------------------------------------------
Echoes == {echo[r] : r \in 1..Rays} \ {NoEcho}

\* The types of the scene and of the loop, and the range the minimum stays in.
TypeOK ==
  /\ pc \in {"idle", "cast", "report"}
  /\ echo \in [1..Rays -> Distances \cup {NoEcho}]
  /\ ray \in 1..(Rays + 1)
  /\ nearest \in RangeMin..RangeMax
  /\ hit \in BOOLEAN /\ below \in BOOLEAN
  /\ raw \in Int
  /\ range \in {0} \cup RangeMin..RangeMax
  /\ status \in {"INVALID", "OK", "BELOW_MIN_RANGE", "NO_HIT"}

(***************************************************************************)
(* The sensor never reports more room than there is: before the noise, the *)
(* range is no larger than any echo, or than the minimum where the echo is *)
(* nearer than that, in whatever order the rays are cast.                  *)
(***************************************************************************)
NeverTooFar ==
  pc = "report" => \A d \in Echoes : raw <= Clamp(d, RangeMin, RangeMax)

(***************************************************************************)
(* Nor does it make up an obstacle: a range short of the maximum is that   *)
(* of an echo, or the minimum when something is nearer.                    *)
(***************************************************************************)
RangeHasEcho ==
  pc = "report" /\ raw < RangeMax => \E d \in Echoes : raw = Clamp(d, RangeMin, RangeMax)

\* An echo that Measure may take for the range, and one from the blind zone.
Valid(r) == echo[r] # NoEcho /\ echo[r] >= RangeMin /\ echo[r] < RangeMax
Blind(r) == echo[r] # NoEcho /\ echo[r] < RangeMin

(***************************************************************************)
(* What the status says of the scene: "no hit" exactly when there is no    *)
(* echo short of the maximum, "OK" exactly when a valid echo is met before *)
(* every one from the blind zone, "below minimum" in the other cases: the  *)
(* blind-zone branch lowers the running minimum, so that a valid echo      *)
(* cast after it no longer counts.                                         *)
(***************************************************************************)
StatusHasReason ==
  pc = "report" =>
    /\ status = "NO_HIT" <=> \A r \in 1..Rays : ~Valid(r) /\ ~Blind(r)
    /\ status = "OK" <=> \E r \in 1..Rays : Valid(r) /\ \A q \in 1..(r - 1) : ~Blind(q)
    /\ status = "BELOW_MIN_RANGE" <=>
         \E r \in 1..Rays : Blind(r) /\ \A q \in 1..(r - 1) : ~Valid(q)

(***************************************************************************)
(* Range and status together say what the scene is: the three properties   *)
(* above, for every order of the rays and every choice of the noise.       *)
(***************************************************************************)
MeasureSound == NeverTooFar /\ RangeHasEcho /\ StatusHasReason

(***************************************************************************)
(* What the comment at Measure's declaration promises: where there is a    *)
(* valid hit the status is OK and the range is the nearest of them.  It    *)
(* does not hold once an echo from the blind zone is among the others.     *)
(***************************************************************************)
NearestHitIsReported ==
  pc = "report" /\ (\E r \in 1..Rays : Valid(r)) =>
    /\ status = "OK"
    /\ \E r \in 1..Rays : Valid(r) /\ raw = echo[r]
    /\ \A r \in 1..Rays : Valid(r) => raw <= echo[r]

=============================================================================
