---------------------------- MODULE DevicesProofs ----------------------------
(***************************************************************************)
(* Proofs about devices that are called and answer: what one pass of the   *)
(* ultrasonic sensor computes, what captures leave of the shared model and *)
(* give for a pair, that the health codecs of two languages are one, and   *)
(* what the frames of the LiDARs are made of and show.                     *)
(***************************************************************************)
EXTENDS UltrasonicMeasure, CameraRig, HealthWire, LidarScan, SequenceTheorems, FiniteSetTheorems,
        WellFoundedInduction, TLAPS

(***************************************************************************)
(* Functions that are defined at each place from the places of smaller     *)
(* rank, which the scans and the texts below are about.                    *)
(***************************************************************************)

\* A set of numbers that is not empty has a least one.
LEMMA NatHasLeast ==
  ASSUME NEW S \in SUBSET Nat, S # {}
  PROVE  \E x \in S : \A y \in S : x <= y
<1> DEFINE R == {ss \in Nat \X Nat : ss[1] < ss[2]}
<1>1. IsWellFoundedOn(R, Nat)
  BY NatLessThanWellFounded DEF OpToRel
<1>2. PICK x \in S : \A y \in S : <<y, x>> \notin R
  BY <1>1, WFMin
<1>3. \A y \in S : x <= y
  <2> SUFFICES ASSUME NEW y \in S, ~(x <= y)
               PROVE  FALSE
    OBVIOUS
  <2>1. y \in Nat /\ x \in Nat /\ y < x
    OBVIOUS
  <2>2. <<y, x>> \in R
    BY <2>1
  <2> QED  BY <1>2, <2>2
<1> QED
  BY <1>3

\* What belongs at a place of S depends on what is at places of smaller rank only:
\* step[x][f] is what belongs at x next to the values of f.
Recursive(S, V, N, rank, step) ==
  /\ N \in Nat /\ rank \in [S -> 0..N] /\ step \in [S -> [[S -> V] -> V]] /\ [S -> V] # {}
  /\ \A x \in S : \A f, g \in [S -> V] :
       (\A y \in S : rank[y] < rank[x] => f[y] = g[y]) => step[x][f] = step[x][g]

\* What is defined at each place from the places of smaller rank is a function.
LEMMA RecursionDefines ==
  ASSUME NEW S, NEW V, NEW N, NEW rank, NEW step, Recursive(S, V, N, rank, step)
  PROVE  \E f \in [S -> V] : \A x \in S : f[x] = step[x][f]
<1> N \in Nat /\ rank \in [S -> 0..N] /\ step \in [S -> [[S -> V] -> V]] /\ [S -> V] # {}
  BY DEF Recursive
<1>0. \A x \in S : \A f, g \in [S -> V] :
       (\A y \in S : rank[y] < rank[x] => f[y] = g[y]) => step[x][f] = step[x][g]
  BY DEF Recursive
<1> DEFINE Upto(m, f) == \A x \in S : rank[x] < m => f[x] = step[x][f]
           Bad == {m \in Nat : ~(\E f \in [S -> V] : Upto(m, f))}
<1>1. Bad = {}
  <2> SUFFICES ASSUME Bad # {} PROVE FALSE
    OBVIOUS
  <2>1. PICK m \in Bad : \A k \in Bad : m <= k
    <3>1. Bad \in SUBSET Nat
      OBVIOUS
    <3> HIDE DEF Bad
    <3> QED  BY <3>1, NatHasLeast
  <2>2. m # 0
    <3>1. PICK f : f \in [S -> V]
      OBVIOUS
    <3>2. Upto(0, f)
      OBVIOUS
    <3> QED  BY <3>1, <3>2
  <2>3. m - 1 \in Nat /\ m - 1 \notin Bad
    <3>1. m \in Nat /\ m - 1 \in Nat
      BY <2>2
    <3> HIDE DEF Bad
    <3> QED  BY <2>1, <3>1
  <2>4. PICK f \in [S -> V] : Upto(m - 1, f)
    BY <2>3
  <2> DEFINE g == [x \in S |-> IF rank[x] = m - 1 THEN step[x][f] ELSE f[x]]
  <2>5. g \in [S -> V]
    OBVIOUS
  <2>6. ASSUME NEW x \in S, rank[x] < m PROVE g[x] = step[x][g]
    <3>1. \A y \in S : rank[y] < rank[x] => f[y] = g[y]
      BY <2>6
    <3>2. step[x][f] = step[x][g]
      <4> HIDE DEF g
      <4> QED  BY <1>0, <2>5, <3>1
    <3>3. g[x] = step[x][f]
      BY <2>3, <2>4, <2>6
    <3> QED  BY <3>2, <3>3
  <2> HIDE DEF g
  <2>7. Upto(m, g)
    BY <2>6
  <2> QED  BY <2>1, <2>5, <2>7
<1>2. PICK f \in [S -> V] : Upto(N + 1, f)
  <2>1. N + 1 \in Nat
    OBVIOUS
  <2> HIDE DEF Upto
  <2> QED  BY <1>1, <2>1
<1>3. \A x \in S : rank[x] < N + 1
  OBVIOUS
<1> QED
  BY <1>2, <1>3
-----------------------------------------------------------------------------
(***************************************************************************)
(* What one pass over the rays computes, for every number of rays, every   *)
(* scene and every limit.                                                  *)
(*                                                                         *)
(* The inductive invariant says what the running minimum and the two flags *)
(* mean after the rays cast so far, and that a report shows what they mean *)
(* after the last one.                                                     *)
(***************************************************************************)
\* The rays the loop has passed that met something.
Passed == {r \in 1..Rays : r < ray /\ echo[r] # NoEcho}

\* A ray with a valid echo before any from the blind zone.
FirstValid(r) ==
  /\ echo[r] >= RangeMin /\ echo[r] < RangeMax
  /\ \A q \in Passed : q < r => echo[q] >= RangeMin

\* What the loop's variables mean in terms of the rays passed.
LoopInv ==
  pc \in {"cast", "report"} =>
    /\ \A r \in Passed : nearest <= Clamp(echo[r], RangeMin, RangeMax)
    /\ nearest < RangeMax => \E r \in Passed : nearest = Clamp(echo[r], RangeMin, RangeMax)
    /\ below <=> \E r \in Passed : echo[r] < RangeMin
    /\ hit <=> \E r \in Passed : FirstValid(r)
    /\ ~hit /\ ~below => nearest = RangeMax
    /\ ~hit /\ below => nearest = RangeMin

\* What a report shows of them.
ReportInv ==
  pc = "report" =>
    /\ ray > Rays
    /\ raw = nearest
    /\ status = IF hit THEN "OK" ELSE IF below THEN "BELOW_MIN_RANGE" ELSE "NO_HIT"

\* The invariant speaks of rays and not of distances, so that one step
\* disturbs it only at the ray that is cast.
Inv == TypeOK /\ LoopInv /\ ReportInv

-----------------------------------------------------------------------------
(***************************************************************************)
(* The types follow from the code alone: the running minimum stays within  *)
(* the limits because it is only ever lowered to a measurable echo or to   *)
(* the minimum.                                                            *)
(***************************************************************************)
THEOREM TypeCorrect == Spec => []TypeOK
<1> USE UltrasonicAssumption
<1>1. Init => TypeOK
  <2> SUFFICES ASSUME Init PROVE TypeOK
    OBVIOUS
  <2>1. echo \in [1..Rays -> Distances \cup {NoEcho}]
    BY DEF Init
  <2>2. /\ ray \in 1..(Rays + 1)
        /\ nearest \in RangeMin..RangeMax
        /\ raw \in Int
        /\ range \in {0} \cup RangeMin..RangeMax
    BY DEF Init
  <2>3. hit \in BOOLEAN /\ below \in BOOLEAN
    BY Zenon DEF Init
  <2> QED BY <2>1, <2>2, <2>3 DEF Init, TypeOK
<1>2. TypeOK /\ [Next]_vars => TypeOK'
  <2> SUFFICES ASSUME TypeOK, [Next]_vars PROVE TypeOK'
    OBVIOUS
  <2> USE DEF TypeOK
  <2>1. CASE Invalid
    BY <2>1 DEF Invalid, scan
  <2>2. CASE Begin
    <3>1. echo' \in [1..Rays -> Distances \cup {NoEcho}]
      BY <2>2 DEF Begin
    <3>2. /\ ray' \in 1..(Rays + 1) /\ nearest' \in RangeMin..RangeMax
          /\ pc' \in {"idle", "cast", "report"}
          /\ UNCHANGED output
      BY <2>2 DEF Begin
    <3>3. hit' \in BOOLEAN /\ below' \in BOOLEAN
      BY <2>2, Zenon DEF Begin
    <3> QED BY <3>1, <3>2, <3>3 DEF output
  <2>3. CASE Misses
    BY <2>3 DEF Misses, NextRay, output
  <2>4. CASE TooNear
    BY <2>4 DEF TooNear, NextRay, output
  <2>5. CASE Nearer
    BY <2>5 DEF Nearer, NextRay, output
  <2>6. CASE Farther
    BY <2>6 DEF Farther, NextRay, output
  <2>7. CASE Report
    BY <2>7 DEF Report, scan, Clamp
  <2>8. CASE Return
    BY <2>8 DEF Return, scan, output
  <2>9. CASE UNCHANGED vars
    BY <2>9 DEF vars, scan, output
  <2> QED BY <2>1, <2>2, <2>3, <2>4, <2>5, <2>6, <2>7, <2>8, <2>9 DEF Next
<1> QED BY <1>1, <1>2, PTL DEF Spec

-----------------------------------------------------------------------------
\* Where a ray has an echo, its distance is a number.
LEMMA EchoIsNumber ==
  ASSUME TypeOK, NEW r \in 1..Rays, echo[r] # NoEcho
  PROVE  echo[r] \in Nat
<1>1. echo[r] \in Distances \cup {NoEcho}
  BY DEF TypeOK
<1> QED BY <1>1, UltrasonicAssumption

\* What Clamp returns.
LEMMA ClampMeans ==
  ASSUME NEW d \in Int
  PROVE  /\ Clamp(d, RangeMin, RangeMax) \in RangeMin..RangeMax
         /\ d < RangeMin => Clamp(d, RangeMin, RangeMax) = RangeMin
         /\ d \in RangeMin..RangeMax => Clamp(d, RangeMin, RangeMax) = d
         /\ d > RangeMax => Clamp(d, RangeMin, RangeMax) = RangeMax
BY UltrasonicAssumption DEF Clamp

\* A step of the loop adds at most the ray it casts.
LEMMA CastGrows ==
  ASSUME TypeOK, NextRay
  PROVE  Passed' = Passed \cup {r \in {ray} : echo[r] # NoEcho}
BY UltrasonicAssumption DEF TypeOK, NextRay, Passed

\* The rays passed before keep their place among the valid and the blind.
LEMMA StillFirst ==
  ASSUME TypeOK, NextRay, NEW r \in Passed
  PROVE  FirstValid(r)' <=> FirstValid(r)
<1>1. /\ echo' = echo /\ r < ray /\ ray \in Nat /\ r \in Nat
      /\ Passed' = Passed \cup {q \in {ray} : echo[q] # NoEcho}
  BY CastGrows, UltrasonicAssumption DEF NextRay, Passed, TypeOK
<1> QED BY <1>1 DEF FirstValid, Passed

\* The loop's variables keep their meaning.
LEMMA LoopStep ==
  ASSUME TypeOK, LoopInv, ReportInv, [Next]_vars
  PROVE  LoopInv'
<1> USE UltrasonicAssumption DEF TypeOK
<1>1. CASE Invalid
  BY <1>1 DEF Invalid, scan, LoopInv
<1>2. CASE Begin
  <2>1. Passed' = {}
    BY <1>2 DEF Begin, Passed
  <2> QED BY <1>2, <2>1 DEF Begin, LoopInv
<1>3. CASE Misses
  <2>1. Passed' = Passed
    BY <1>3, CastGrows DEF Misses
  <2>2. \A r \in Passed : FirstValid(r)' <=> FirstValid(r)
    BY <1>3, StillFirst DEF Misses
  <2> QED BY <1>3, <2>1, <2>2 DEF Misses, NextRay, LoopInv
<1>4. CASE TooNear
  <2>1. Passed' = Passed \cup {ray} /\ Passed \subseteq 1..Rays
    BY <1>4, CastGrows DEF TooNear, Passed
  <2>2. /\ echo' = echo /\ pc' = pc /\ pc = "cast" /\ hit' = hit /\ below' = TRUE /\ nearest' = RangeMin
        /\ ray \in 1..Rays /\ echo[ray] # NoEcho /\ echo[ray] < RangeMin
    BY <1>4 DEF TooNear, NextRay
  <2>3. Clamp(echo[ray], RangeMin, RangeMax) = RangeMin
    BY <2>2, EchoIsNumber, ClampMeans
  <2>4. \A r \in Passed : Clamp(echo[r], RangeMin, RangeMax) \in RangeMin..RangeMax
    BY EchoIsNumber, ClampMeans DEF Passed
  <2>5. hit' <=> \E r \in Passed' : FirstValid(r)'
    <3>1. \A r \in Passed : FirstValid(r)' <=> FirstValid(r)
      BY <1>4, StillFirst DEF TooNear
    <3>2. \A r \in {ray} : ~FirstValid(r)'
      BY <2>2, EchoIsNumber DEF FirstValid
    <3> HIDE DEF Clamp
    <3> QED BY <2>1, <2>2, <3>1, <3>2 DEF LoopInv
  <2>6. below' <=> \E r \in Passed' : echo'[r] < RangeMin
    BY <2>1, <2>2
  <2>7. \A r \in Passed' : nearest' <= Clamp(echo'[r], RangeMin, RangeMax)
    BY <2>1, <2>2, <2>3, <2>4
  <2>8. \E r \in Passed' : nearest' = Clamp(echo'[r], RangeMin, RangeMax)
    BY <2>1, <2>2, <2>3
  <2> QED BY <2>2, <2>5, <2>6, <2>7, <2>8 DEF LoopInv
<1>5. CASE Nearer
  <2>1. Passed' = Passed \cup {ray} /\ Passed \subseteq 1..Rays
    BY <1>5, CastGrows DEF Nearer, Passed
  <2>2. /\ echo' = echo /\ pc' = pc /\ pc = "cast" /\ hit' = TRUE /\ below' = below /\ nearest' = echo[ray]
        /\ ray \in 1..Rays /\ echo[ray] # NoEcho /\ echo[ray] >= RangeMin
        /\ echo[ray] <= RangeMax /\ echo[ray] < nearest
    BY <1>5 DEF Nearer, NextRay
  <2>3. /\ echo[ray] \in Nat /\ echo[ray] < RangeMax
        /\ Clamp(echo[ray], RangeMin, RangeMax) = echo[ray]
    BY <2>2, EchoIsNumber, ClampMeans
  <2>4. \A r \in Passed : Clamp(echo[r], RangeMin, RangeMax) \in Int
    BY EchoIsNumber, ClampMeans DEF Passed
  <2>5. \A r \in Passed' : nearest' <= Clamp(echo'[r], RangeMin, RangeMax)
    BY <2>1, <2>2, <2>3, <2>4 DEF LoopInv
  <2>6. below' <=> \E r \in Passed' : echo'[r] < RangeMin
    BY <2>1, <2>2, <2>3 DEF LoopInv
  <2>7. \A r \in {ray} : FirstValid(r)'
    <3>1. ASSUME NEW q \in Passed PROVE echo[q] >= RangeMin
      <4>1. q \in 1..Rays /\ echo[q] # NoEcho /\ nearest <= Clamp(echo[q], RangeMin, RangeMax)
        BY <2>2, <3>1 DEF LoopInv, Passed
      <4>2. echo[q] \in Nat /\ (echo[q] < RangeMin => Clamp(echo[q], RangeMin, RangeMax) = RangeMin)
        BY <4>1, EchoIsNumber, ClampMeans
      <4> QED BY <2>2, <2>3, <4>1, <4>2
    <3>2. \A q \in Passed' : q < ray => q \in Passed
      BY <2>1, <2>2
    <3> QED BY <2>2, <2>3, <3>1, <3>2 DEF FirstValid
  <2>8. nearest' = Clamp(echo'[ray], RangeMin, RangeMax) /\ ray \in Passed'
    BY <2>1, <2>2, <2>3
  <2>9. \E r \in Passed' : nearest' = Clamp(echo'[r], RangeMin, RangeMax)
    BY <2>2, <2>8
  <2>10. \E r \in Passed' : FirstValid(r)'
    BY <2>7, <2>8
  <2> QED BY <2>2, <2>5, <2>6, <2>9, <2>10 DEF LoopInv
<1>6. CASE Farther
  <2>1. Passed \subseteq Passed' /\ Passed' \subseteq Passed \cup {ray} /\ Passed \subseteq 1..Rays
    BY <1>6, CastGrows DEF Farther, Passed
  <2>2. /\ echo' = echo /\ pc' = pc /\ pc = "cast" /\ hit' = hit /\ below' = below /\ nearest' = nearest
        /\ ray \in 1..Rays /\ echo[ray] # NoEcho /\ echo[ray] >= RangeMin
        /\ echo[ray] > RangeMax \/ echo[ray] >= nearest
    BY <1>6 DEF Farther, NextRay
  <2>3. echo[ray] \in Nat /\ nearest <= Clamp(echo[ray], RangeMin, RangeMax)
    BY <2>2, EchoIsNumber, ClampMeans
  <2>4. hit' <=> \E r \in Passed' : FirstValid(r)'
    <3>1. \A r \in Passed : FirstValid(r)' <=> FirstValid(r)
      BY <1>6, StillFirst DEF Farther
    <3>2. ASSUME NEW r \in {ray}, FirstValid(r)' PROVE \E q \in Passed : FirstValid(q)
      <4>1. nearest < RangeMax
        <5>1. echo[ray] < RangeMax
          BY <2>2, <3>2 DEF FirstValid
        <5> QED BY <2>2, <2>3, <5>1
      <4>2. \A q \in Passed : q < ray /\ echo[q] \in Nat
        BY EchoIsNumber DEF Passed
      <4>3. \A q \in Passed : echo[q] >= RangeMin
        <5>1. \A q \in Passed' : q < ray => echo[q] >= RangeMin
          BY <2>2, <3>2 DEF FirstValid
        <5> QED BY <2>1, <4>2, <5>1
      <4>4. ~below
        BY <2>2, <4>2, <4>3 DEF LoopInv
      <4> QED BY <2>2, <4>1, <4>4 DEF LoopInv
    <3> QED BY <2>1, <2>2, <3>1, <3>2 DEF LoopInv
  <2>5. below' <=> \E r \in Passed' : echo'[r] < RangeMin
    BY <2>1, <2>2, <2>3 DEF LoopInv
  <2>6. \A r \in Passed' : nearest' <= Clamp(echo'[r], RangeMin, RangeMax)
    BY <2>1, <2>2, <2>3 DEF LoopInv
  <2>7. nearest' < RangeMax => \E r \in Passed' : nearest' = Clamp(echo'[r], RangeMin, RangeMax)
    BY <2>1, <2>2 DEF LoopInv
  <2> QED BY <2>2, <2>4, <2>5, <2>6, <2>7 DEF LoopInv
<1>7. CASE Report
  BY <1>7 DEF Report, scan, LoopInv, Passed, FirstValid
<1>8. CASE Return
  BY <1>8 DEF Return, LoopInv
<1>9. CASE UNCHANGED vars
  BY <1>9 DEF vars, scan, LoopInv, Passed, FirstValid
<1> QED BY <1>1, <1>2, <1>3, <1>4, <1>5, <1>6, <1>7, <1>8, <1>9 DEF Next

\* A report shows what the loop found.
LEMMA ReportStep ==
  ASSUME TypeOK, LoopInv, ReportInv, [Next]_vars
  PROVE  ReportInv'
<1> USE UltrasonicAssumption DEF TypeOK
<1>1. CASE Report
  BY <1>1 DEF Report, scan, ReportInv, LoopInv
<1>2. CASE UNCHANGED vars
  BY <1>2 DEF vars, scan, output, ReportInv
<1>3. CASE Invalid \/ Begin \/ Misses \/ TooNear \/ Nearer \/ Farther \/ Return
  BY <1>3 DEF Invalid, Begin, Misses, TooNear, Nearer, Farther, NextRay, Return, ReportInv
<1> QED BY <1>1, <1>2, <1>3 DEF Next

\* The invariant of a measurement over any number of rays.
LEMMA Invariance == Spec => []Inv
<1>1. Init => LoopInv /\ ReportInv
  BY DEF Init, LoopInv, ReportInv
<1>2. TypeOK /\ LoopInv /\ ReportInv /\ [Next]_vars => LoopInv' /\ ReportInv'
  BY LoopStep, ReportStep
<1> QED BY <1>1, <1>2, TypeCorrect, PTL DEF Spec, Inv

\* After the last ray the rays passed are all there are.
LEMMA AllCast ==
  ASSUME Inv, pc = "report"
  PROVE  Echoes = {echo[r] : r \in Passed}
BY UltrasonicAssumption DEF Inv, TypeOK, ReportInv, Echoes, Passed

(***************************************************************************)
(* No order of the rays makes Measure report more room than there is.      *)
(***************************************************************************)
THEOREM NoObstacleOverlooked == Spec => []NeverTooFar
<1>1. Inv => NeverTooFar
  BY AllCast DEF Inv, LoopInv, ReportInv, NeverTooFar
<1> QED BY <1>1, Invariance, PTL

(***************************************************************************)
(* A range short of the maximum always has an echo behind it.              *)
(***************************************************************************)
THEOREM NoObstacleInvented == Spec => []RangeHasEcho
<1>1. Inv => RangeHasEcho
  BY AllCast DEF Inv, LoopInv, ReportInv, RangeHasEcho
<1> QED BY <1>1, Invariance, PTL

(***************************************************************************)
(* The status is the one that the order of the echoes gives.               *)
(***************************************************************************)
THEOREM StatusSound == Spec => []StatusHasReason
<1>1. Inv => StatusHasReason
  <2> SUFFICES ASSUME Inv, pc = "report" PROVE StatusHasReason
    BY DEF StatusHasReason
  <2> USE UltrasonicAssumption
  <2> DEFINE Seen == {r \in 1..Rays : echo[r] # NoEcho}
  <2>1. /\ Passed = Seen
        /\ \A r \in Seen : echo[r] \in Nat /\ r \in 1..Rays
        /\ \A r \in Seen : nearest <= Clamp(echo[r], RangeMin, RangeMax)
    BY EchoIsNumber DEF Inv, TypeOK, ReportInv, LoopInv, Passed
  <2>2. /\ status = IF hit THEN "OK" ELSE IF below THEN "BELOW_MIN_RANGE" ELSE "NO_HIT"
        /\ below <=> \E r \in Seen : echo[r] < RangeMin
        /\ hit <=> \E r \in Seen : FirstValid(r)
        /\ ~hit /\ ~below => nearest = RangeMax
    BY <2>1 DEF Inv, LoopInv, ReportInv
  <2>3. /\ \A r \in 1..Rays : Valid(r) <=> r \in Seen /\ echo[r] >= RangeMin /\ echo[r] < RangeMax
        /\ \A r \in 1..Rays : Blind(r) <=> r \in Seen /\ echo[r] < RangeMin
    BY DEF Valid, Blind
  <2>4. hit <=> \E r \in 1..Rays : Valid(r) /\ \A q \in 1..(r - 1) : ~Blind(q)
    <3>1. ASSUME NEW r \in Seen
          PROVE  FirstValid(r) <=> Valid(r) /\ \A q \in 1..(r - 1) : ~Blind(q)
      <4>1. /\ r \in Int /\ r <= Rays
            /\ \A q \in Seen : q < r <=> q \in 1..(r - 1)
            /\ \A q \in 1..(r - 1) : q \in 1..Rays
        OBVIOUS
      <4>2. (\A q \in Seen : q < r => echo[q] >= RangeMin) <=> \A q \in 1..(r - 1) : ~Blind(q)
        BY <2>1, <2>3, <4>1
      <4> HIDE DEF Seen
      <4> QED BY <2>1, <2>3, <3>1, <4>2 DEF FirstValid
    <3> QED BY <2>2, <2>3, <3>1
  <2>5. below <=> \E r \in 1..Rays : Blind(r)
    BY <2>2, <2>3
  <2>6. hit \/ below <=> \E r \in 1..Rays : Valid(r) \/ Blind(r)
    <3>1. ASSUME ~hit, ~below, NEW r \in 1..Rays, Valid(r) PROVE FALSE
      <4>1. r \in Seen /\ Clamp(echo[r], RangeMin, RangeMax) = echo[r]
        BY <2>1, <2>3, <3>1, ClampMeans
      <4> QED BY <2>1, <2>2, <2>3, <3>1, <4>1
    <3> QED BY <2>4, <2>5, <3>1
  <2>7. ~hit /\ below <=> \E r \in 1..Rays : Blind(r) /\ \A q \in 1..(r - 1) : ~Valid(q)
    <3>1. ASSUME ~hit, below
          PROVE  \E r \in 1..Rays : Blind(r) /\ \A q \in 1..(r - 1) : ~Valid(q)
      <4> DEFINE Blinds == {r \in 1..Rays : Blind(r)}
      <4>1. PICK r \in Blinds : \A q \in Blinds : r <= q
        <5>1. Blinds \in SUBSET Nat /\ Blinds # {}
          BY <2>5, <3>1
        <5> HIDE DEF Blinds
        <5> QED BY <5>1, NatHasLeast
      <4>2. \A q \in 1..(r - 1) : q \in 1..Rays /\ ~Blind(q) /\ \A p \in 1..(q - 1) : p \in 1..(r - 1)
        BY <4>1
      <4>3. \A q \in 1..(r - 1) : ~Valid(q)
        BY <2>4, <3>1, <4>2
      <4> QED BY <4>1, <4>3
    <3>2. ASSUME NEW r \in 1..Rays, Blind(r), \A q \in 1..(r - 1) : ~Valid(q)
          PROVE  ~hit /\ below
      <4>1. below
        BY <2>5, <3>2
      <4>2. ASSUME NEW v \in 1..Rays, Valid(v), \A q \in 1..(v - 1) : ~Blind(q) PROVE FALSE
        <5>1. v # r /\ ~(r < v) /\ ~(v < r)
          BY <2>1, <2>3, <3>2, <4>2
        <5> QED BY <5>1
      <4> QED BY <2>4, <4>1, <4>2
    <3> QED BY <3>1, <3>2
  <2>8. /\ status = "OK" <=> hit
        /\ status = "BELOW_MIN_RANGE" <=> ~hit /\ below
        /\ status = "NO_HIT" <=> ~(hit \/ below)
    BY <2>2
  <2> HIDE DEF Seen
  <2> QED BY <2>4, <2>6, <2>7, <2>8, Zenon DEF StatusHasReason
<1> QED BY <1>1, Invariance, PTL

(***************************************************************************)
(* The three together: what a measurement reports is what the rays met.    *)
(***************************************************************************)
THEOREM MeasureIsSound == Spec => []MeasureSound
<1> QED BY NoObstacleOverlooked, NoObstacleInvented, StatusSound, PTL DEF MeasureSound
-----------------------------------------------------------------------------
(***************************************************************************)
(* Proofs about CameraRig for every set of sensors and every model: the    *)
(* shared model is restored between captures, and a stereo pair is         *)
(* complete and of one instant, or empty.                                  *)
(***************************************************************************)
(***************************************************************************)
(* Where a render may have changed the model, the guards hold the model as *)
(* it was loaded; everywhere else the model is that one.                   *)
(***************************************************************************)
GuardInv ==
  /\ phase \in {"idle", "render", "draw", "restore", "encode"}
  /\ phase \in {"draw", "restore"} => saved = FileModel
  /\ phase \in {"idle", "render", "encode"} => mjModel = FileModel

\* A rig that has captured nothing has the model that was loaded.
LEMMA GuardInvInit == CameraInit => GuardInv
BY DEF CameraInit, GuardInv

\* The destructors undo what the guards of a render have written, on every exit.
LEMMA GuardInvNext == GuardInv /\ [CameraNext]_cameraVars => GuardInv'
<1> SUFFICES ASSUME GuardInv, [CameraNext]_cameraVars PROVE GuardInv'
  OBVIOUS
<1> USE DEF GuardInv
<1>1. CASE WorldStep
  BY <1>1 DEF WorldStep
<1>2. ASSUME NEW s \in DOMAIN Rig, Capture(s) PROVE GuardInv'
  BY <1>2 DEF Capture
<1>3. CASE RenderFails
  BY <1>3 DEF RenderFails, AfterRender
<1>4. CASE Override
  BY <1>4 DEF Override
<1>5. CASE Draw
  BY <1>5 DEF Draw
<1>6. CASE Restore
  BY <1>6 DEF Restore, AfterRender
<1>7. CASE Encode
  BY <1>7 DEF Encode
<1>8. CASE UNCHANGED cameraVars
  BY <1>8 DEF cameraVars
<1>. QED
  BY <1>1, <1>2, <1>3, <1>4, <1>5, <1>6, <1>7, <1>8 DEF CameraNext

(***************************************************************************)
(* Between two captures the model is the one that was loaded, whatever has *)
(* been rendered, by whichever sensors, and whichever renders failed.      *)
(***************************************************************************)
THEOREM ModelAlwaysRestored == CameraSpec => []ModelRestored
<1>1. GuardInv => ModelRestored
  BY DEF GuardInv, ModelRestored
<1>. QED
  BY <1>1, GuardInvInit, GuardInvNext, PTL DEF CameraSpec
-----------------------------------------------------------------------------
(***************************************************************************)
(* Rendering goes through the views of a sensor one after the other.       *)
(***************************************************************************)
ProgressInv ==
  /\ phase \in {"render", "draw"} => Len(raws) < Len(Rig[capturing].views)
  /\ phase = "restore" => Len(raws) \in 1..Len(Rig[capturing].views)
  /\ phase = "encode" => Len(raws) = Len(Rig[capturing].views)

\* The raw frames of a capture are of the time it runs at: the world waits.
SameInstant ==
  phase # "idle" =>
    \A i \in 1..Len(raws) : raws[i] # NoFrame => raws[i].time = worldTime

PairInv == CameraTypeOK /\ ProgressInv /\ SameInstant /\ PairTogether

\* A sensor has one or two views, and two exactly for a stereo pair.
LEMMA ViewsOfSensor ==
  ASSUME NEW s \in DOMAIN Rig
  PROVE  /\ Rig[s].views \in Seq(Views)
         /\ Len(Rig[s].views) = IF Rig[s].kind = "stereo" THEN 2 ELSE 1
<1>1. Rig[s].views \in ViewsOf(Rig[s].kind)
  BY CameraAssumption
<1>2. CASE Rig[s].kind = "stereo"
  <2>1. PICK v \in Views, w \in Views : Rig[s].views = <<v, w>>
    BY <1>1, <1>2 DEF ViewsOf
  <2>. QED
    BY <2>1, <1>2
<1>3. CASE Rig[s].kind # "stereo"
  <2>1. PICK v \in Views : Rig[s].views = <<v>>
    BY <1>1, <1>3 DEF ViewsOf
  <2>. QED
    BY <2>1, <1>3
<1>. QED
  BY <1>2, <1>3

\* Sensors that have captured nothing have no half of a pair.
LEMMA PairInvInit ==
  ASSUME CameraInit
  PROVE  PairInv
<1>1. CameraTypeOK
  <2>1. frames = [s \in DOMAIN Rig |-> [p \in Parts(Rig[s].kind) |-> NoFrame]]
    BY DEF CameraInit
  <2>2. \A s \in DOMAIN Rig : frames[s] \in [Parts(Rig[s].kind) -> Pictures \cup {NoFrame}]
    BY <2>1
  <2>3. raws \in Seq(Pictures \cup {NoFrame})
    BY DEF CameraInit
  <2>4. 0 \in 0..MaxTime
    BY CameraAssumption
  <2>. QED
    BY <2>1, <2>2, <2>3, <2>4, CameraAssumption DEF CameraInit, CameraTypeOK
<1>2. ProgressInv /\ SameInstant
  BY DEF CameraInit, ProgressInv, SameInstant
<1>3. PairTogether
  BY DEF CameraInit, PairTogether, Parts
<1>. QED
  BY <1>1, <1>2, <1>3 DEF PairInv

\* What one step adds to the raw frames, and where that leaves the capture.
LEMMA AppendRaw ==
  ASSUME NEW r \in Pictures \cup {NoFrame}, raws \in Seq(Pictures \cup {NoFrame}),
         raws' = Append(raws, r), r # NoFrame => r.time = worldTime,
         \A i \in 1..Len(raws) : raws[i] # NoFrame => raws[i].time = worldTime
  PROVE  /\ raws' \in Seq(Pictures \cup {NoFrame})
         /\ Len(raws') = Len(raws) + 1
         /\ \A i \in 1..Len(raws') : raws'[i] # NoFrame => raws'[i].time = worldTime
<1>1. Len(raws) \in Nat
  OBVIOUS
<1>2. ASSUME NEW i \in 1..Len(raws')
      PROVE  raws'[i] = r \/ (i \in 1..Len(raws) /\ raws'[i] = raws[i])
  BY <1>1
<1>. QED
  BY <1>1, <1>2

\* The two elements of a sequence of two.
LEMMA ElementsOfPair ==
  ASSUME NEW S, NEW q \in Seq(S), Len(q) = 2
  PROVE  q[1] \in S /\ q[2] \in S
<1>1. 1 \in 1..Len(q) /\ 2 \in 1..Len(q)
  OBVIOUS
<1>. QED
  BY <1>1, ElementOfSeq

\* What is made of the two raw frames of a stereo pair is of one time, or empty.
LEMMA PairSound ==
  ASSUME PairInv, phase = "encode", Rig[capturing].kind = "stereo", NEW refused
  PROVE  /\ Pair(refused) \in [Parts("stereo") -> Pictures \cup {NoFrame}]
         /\ \/ Pair(refused).left = NoFrame /\ Pair(refused).right = NoFrame
            \/ /\ NoFrame \notin {Pair(refused).left, Pair(refused).right}
               /\ Pair(refused).left.time = Pair(refused).right.time
<1>1. Len(raws) = 2 /\ raws \in Seq(Pictures \cup {NoFrame})
  BY ViewsOfSensor DEF PairInv, ProgressInv, CameraTypeOK
<1>2. raws[1] \in Pictures \cup {NoFrame} /\ raws[2] \in Pictures \cup {NoFrame}
  BY <1>1, ElementsOfPair
<1>3. \A i \in {1, 2} : raws[i] # NoFrame => raws[i].time = worldTime
  BY <1>1 DEF PairInv, SameInstant
<1>4. CASE ~Complete(Sides(refused))
  BY <1>4 DEF Pair, Parts
<1>5. CASE Complete(Sides(refused))
  <2>1. Pair(refused) = [left |-> raws[1], right |-> raws[2]] /\ NoFrame \notin {raws[1], raws[2]}
    BY <1>5 DEF Pair, Complete, Sides, Image
  <2>. QED
    BY <1>2, <1>3, <2>1 DEF Parts
<1>. QED
  BY <1>4, <1>5

\* No step of a capture puts two instants, or half a pair, into the frames of a sensor.
LEMMA PairInvNext ==
  ASSUME PairInv, [CameraNext]_cameraVars
  PROVE  PairInv'
<1>0. CameraTypeOK /\ ProgressInv /\ SameInstant /\ PairTogether
  BY DEF PairInv
<1>1. Len(raws) \in Nat /\ Len(Rig[capturing].views) \in {1, 2}
  <2>1. capturing \in DOMAIN Rig /\ raws \in Seq(Pictures \cup {NoFrame})
    BY <1>0 DEF CameraTypeOK
  <2>2. Len(Rig[capturing].views) = IF Rig[capturing].kind = "stereo" THEN 2 ELSE 1
    BY <2>1, ViewsOfSensor
  <2>. QED
    BY <2>1, <2>2
<1>2. ASSUME phase \in {"render", "draw"}
      PROVE  View \in Views
  BY <1>0, <1>1, <1>2, ViewsOfSensor DEF View, CameraTypeOK, ProgressInv
<1>3. CASE WorldStep
  <2>1. CameraTypeOK'
    BY <1>0, <1>3, CameraAssumption DEF WorldStep, CameraTypeOK
  <2>. QED
    BY <1>0, <1>3, <2>1 DEF WorldStep, PairInv, ProgressInv, SameInstant, PairTogether
<1>4. ASSUME NEW s \in DOMAIN Rig, Capture(s) PROVE PairInv'
  <2>1. CameraTypeOK'
    BY <1>0, <1>4 DEF Capture, CameraTypeOK
  <2>2. Len(Rig[s].views) \in {1, 2}
    BY ViewsOfSensor
  <2>3. ProgressInv' /\ SameInstant'
    BY <1>4, <2>2, SMTT(20) DEF Capture, ProgressInv, SameInstant
  <2>. QED
    BY <1>0, <1>4, <2>1, <2>3 DEF Capture, PairInv, PairTogether
<1>5. CASE RenderFails
  <2>1. /\ raws' \in Seq(Pictures \cup {NoFrame})
        /\ Len(raws') = Len(raws) + 1
        /\ \A i \in 1..Len(raws') : raws'[i] # NoFrame => raws'[i].time = worldTime
    BY <1>0, <1>5, AppendRaw DEF RenderFails, CameraTypeOK, SameInstant
  <2>2. CameraTypeOK'
    BY <1>0, <1>5, <2>1 DEF RenderFails, AfterRender, CameraTypeOK
  <2>3. ProgressInv' /\ SameInstant'
    BY <1>0, <1>1, <1>5, <2>1 DEF RenderFails, AfterRender, ProgressInv, SameInstant
  <2>. QED
    BY <1>0, <1>5, <2>2, <2>3 DEF RenderFails, PairInv, PairTogether
<1>6. CASE Override
  <2>1. View.camera \in Cameras /\ View.fov \in Fovs /\ View.clip \in Clips
    BY <1>2, <1>6 DEF Override, Views
  <2>2. mjModel' \in Models
    BY <1>0, <1>6, <2>1 DEF Override, CameraTypeOK, Models
  <2>3. CameraTypeOK'
    BY <1>0, <1>6, <2>2 DEF Override, CameraTypeOK
  <2>. QED
    BY <1>0, <1>6, <2>3 DEF Override, PairInv, ProgressInv, SameInstant, PairTogether
<1>7. CASE Draw
  <2> DEFINE r == [time |-> worldTime, fov |-> mjModel.fovy[View.camera], clip |-> mjModel.clip]
  <2>1. View.camera \in Cameras
    BY <1>2, <1>7 DEF Draw, Views
  <2>2. r \in Pictures
    BY <1>0, <2>1 DEF CameraTypeOK, Models, Pictures
  <2>3. raws' = Append(raws, r) /\ r.time = worldTime
    BY <1>7 DEF Draw
  <2> HIDE DEF r
  <2>4. /\ raws' \in Seq(Pictures \cup {NoFrame})
        /\ Len(raws') = Len(raws) + 1
        /\ \A i \in 1..Len(raws') : raws'[i] # NoFrame => raws'[i].time = worldTime
    BY <1>0, <1>7, <2>2, <2>3, AppendRaw DEF Draw, CameraTypeOK, SameInstant
  <2>5. CameraTypeOK'
    BY <1>0, <1>7, <2>4 DEF Draw, CameraTypeOK
  <2>6. ProgressInv' /\ SameInstant'
    BY <1>0, <1>1, <1>7, <2>4 DEF Draw, ProgressInv, SameInstant
  <2>. QED
    BY <1>0, <1>7, <2>5, <2>6 DEF Draw, PairInv, PairTogether
<1>8. CASE Restore
  <2>1. CameraTypeOK'
    BY <1>0, <1>8 DEF Restore, AfterRender, CameraTypeOK
  <2>2. ProgressInv' /\ SameInstant'
    BY <1>0, <1>1, <1>8 DEF Restore, AfterRender, ProgressInv, SameInstant
  <2>. QED
    BY <1>0, <1>8, <2>1, <2>2 DEF Restore, PairInv, PairTogether
<1>9. CASE Encode
  <2>0. PICK refused \in SUBSET Parts(Rig[capturing].kind) :
          frames' = [frames EXCEPT ![capturing] = Encoded(refused)]
    BY <1>9 DEF Encode
  <2>1. Encoded(refused) \in [Parts(Rig[capturing].kind) -> Pictures \cup {NoFrame}]
    <3>1. CASE Rig[capturing].kind = "stereo"
      BY <1>9, <3>1, PairSound DEF Encode, Encoded
    <3>2. CASE Rig[capturing].kind # "stereo"
      <4>1. raws[1] \in Pictures \cup {NoFrame}
        BY <1>0, <1>1, <1>9 DEF Encode, ProgressInv, CameraTypeOK
      <4>2. Encoded(refused) =
              [p \in Parts(Rig[capturing].kind) |->
                 IF p = "depth" THEN Depth(raws[1], refused) ELSE Image(p, raws[1], refused)]
        BY <3>2 DEF Encoded
      <4>3. \A p \in Parts(Rig[capturing].kind) :
              {Depth(raws[1], refused), Image(p, raws[1], refused)} \subseteq Pictures \cup {NoFrame}
        BY <4>1 DEF Depth, Image
      <4>. QED
        BY <4>2, <4>3
    <3>. QED
      BY <3>1, <3>2
  <2>2. /\ capturing \in DOMAIN Rig /\ DOMAIN frames = DOMAIN Rig
        /\ frames' = [frames EXCEPT ![capturing] = Encoded(refused)]
    BY <1>0, <1>9, <2>0 DEF Encode, CameraTypeOK
  <2>3. DOMAIN frames' = DOMAIN Rig
    BY <2>2
  <2>4. \A s \in DOMAIN Rig : frames'[s] = IF s = capturing THEN Encoded(refused) ELSE frames[s]
    BY <2>2
  <2>5. CameraTypeOK'
    BY <1>0, <1>9, <2>1, <2>3, <2>4 DEF Encode, CameraTypeOK
  <2>6. PairTogether'
    <3> SUFFICES ASSUME NEW s \in DOMAIN Rig, Rig[s].kind = "stereo"
        PROVE  \/ frames'[s].left = NoFrame /\ frames'[s].right = NoFrame
               \/ /\ NoFrame \notin {frames'[s].left, frames'[s].right}
                  /\ frames'[s].left.time = frames'[s].right.time
      BY DEF PairTogether
    <3>1. CASE s = capturing
      BY <1>9, <2>4, <3>1, PairSound DEF Encode, Encoded
    <3>2. CASE s # capturing
      BY <1>0, <2>4, <3>2 DEF PairTogether
    <3>. QED
      BY <3>1, <3>2
  <2>7. ProgressInv' /\ SameInstant'
    BY <1>9 DEF Encode, ProgressInv, SameInstant
  <2>. QED
    BY <2>5, <2>6, <2>7 DEF PairInv
<1>10. CASE UNCHANGED cameraVars
  BY <1>0, <1>10 DEF cameraVars, PairInv, CameraTypeOK, ProgressInv, SameInstant, PairTogether
<1>. QED
  BY <1>3, <1>4, <1>5, <1>6, <1>7, <1>8, <1>9, <1>10 DEF CameraNext

(***************************************************************************)
(* Both frames of a stereo pair are of one instant, or both are empty, for *)
(* every set of sensors: whichever of the two renders and encodings fails, *)
(* and whatever the other sensors capture in between.                      *)
(***************************************************************************)
THEOREM PairsStayTogether == CameraSpec => []PairTogether
<1>1. CameraInit => PairInv
  BY PairInvInit
<1>2. PairInv /\ [CameraNext]_cameraVars => PairInv'
  BY PairInvNext
<1>3. PairInv => PairTogether
  BY DEF PairInv
<1>. QED
  BY <1>1, <1>2, <1>3, PTL DEF CameraSpec
-----------------------------------------------------------------------------
(***************************************************************************)
(* After a capture no frame of the sensor holds a picture of an earlier    *)
(* one, for every set of sensors and whichever renders and encodings fail. *)
(***************************************************************************)
THEOREM NoPictureIsOld == CameraSpec => NoOldPicture
<1> DEFINE Fresh ==
      phase = "encode" /\ phase' = "idle" =>
        \A p \in DOMAIN frames'[capturing] :
          frames'[capturing][p] # NoFrame => frames'[capturing][p].time = worldTime
<1>1. CameraInit => PairInv
  BY PairInvInit
<1>2. PairInv /\ [CameraNext]_cameraVars => PairInv'
  BY PairInvNext
<1>3. ASSUME PairInv, [CameraNext]_cameraVars PROVE [Fresh]_cameraVars
  <2> SUFFICES ASSUME phase = "encode", phase' = "idle",
                      NEW p \in DOMAIN frames'[capturing],
                      frames'[capturing][p] # NoFrame
               PROVE  frames'[capturing][p].time = worldTime
    BY DEF Fresh
  <2>1. Encode
    BY <1>3 DEF CameraNext, WorldStep, Capture, RenderFails, Override, Draw, Restore, cameraVars
  <2>2. CameraTypeOK /\ ProgressInv /\ SameInstant
    BY <1>3 DEF PairInv
  <2>3. PICK refused \in SUBSET Parts(Rig[capturing].kind) : frames'[capturing] = Encoded(refused)
    BY <2>1, <2>2 DEF Encode, CameraTypeOK
  <2>4. Len(raws) = IF Rig[capturing].kind = "stereo" THEN 2 ELSE 1
    <3>1. capturing \in DOMAIN Rig /\ Len(raws) = Len(Rig[capturing].views)
      BY <2>1, <2>2 DEF Encode, ProgressInv, CameraTypeOK
    <3> QED BY <3>1, ViewsOfSensor
  <2>5. CASE Rig[capturing].kind = "stereo"
    <3>1. Len(raws) = 2 /\ 1 \in 1..2 /\ 2 \in 1..2
      BY <2>2, <2>5, <2>4
    <3>2. \/ Encoded(refused) = [left |-> NoFrame, right |-> NoFrame]
          \/ Encoded(refused) = [left |-> raws[1], right |-> raws[2]]
      BY <2>5 DEF Encoded, Pair, Complete, Sides, Image
    <3>3. p \in {"left", "right"} /\ Encoded(refused)[p] \in {NoFrame, raws[1], raws[2]}
      BY <2>3, <3>2
    <3> QED BY <2>2, <2>3, <3>1, <3>3 DEF SameInstant
  <2>6. CASE Rig[capturing].kind # "stereo"
    <3>1. Len(raws) = 1 /\ 1 \in 1..1
      BY <2>2, <2>6, <2>4
    <3>2. Encoded(refused) =
            [q \in Parts(Rig[capturing].kind) |->
               IF q = "depth" THEN Depth(raws[1], refused) ELSE Image(q, raws[1], refused)]
      BY <2>6 DEF Encoded
    <3>3. Encoded(refused)[p] \in {NoFrame, raws[1]}
      BY <2>3, <3>2 DEF Depth, Image
    <3> QED BY <2>2, <2>3, <3>1, <3>3 DEF SameInstant
  <2> QED BY <2>5, <2>6
<1> QED
  BY <1>1, <1>2, <1>3, PTL DEF CameraSpec, NoOldPicture
-----------------------------------------------------------------------------
(***************************************************************************)
(* That a codec reads back what it has written, and that a frame is the    *)
(* only one for its record, for texts and numbers of any size.  Which      *)
(* bytes are UTF-8 is left as it is.                                       *)
(***************************************************************************)
\* One text after the other, and a part of them.
Joined(a, b, c) == a \o b \o c
Cut(text, m, n) == SubSeq(text, m, n)

\* Three lengths within the most one may have.
LEMMA ThreeFit ==
  ASSUME NEW s \in Nat, NEW m \in Nat, NEW i \in Nat, NEW j \in Nat, NEW k \in Nat,
         i <= m, j <= m, k <= m
  PROVE  s + (i + j + k) <= s + 3 * m
BY SMT

\* The length of a part of a text, as SubSeq counts it.
LEMMA SpanLength ==
  ASSUME NEW m \in Nat, NEW n \in Nat
  PROVE  (IF m + 1 <= m + n THEN (m + n) - (m + 1) + 1 ELSE 0) = n
BY SMT

\* Three texts that are written one after the other are cut where they were joined.
LEMMA CutWhereJoined ==
  ASSUME NEW a \in Text, NEW b \in Text, NEW c \in Text
  PROVE  /\ Joined(a, b, c) \in Text
         /\ Len(Joined(a, b, c)) = Len(a) + Len(b) + Len(c)
         /\ Cut(Joined(a, b, c), 1, Len(a)) = a
         /\ Cut(Joined(a, b, c), Len(a) + 1, Len(a) + Len(b)) = b
         /\ Cut(Joined(a, b, c), Len(a) + Len(b) + 1, Len(a) + Len(b) + Len(c)) = c
<1> DEFINE all == a \o b \o c
<1>1. /\ Len(a) \in Nat /\ Len(b) \in Nat /\ Len(c) \in Nat
      /\ a \in Seq(Byte) /\ b \in Seq(Byte) /\ c \in Seq(Byte)
  BY LenProperties DEF Text
<1>2. /\ a \o b \in Seq(Byte) /\ Len(a \o b) = Len(a) + Len(b)
      /\ \A i \in 1..Len(a \o b) :
           (a \o b)[i] = IF i <= Len(a) THEN a[i] ELSE b[i - Len(a)]
  BY <1>1, ConcatProperties
<1>3. /\ all \in Seq(Byte) /\ Len(all) = Len(a \o b) + Len(c)
      /\ \A i \in 1..Len(all) :
           all[i] = IF i <= Len(a \o b) THEN (a \o b)[i] ELSE c[i - Len(a \o b)]
  BY <1>1, <1>2, ConcatProperties
<1> HIDE DEF all
<1>4. ASSUME NEW m \in Nat, NEW t \in Seq(Byte), m + Len(t) <= Len(all),
             \A i \in 1..Len(t) : all[m + i] = t[i]
      PROVE  SubSeq(all, m + 1, m + Len(t)) = t
  <2>1. Len(t) \in Nat
    BY LenProperties
  <2>2. \A i \in (m + 1)..(m + Len(t)) : all[i] \in Byte
    BY <1>3, <2>1, <1>4, ElementOfSeq
  <2>3. /\ SubSeq(all, m + 1, m + Len(t)) \in Seq(Byte)
        /\ Len(SubSeq(all, m + 1, m + Len(t))) = Len(t)
        /\ \A i \in 1..Len(t) : SubSeq(all, m + 1, m + Len(t))[i] = all[m + i]
    BY <2>1, <2>2, SubSeqProperties
  <2> QED  BY <1>4, <2>1, <2>3, SeqEqual
<1>5. \A i \in 1..Len(a) : all[0 + i] = a[i]
  BY <1>1, <1>2, <1>3
<1>6. \A i \in 1..Len(b) : all[Len(a) + i] = b[i]
  BY <1>1, <1>2, <1>3
<1>7. \A i \in 1..Len(c) : all[(Len(a) + Len(b)) + i] = c[i]
  BY <1>1, <1>2, <1>3
<1>8. SubSeq(all, 0 + 1, 0 + Len(a)) = a
  BY <1>1, <1>2, <1>3, <1>4, <1>5
<1>9. SubSeq(all, Len(a) + 1, Len(a) + Len(b)) = b
  BY <1>1, <1>2, <1>3, <1>4, <1>6
<1>10. SubSeq(all, Len(a) + Len(b) + 1, Len(a) + Len(b) + Len(c)) = c
  BY <1>1, <1>2, <1>3, <1>4, <1>7
<1> QED
  BY <1>1, <1>2, <1>3, <1>8, <1>9, <1>10 DEF Text, Joined, Cut, all

\* Both codecs cut the frame of a record into that record.
LEMMA RecordOfFrame ==
  ASSUME NEW h \in HealthRecord
  PROVE  /\ Record(Frame(h)) = h
         /\ Frame(h).size = InFrame(Frame(h).body)
         /\ Total(Frame(h).lengths) = InFrame(Frame(h).body)
<1>1. PICK p \in Text, q \in Text, r \in Text :
        p = h.sensor_id /\ q = h.profile_id /\ r = h.calibration_id
  BY DEF HealthRecord
<1>2. /\ Frame(h).lengths[1] = Len(p) /\ Frame(h).lengths[2] = Len(q)
      /\ Frame(h).lengths[3] = Len(r)
      /\ Frame(h).body = Joined(p, q, r)
      /\ Frame(h).size = HeaderSize + Len(p) + Len(q) + Len(r)
  BY <1>1 DEF Frame, Texts, Total, Joined
<1>3. /\ Len(Joined(p, q, r)) = Len(p) + Len(q) + Len(r)
      /\ Cut(Joined(p, q, r), 1, Len(p)) = p
      /\ Cut(Joined(p, q, r), Len(p) + 1, Len(p) + Len(q)) = q
      /\ Cut(Joined(p, q, r), Len(p) + Len(q) + 1, Len(p) + Len(q) + Len(r)) = r
  BY CutWhereJoined
<1>4. /\ Record(Frame(h)).sensor_id = p
      /\ Record(Frame(h)).profile_id = q
      /\ Record(Frame(h)).calibration_id = r
  BY <1>2, <1>3 DEF Record, Cut
<1>5. Record(Frame(h)) = h
  BY <1>1, <1>4 DEF Record, Frame, HealthRecord
<1>6. Len(Frame(h).body) = Len(p) + Len(q) + Len(r)
  BY <1>2, <1>3
<1>7. HeaderSize + Len(p) + Len(q) + Len(r) = HeaderSize + (Len(p) + Len(q) + Len(r))
  <2> DEFINE i == Len(p)
             j == Len(q)
             k == Len(r)
  <2>1. i \in Nat /\ j \in Nat /\ k \in Nat
    BY LenProperties DEF Text
  <2> HIDE DEF i, j, k
  <2>2. HeaderSize + i + j + k = HeaderSize + (i + j + k)
    BY <2>1, WireAssumption
  <2> QED  BY <2>2 DEF i, j, k
<1> QED
  BY <1>2, <1>5, <1>6, <1>7 DEF InFrame, Total

\* It is not too long.
LEMMA FrameFits ==
  ASSUME NEW h \in HealthRecord,
         Len(h.sensor_id) <= MaxText, Len(h.profile_id) <= MaxText,
         Len(h.calibration_id) <= MaxText
  PROVE  InFrame(Frame(h).body) <= HeaderSize + 3 * MaxText
<1>1. Frame(h).body = Joined(h.sensor_id, h.profile_id, h.calibration_id)
  BY DEF Frame, Texts, Joined
<1>2. Len(Frame(h).body) = Len(h.sensor_id) + Len(h.profile_id) + Len(h.calibration_id)
  BY <1>1, CutWhereJoined DEF HealthRecord
<1>3. Len(h.sensor_id) \in Nat /\ Len(h.profile_id) \in Nat /\ Len(h.calibration_id) \in Nat
  BY LenProperties DEF HealthRecord, Text
<1>4. HeaderSize + (Len(h.sensor_id) + Len(h.profile_id) + Len(h.calibration_id))
        <= HeaderSize + 3 * MaxText
  BY <1>3, ThreeFit, WireAssumption
<1> QED  BY <1>2, <1>4 DEF InFrame

\* What C++ publishes it reads back as it was, whatever texts and numbers it
\* accepts.
THEOREM CppReadsItsOwn ==
  ASSUME NEW h \in HealthRecord,
         h.source \in Int64, h.scheduled \in Int64, h.publish \in Int64,
         CppValidate(h)
  PROVE  CppEncode(h) = Frame(h) /\ CppDecode(CppEncode(h)) = h
<1>1. CppEncode(h) = Frame(h)
  BY DEF CppEncode
<1>2. /\ Frame(h).ours
      /\ Frame(h).source < HalfTime /\ Frame(h).scheduled < HalfTime /\ Frame(h).publish < HalfTime
  BY WireAssumption DEF Frame, Int64
<1>3. InFrame(Frame(h).body) <= HeaderSize + 3 * MaxText
  <2>1. Len(h.sensor_id) <= MaxText /\ Len(h.profile_id) <= MaxText /\ Len(h.calibration_id) <= MaxText
    <3>1. \A i \in 1..3 : Len(Texts(h)[i]) <= MaxText
      BY DEF CppValidate, CheckText
    <3> QED  BY <3>1 DEF Texts
  <2> QED  BY <2>1, FrameFits
<1> QED
  BY <1>1, <1>2, <1>3, RecordOfFrame DEF CppDecode

\* What a frame is cut into are texts, wherever its lengths cut it.
LEMMA TextsOfFrame ==
  ASSUME NEW f \in HealthFrame, Total(f.lengths) = InFrame(f.body)
  PROVE  \A i \in 1..3 : Texts(Record(f))[i] \in Text
<1> DEFINE x == f.lengths[1]
           y == f.lengths[2]
           z == f.lengths[3]
           body == f.body
<1>1. x \in Nat /\ y \in Nat /\ z \in Nat /\ body \in Seq(Byte)
  BY DEF HealthFrame, Text
<1>2. HeaderSize + x + y + z = HeaderSize + Len(body)
  BY DEF Total, InFrame
<1>3. /\ Texts(Record(f))[1] = SubSeq(body, 1, x)
      /\ Texts(Record(f))[2] = SubSeq(body, x + 1, x + y)
      /\ Texts(Record(f))[3] = SubSeq(body, x + y + 1, x + y + z)
  BY DEF Texts, Record
<1> HIDE DEF x, y, z, body
<1>4. Len(body) \in Nat /\ x + y + z = Len(body)
  BY <1>1, <1>2, WireAssumption, LenProperties
<1>5. \A i \in 1..Len(body) : body[i] \in Byte
  BY <1>1, ElementOfSeq
<1>6. ASSUME NEW m \in Nat, NEW n \in Nat, n <= Len(body)
      PROVE  SubSeq(body, m + 1, n) \in Seq(Byte)
  <2>1. \A i \in (m + 1)..n : body[i] \in Byte
    BY <1>4, <1>5, <1>6
  <2>2. m + 1 \in Int /\ n \in Int
    OBVIOUS
  <2> QED  BY <2>1, <2>2, SubSeqProperties
<1>7. SubSeq(body, 0 + 1, x) \in Seq(Byte)
  BY <1>1, <1>4, <1>6
<1>8. SubSeq(body, x + 1, x + y) \in Seq(Byte)
  BY <1>1, <1>4, <1>6
<1>9. SubSeq(body, (x + y) + 1, x + y + z) \in Seq(Byte)
  BY <1>1, <1>4, <1>6
<1>10. Texts(Record(f))[1] \in Seq(Byte)
  BY <1>3, <1>7
<1>11. Texts(Record(f))[2] \in Seq(Byte)
  BY <1>3, <1>8
<1>12. Texts(Record(f))[3] \in Seq(Byte)
  BY <1>3, <1>9
<1> QED
  <2>1. \A i \in 1..3 : i = 1 \/ i = 2 \/ i = 3
    OBVIOUS
  <2> QED  BY <2>1, <1>10, <1>11, <1>12, Zenon DEF Text

\* And what Python publishes Python reads back.
THEOREM PythonReadsItsOwn ==
  ASSUME NEW h \in HealthRecord, PyValidate(h), \A i \in 1..3 : WellFormed(Texts(h)[i])
  PROVE  PyEncode(h) = Frame(h) /\ PyDecode(PyEncode(h)) = h
<1>1. PyEncode(h) = Frame(h)
  BY DEF PyEncode
<1>2. Frame(h).ours
  BY DEF Frame
<1>3. InFrame(Frame(h).body) <= HeaderSize + 3 * MaxText
  BY FrameFits DEF PyValidate, Texts
<1>4. [Record(Frame(h)) EXCEPT !.source = Signed(@), !.scheduled = Signed(@),
                               !.publish = Signed(@)] = h
  <2>1. Signed(h.source) = h.source /\ Signed(h.scheduled) = h.scheduled
        /\ Signed(h.publish) = h.publish
    BY DEF PyValidate, Signed
  <2> QED  BY <2>1, RecordOfFrame DEF HealthRecord
<1> QED
  BY <1>1, <1>2, <1>3, <1>4, RecordOfFrame DEF PyDecode

\* Whatever is in the channel, what C++ reads out of it is a record of which this
\* is the only frame: nothing of the frame is left unread.
THEOREM OneFramePerRecord ==
  ASSUME NEW f \in HealthFrame, CppDecode(f) # Refused
  PROVE  Frame(CppDecode(f)) = f
<1>1. /\ CppDecode(f) = Record(f) /\ f.ours /\ f.size = InFrame(f.body)
      /\ Total(f.lengths) = InFrame(f.body)
  BY DEF CppDecode
<1> DEFINE x == f.lengths[1]
           y == f.lengths[2]
           z == f.lengths[3]
           body == f.body
           first == SubSeq(body, 1, x)
           second == SubSeq(body, x + 1, x + y)
           third == SubSeq(body, x + y + 1, x + y + z)
<1>2. /\ x \in Nat /\ y \in Nat /\ z \in Nat /\ f.lengths = <<x, y, z>>
      /\ body \in Seq(Byte)
  BY DEF HealthFrame, Text
<1>3. HeaderSize + x + y + z = HeaderSize + Len(body)
  BY <1>1 DEF Total, InFrame
<1>4. /\ first = SubSeq(f.body, 1, f.lengths[1])
      /\ Record(f).sensor_id = first /\ Record(f).profile_id = second
      /\ Record(f).calibration_id = third
      /\ Record(f).sequence = f.sequence /\ Record(f).source = f.source
      /\ Record(f).scheduled = f.scheduled
      /\ Record(f).publish = f.publish /\ Record(f).status = f.status
  BY DEF Record
<1> HIDE DEF x, y, z, body
<1>5. Len(body) \in Nat /\ x + y + z = Len(body)
  BY <1>2, <1>3, WireAssumption, LenProperties
<1>6. \A i \in 1..Len(body) : body[i] \in Byte
  BY <1>2, ElementOfSeq
<1>7. Len(first) = x /\ Len(second) = y /\ Len(third) = z
  <2>1. Len(first) = IF 1 <= x THEN x - 1 + 1 ELSE 0
    <3>1. \A i \in 1..x : body[i] \in Byte
      BY <1>2, <1>5, <1>6
    <3> QED  BY <3>1, <1>2, SubSeqProperties
  <2>2. Len(second) = IF x + 1 <= x + y THEN (x + y) - (x + 1) + 1 ELSE 0
    <3>1. \A i \in (x + 1)..(x + y) : body[i] \in Byte
      BY <1>2, <1>5, <1>6
    <3>2. x + 1 \in Int /\ x + y \in Int
      BY <1>2
    <3> QED  BY <3>1, <3>2, SubSeqProperties
  <2>3. Len(third) = IF x + y + 1 <= x + y + z THEN (x + y + z) - (x + y + 1) + 1 ELSE 0
    <3>1. \A i \in (x + y + 1)..(x + y + z) : body[i] \in Byte
      BY <1>2, <1>5, <1>6
    <3>2. x + y + 1 \in Int /\ x + y + z \in Int
      BY <1>2
    <3> QED  BY <3>1, <3>2, SubSeqProperties
  <2> HIDE DEF first, second, third
  <2>4. Len(first) = x
    BY <1>2, <2>1
  <2>5. Len(second) = y
    BY <1>2, <2>2, SpanLength
  <2>6. Len(third) = z
    <3>1. x + y \in Nat
      BY <1>2
    <3> QED  BY <1>2, <2>3, <3>1, SpanLength
  <2> QED  BY <2>4, <2>5, <2>6
<1>8. first \o second \o third = body
  <2>1. first \o second = SubSeq(body, 1, x + y)
    <3>1. 1 \in 1..(Len(body) + 1) /\ x \in (1 - 1)..Len(body) /\ x + y \in x..Len(body)
      BY <1>2, <1>5
    <3> QED  BY <1>2, <3>1, ConcatAdjacentSubSeq
  <2>2. SubSeq(body, 1, x + y) \o third = SubSeq(body, 1, x + y + z)
    <3>1. /\ 1 \in 1..(Len(body) + 1) /\ x + y \in (1 - 1)..Len(body)
          /\ x + y + z \in (x + y)..Len(body)
      BY <1>2, <1>5
    <3> QED  BY <1>2, <3>1, ConcatAdjacentSubSeq
  <2>3. SubSeq(body, 1, x + y + z) = body
    BY <1>2, <1>5, SubSeqFull
  <2> QED  BY <2>1, <2>2, <2>3
<1> DEFINE r == Record(f)
<1>9. /\ r.sensor_id = first /\ r.profile_id = second /\ r.calibration_id = third
      /\ r.sequence = f.sequence /\ r.source = f.source /\ r.scheduled = f.scheduled
      /\ r.publish = f.publish /\ r.status = f.status
  BY <1>4
<1> HIDE DEF r, first, second, third
<1>10. /\ Frame(r).lengths = <<x, y, z>> /\ Frame(r).body = body
       /\ Frame(r).size = HeaderSize + x + y + z /\ Frame(r).ours
  BY <1>7, <1>8, <1>9 DEF Frame, Texts, Total
<1>11. Frame(r).lengths = f.lengths /\ Frame(r).body = f.body /\ Frame(r).size = f.size
  BY <1>1, <1>2, <1>3, <1>10 DEF body, InFrame
<1>12. Frame(r) = f
  BY <1>1, <1>9, <1>11 DEF Frame, HealthFrame
<1> QED
  BY <1>1, <1>12 DEF r

(***************************************************************************)
(* Which bytes are UTF-8: both languages find the same characters at every *)
(* place of a text, so that a text is good from there for both or neither. *)
(***************************************************************************)
\* The well-formed characters of m bytes at i, as the standard lists them.
IsCharacter(text, i, m) ==
  /\ i + m <= Len(text) + 1
  /\ \/ m = 1 /\ text[i] \in 0..127
     \/ m = 2 /\ text[i] \in 194..223 /\ text[i + 1] \in 128..191
     \/ /\ m = 3 /\ text[i] \in 224..239 /\ text[i + 1] \in 128..191 /\ text[i + 2] \in 128..191
        /\ text[i] = 224 => text[i + 1] >= 160
        /\ text[i] = 237 => text[i + 1] <= 159
     \/ /\ m = 4 /\ text[i] \in 240..244
        /\ text[i + 1] \in 128..191 /\ text[i + 2] \in 128..191 /\ text[i + 3] \in 128..191
        /\ text[i] = 240 => text[i + 1] >= 144
        /\ text[i] = 244 => text[i + 1] <= 143

\* A text is good from i on if it is from behind the character at i; f says from where it is.
GoodFrom(text, i, f) == i > Len(text) \/ \E m \in 1..4 : IsCharacter(text, i, m) /\ f[i + m]

\* The code point of a character of two, three and four bytes.
LEMMA CodeIs ==
  ASSUME NEW text, NEW i \in Nat, NEW n \in Nat
  PROVE  /\ n = 1 => Code(text, i, n) = 64 * (text[i] % 32) + (text[i + 1] % 64)
         /\ n = 2 => Code(text, i, n) = 64 * (64 * (text[i] % 16) + (text[i + 1] % 64)) + (text[i + 2] % 64)
         /\ n = 3 => Code(text, i, n) =
              64 * (64 * (64 * (text[i] % 8) + (text[i + 1] % 64)) + (text[i + 2] % 64)) + (text[i + 3] % 64)
<1> DEFINE lead == text[i] % 2^(6 - n)
           one == 64 * lead + (text[i + 1] % 64)
           two == 64 * one + (text[i + 2] % 64)
           three == 64 * two + (text[i + 3] % 64)
           body(f, j) == IF j = 0 THEN lead ELSE 64 * f[j - 1] + (text[i + j] % 64)
           code[j \in 0..n] == body(code, j)
           f == [j \in 0..n |-> IF j = 0 THEN lead ELSE IF j = 1 THEN one ELSE IF j = 2 THEN two ELSE three]
<1>1. Code(text, i, n) = code[n]
  BY DEF Code
<1>2. CASE n \in 1..3
  <2>1. f = [j \in 0..n |-> body(f, j)]
    <3>1. \A j \in 0..n : f[j] = body(f, j)
      <4> HIDE DEF lead
      <4>1. \A j \in 0..n : j = 0 \/ j = 1 \/ j = 2 \/ j = 3
        BY <1>2
      <4>2. /\ f[0] = lead
            /\ n >= 1 => f[1] = one
            /\ n >= 2 => f[2] = two
            /\ n >= 3 => f[3] = three
        BY <1>2
      <4> HIDE DEF f
      <4>3. \A j \in 0..n : body(f, j) = IF j = 0 THEN lead ELSE 64 * f[j - 1] + (text[i + j] % 64)
        OBVIOUS
      <4>4. 1 - 1 = 0 /\ 2 - 1 = 1 /\ 3 - 1 = 2
        OBVIOUS
      <4> QED  BY <1>2, <4>1, <4>2, <4>3, <4>4
    <3> HIDE DEF body
    <3> QED  BY <3>1
  <2>2. code = [j \in 0..n |-> body(code, j)]
    <3> HIDE DEF body
    <3> QED  BY <2>1
  <2>3. \A j \in 0..n : code[j] = body(code, j)
    <3> HIDE DEF code, body
    <3> QED  BY <2>2
  <2> HIDE DEF code
  <2>4. code[0] = lead /\ code[1] = one /\ (n >= 2 => code[2] = two) /\ (n >= 3 => code[3] = three)
    <3> HIDE DEF lead
    <3>1. code[0] = lead
      BY <1>2, <2>3
    <3>2. code[1] = one
      BY <1>2, <2>3, <3>1
    <3>3. n >= 2 => code[2] = two
      BY <1>2, <2>3, <3>2
    <3>4. n >= 3 => code[3] = three
      BY <1>2, <2>3, <3>3
    <3> QED  BY <3>1, <3>2, <3>3, <3>4
  <2>5. n = 1 => lead = text[i] % 32
    OBVIOUS
  <2>6. n = 2 => lead = text[i] % 16
    OBVIOUS
  <2>7. n = 3 => lead = text[i] % 8
    OBVIOUS
  <2> HIDE DEF lead
  <2> QED  BY <1>1, <1>2, <2>4, <2>5, <2>6, <2>7
<1> QED
  BY <1>2

\* What remains of the range check on code points, by the bytes they are made
\* of: nothing for two bytes, the overlong forms and the surrogates for three,
\* the overlong forms and what is beyond U+10FFFF for four.
LEMMA AllowedTwo ==
  ASSUME NEW x \in 194..223, NEW y \in 128..191
  PROVE  Allowed(64 * (x % 32) + (y % 64), 1)
<1>1. x % 32 = x - 192 /\ y % 64 = y - 128
  OBVIOUS
<1>2. PICK c \in Int : c = 64 * (x - 192) + (y - 128)
  OBVIOUS
<1>3. c >= 128 /\ c < 2048
  BY <1>2
<1> QED
  BY <1>1, <1>2, <1>3 DEF Allowed

\* Three bytes: neither overlong nor a surrogate.
LEMMA AllowedThree ==
  ASSUME NEW x \in 224..239, NEW y \in 128..191, NEW z \in 128..191
  PROVE  Allowed(64 * (64 * (x % 16) + (y % 64)) + (z % 64), 2) <=>
           (x = 224 => y >= 160) /\ (x = 237 => y <= 159)
<1>1. x % 16 = x - 224 /\ y % 64 = y - 128 /\ z % 64 = z - 128
  OBVIOUS
<1>2. PICK c \in Int : c = 4096 * (x - 224) + 64 * (y - 128) + (z - 128)
  OBVIOUS
<1>3. 64 * (64 * (x - 224) + (y - 128)) + (z - 128) = c
  BY <1>2
<1>4. c < 65536
  BY <1>2
<1>5. c >= 2048 <=> (x = 224 => y >= 160)
  BY <1>2
<1>6. c \notin 55296..57343 <=> (x = 237 => y <= 159)
  BY <1>2
<1> QED
  BY <1>1, <1>3, <1>4, <1>5, <1>6 DEF Allowed

\* Four bytes: neither overlong nor beyond U+10FFFF.
LEMMA AllowedFour ==
  ASSUME NEW x \in 240..244, NEW y \in 128..191, NEW z \in 128..191, NEW w \in 128..191
  PROVE  Allowed(64 * (64 * (64 * (x % 8) + (y % 64)) + (z % 64)) + (w % 64), 3) <=>
           (x = 240 => y >= 144) /\ (x = 244 => y <= 143)
<1>1. x % 8 = x - 240 /\ y % 64 = y - 128 /\ z % 64 = z - 128 /\ w % 64 = w - 128
  OBVIOUS
<1>2. PICK c \in Int : c = 262144 * (x - 240) + 4096 * (y - 128) + 64 * (z - 128) + (w - 128)
  OBVIOUS
<1>3. 64 * (64 * (64 * (x - 240) + (y - 128)) + (z - 128)) + (w - 128) = c
  BY <1>2
<1>4. c >= 65536 <=> (x = 240 => y >= 144)
  BY <1>2
<1>5. c <= 1114111 <=> (x = 244 => y <= 143)
  BY <1>2
<1>6. c \notin 55296..57343 \/ ~(c >= 65536)
  BY SMTT(30)
<1> QED
  BY <1>1, <1>3, <1>4, <1>5, <1>6 DEF Allowed

\* How many bytes follow a lead, as one expression.
LEMMA FollowIs ==
  ASSUME NEW c \in Int
  PROVE  Follow(c) = IF c \in 194..223 THEN 1 ELSE IF c \in 224..239 THEN 2
                     ELSE IF c \in 240..244 THEN 3 ELSE 0
<1>1. c \in 194..223 => c \notin 224..239 /\ c \notin 240..244
  OBVIOUS
<1>2. c \in 224..239 => c \notin 240..244
  OBVIOUS
<1> QED
  BY <1>1, <1>2 DEF Follow

\* A character of m bytes begins with a lead for m bytes.
LEMMA LeadOf ==
  ASSUME NEW text, NEW i, NEW m, IsCharacter(text, i, m)
  PROVE  \/ m = 1 /\ text[i] \in 0..127
         \/ m = 2 /\ text[i] \in 194..223
         \/ m = 3 /\ text[i] \in 224..239
         \/ m = 4 /\ text[i] \in 240..244
  BY DEF IsCharacter

\* A byte below 128 is a character.
LEMMA AsciiIs ==
  ASSUME NEW text, NEW i, i + 1 <= Len(text) + 1, text[i] \in 0..127
  PROVE  IsCharacter(text, i, 1)
  BY DEF IsCharacter

\* What the C++ check accepts at i.
LEMMA CppTakes ==
  ASSUME NEW text \in Text, NEW i \in 1..Len(text), NEW f \in [1..(Len(text) + 1) -> BOOLEAN]
  PROVE  (IF text[i] < 128 THEN f[i + 1]
          ELSE LET n == Follow(text[i])
               IN /\ n # 0 /\ i + n <= Len(text)
                  /\ \A j \in 1..n : text[i + j] \in 128..191
                  /\ Allowed(Code(text, i, n), n)
                  /\ f[i + n + 1]) <=> GoodFrom(text, i, f)
<1>1. Len(text) \in Nat /\ i \in Nat /\ \A k \in 1..Len(text) : text[k] \in Byte
  BY DEF Text
<1>2. PICK x \in 0..255 : x = text[i]
  BY <1>1 DEF Byte
<1>3. CASE x < 128
  <2>1. \A m \in 1..4 : IsCharacter(text, i, m) <=> m = 1
    <3>1. IsCharacter(text, i, 1)
      <4>1. x \in 0..127
        BY <1>3
      <4>2. i + 1 <= Len(text) + 1
        BY <1>1
      <4> QED  BY <1>2, <4>1, <4>2, AsciiIs
    <3>2. ASSUME NEW m \in 1..4, IsCharacter(text, i, m), m # 1 PROVE FALSE
      <4>1. x \in 194..223 \/ x \in 224..239 \/ x \in 240..244
        BY <1>2, <3>2, LeadOf
      <4> QED  BY <1>3, <4>1
    <3> QED  BY <3>1, <3>2
  <2>2. GoodFrom(text, i, f) <=> f[i + 1]
    <3>1. 1 \in 1..4
      OBVIOUS
    <3> QED  BY <1>1, <2>1, <3>1 DEF GoodFrom
  <2> QED  BY <1>2, <1>3, <2>2
<1>4. CASE x >= 128
  <2>1. PICK n \in 0..3 : /\ n = Follow(text[i])
                          /\ n = 0 <=> ~(x \in 194..244)
                          /\ n = 1 <=> x \in 194..223
                          /\ n = 2 <=> x \in 224..239
                          /\ n = 3 <=> x \in 240..244
    <3>1. x \in 128..193 \/ x \in 194..223 \/ x \in 224..239 \/ x \in 240..244 \/ x \in 245..255
      BY <1>4
    <3> DEFINE k == IF x \in 194..223 THEN 1 ELSE IF x \in 224..239 THEN 2 ELSE IF x \in 240..244 THEN 3 ELSE 0
    <3>2. Follow(x) = k
      BY FollowIs
    <3>3. /\ k \in 0..3
          /\ k = 0 <=> ~(x \in 194..244)
          /\ k = 1 <=> x \in 194..223
          /\ k = 2 <=> x \in 224..239
          /\ k = 3 <=> x \in 240..244
      BY <3>1
    <3> HIDE DEF k
    <3>4. Follow(text[i]) = k
      BY <1>2, <3>2
    <3> QED  BY <3>3, <3>4
  <2> DEFINE tail == i + n <= Len(text) /\ \A j \in 1..n : text[i + j] \in 128..191
             accepts == n # 0 /\ tail /\ Allowed(Code(text, i, n), n)
  <2>2. n = 0 => ~accepts /\ \A m \in 1..4 : ~IsCharacter(text, i, m)
    <3> HIDE DEF tail
    <3>1. n = 0 => ~accepts
      OBVIOUS
    <3>2. n = 0 => x < 194 \/ x > 244
      BY <2>1
    <3>3. ASSUME NEW m \in 1..4, IsCharacter(text, i, m) PROVE x \in 0..127 \/ x \in 194..244
      BY <1>2, <3>3 DEF IsCharacter
    <3> QED  BY <1>4, <3>1, <3>2, <3>3
  <2>3. n = 1 => (accepts <=> IsCharacter(text, i, 2))
    <3> SUFFICES ASSUME n = 1 PROVE accepts <=> IsCharacter(text, i, 2)
      OBVIOUS
    <3>1. tail <=> i + 2 <= Len(text) + 1 /\ text[i + 1] \in 128..191
      BY <1>1
    <3>2. ASSUME text[i + 1] \in 128..191 PROVE Allowed(Code(text, i, n), n)
      <4>1. PICK y \in 128..191 : y = text[i + 1]
        BY <3>2
      <4>2. Code(text, i, n) = 64 * (x % 32) + (y % 64)
        BY <1>1, <1>2, <4>1, CodeIs
      <4>3. x \in 194..223
        BY <2>1
      <4> QED  BY <4>2, <4>3, AllowedTwo
    <3> HIDE DEF tail
    <3>3. IsCharacter(text, i, 2) <=> i + 2 <= Len(text) + 1 /\ text[i + 1] \in 128..191
      BY <1>2, <2>1 DEF IsCharacter
    <3> QED  BY <3>1, <3>2, <3>3
  <2>4. n = 2 => (accepts <=> IsCharacter(text, i, 3))
    <3> SUFFICES ASSUME n = 2 PROVE accepts <=> IsCharacter(text, i, 3)
      OBVIOUS
    <3>1. tail <=> /\ i + 3 <= Len(text) + 1
                   /\ text[i + 1] \in 128..191 /\ text[i + 2] \in 128..191
      <4>1. \A j \in 1..n : j = 1 \/ j = 2
        OBVIOUS
      <4> QED  BY <1>1, <4>1
    <3>2. ASSUME text[i + 1] \in 128..191, text[i + 2] \in 128..191
          PROVE  Allowed(Code(text, i, n), n) <=>
                   (x = 224 => text[i + 1] >= 160) /\ (x = 237 => text[i + 1] <= 159)
      <4>1. PICK y \in 128..191 : y = text[i + 1]
        BY <3>2
      <4>2. PICK z \in 128..191 : z = text[i + 2]
        BY <3>2
      <4>3. Code(text, i, 2) = 64 * (64 * (x % 16) + (y % 64)) + (z % 64)
        <5>1. Code(text, i, 2) =
                64 * (64 * (text[i] % 16) + (text[i + 1] % 64)) + (text[i + 2] % 64)
          BY <1>1, CodeIs
        <5> QED  BY <1>2, <4>1, <4>2, <5>1
      <4>4. x \in 224..239
        BY <2>1
      <4>5. Allowed(Code(text, i, 2), 2) <=> (x = 224 => y >= 160) /\ (x = 237 => y <= 159)
        <5>1. Allowed(64 * (64 * (x % 16) + (y % 64)) + (z % 64), 2) <=>
                (x = 224 => y >= 160) /\ (x = 237 => y <= 159)
          BY <4>4, AllowedThree
        <5> QED  BY <4>3, <5>1
      <4> QED  BY <4>1, <4>5
    <3> HIDE DEF tail
    <3>3. IsCharacter(text, i, 3) <=>
            /\ i + 3 <= Len(text) + 1 /\ text[i + 1] \in 128..191 /\ text[i + 2] \in 128..191
            /\ (x = 224 => text[i + 1] >= 160) /\ (x = 237 => text[i + 1] <= 159)
      BY <1>2, <2>1 DEF IsCharacter
    <3> QED  BY <3>1, <3>2, <3>3
  <2>5. n = 3 => (accepts <=> IsCharacter(text, i, 4))
    <3> SUFFICES ASSUME n = 3 PROVE accepts <=> IsCharacter(text, i, 4)
      OBVIOUS
    <3>1. tail <=> /\ i + 4 <= Len(text) + 1
                   /\ text[i + 1] \in 128..191 /\ text[i + 2] \in 128..191 /\ text[i + 3] \in 128..191
      <4>1. \A j \in 1..n : j = 1 \/ j = 2 \/ j = 3
        OBVIOUS
      <4> QED  BY <1>1, <4>1
    <3>2. ASSUME text[i + 1] \in 128..191, text[i + 2] \in 128..191, text[i + 3] \in 128..191
          PROVE  Allowed(Code(text, i, n), n) <=>
                   (x = 240 => text[i + 1] >= 144) /\ (x = 244 => text[i + 1] <= 143)
      <4>1. PICK y \in 128..191 : y = text[i + 1]
        BY <3>2
      <4>2. PICK z \in 128..191 : z = text[i + 2]
        BY <3>2
      <4>3. PICK w \in 128..191 : w = text[i + 3]
        BY <3>2
      <4>4. Code(text, i, 3) = 64 * (64 * (64 * (x % 8) + (y % 64)) + (z % 64)) + (w % 64)
        <5>1. Code(text, i, 3) = 64 * (64 * (64 * (text[i] % 8) + (text[i + 1] % 64))
                                        + (text[i + 2] % 64)) + (text[i + 3] % 64)
          BY <1>1, CodeIs
        <5> QED  BY <1>2, <4>1, <4>2, <4>3, <5>1
      <4>5. x \in 240..244
        BY <2>1
      <4>6. Allowed(Code(text, i, 3), 3) <=> (x = 240 => y >= 144) /\ (x = 244 => y <= 143)
        <5>1. Allowed(64 * (64 * (64 * (x % 8) + (y % 64)) + (z % 64)) + (w % 64), 3) <=>
                (x = 240 => y >= 144) /\ (x = 244 => y <= 143)
          BY <4>5, AllowedFour, ZenonT(40)
        <5> QED  BY <4>4, <5>1
      <4> QED  BY <4>1, <4>6
    <3> HIDE DEF tail
    <3>3. IsCharacter(text, i, 4) <=>
            /\ i + 4 <= Len(text) + 1
            /\ text[i + 1] \in 128..191 /\ text[i + 2] \in 128..191 /\ text[i + 3] \in 128..191
            /\ (x = 240 => text[i + 1] >= 144) /\ (x = 244 => text[i + 1] <= 143)
      BY <1>2, <2>1 DEF IsCharacter
    <3> QED  BY <3>1, <3>2, <3>3
  <2>6. \A m \in 1..4 : IsCharacter(text, i, m) => m = n + 1
    <3> SUFFICES ASSUME NEW m \in 1..4, IsCharacter(text, i, m) PROVE m = n + 1
      OBVIOUS
    <3>0. IsCharacter(text, i, m)
      OBVIOUS
    <3>1. \/ m = 2 /\ x \in 194..223
          \/ m = 3 /\ x \in 224..239
          \/ m = 4 /\ x \in 240..244
      <4>1. ~(x \in 0..127)
        BY <1>4
      <4>2. \/ m = 1 /\ text[i] \in 0..127
            \/ m = 2 /\ text[i] \in 194..223
            \/ m = 3 /\ text[i] \in 224..239
            \/ m = 4 /\ text[i] \in 240..244
        BY <3>0, LeadOf
      <4> QED  BY <1>2, <4>1, <4>2
    <3> QED  BY <2>1, <3>1
  <2>7. accepts => n # 0
    OBVIOUS
  <2>8. (IF text[i] < 128 THEN f[i + 1]
         ELSE LET k == Follow(text[i])
              IN /\ k # 0 /\ i + k <= Len(text)
                 /\ \A j \in 1..k : text[i + j] \in 128..191
                 /\ Allowed(Code(text, i, k), k)
                 /\ f[i + k + 1]) <=> (accepts /\ f[i + n + 1])
    <3>1. ~(text[i] < 128) /\ Follow(text[i]) = n
      BY <1>2, <1>4, <2>1
    <3> QED  BY <3>1
  <2> HIDE DEF accepts
  <2>9. (accepts /\ f[i + n + 1]) <=> (\E m \in 1..4 : IsCharacter(text, i, m) /\ f[i + m])
    <3>1. i + n + 1 = i + (n + 1)
      OBVIOUS
    <3>2. n # 0 => n + 1 \in 1..4 /\ (accepts <=> IsCharacter(text, i, n + 1))
      BY <2>3, <2>4, <2>5
    <3>3. CASE n = 0
      BY <2>2, <3>3
    <3>4. CASE n # 0
      <4>1. PICK mm : mm = n + 1
        OBVIOUS
      <4> QED  BY <2>6, <3>1, <3>2, <3>4, <4>1
    <3> QED  BY <3>3, <3>4
  <2>10. ~(i > Len(text))
    BY <1>1
  <2> QED  BY <2>8, <2>9, <2>10 DEF GoodFrom
<1> QED
  BY <1>2, <1>3, <1>4
\* The bytes at i are of the sets in c, one after the other.
Stretch(text, i, c) ==
  /\ i + Len(c) <= Len(text) + 1
  /\ \A k \in DOMAIN c : text[i + k - 1] \in c[k]

\* The same for rows of one to four sets, byte by byte.
LEMMA StretchOfOne ==
  ASSUME NEW text, NEW i \in Nat, NEW A
  PROVE  Stretch(text, i, <<A>>) <=>
           /\ i + 1 <= Len(text) + 1
           /\ text[i] \in A
<1>1. i + 1 - 1 = i
  OBVIOUS
<1>2. DOMAIN <<A>> = {1} /\ Len(<<A>>) = 1
  OBVIOUS
<1>3. <<A>>[1] = A
  OBVIOUS
<1> QED
  BY <1>1, <1>2, <1>3 DEF Stretch

\* Rows of two.
LEMMA StretchOfTwo ==
  ASSUME NEW text, NEW i \in Nat, NEW A, NEW B
  PROVE  Stretch(text, i, <<A, B>>) <=>
           /\ i + 2 <= Len(text) + 1
           /\ text[i] \in A /\ text[i + 1] \in B
<1>1. i + 1 - 1 = i /\ i + 2 - 1 = i + 1
  OBVIOUS
<1>2. DOMAIN <<A, B>> = {1, 2} /\ Len(<<A, B>>) = 2
  OBVIOUS
<1>3. <<A, B>>[1] = A /\ <<A, B>>[2] = B
  OBVIOUS
<1> QED
  BY <1>1, <1>2, <1>3 DEF Stretch

\* Rows of three.
LEMMA StretchOfThree ==
  ASSUME NEW text, NEW i \in Nat, NEW A, NEW B, NEW C
  PROVE  Stretch(text, i, <<A, B, C>>) <=>
           /\ i + 3 <= Len(text) + 1
           /\ text[i] \in A /\ text[i + 1] \in B /\ text[i + 2] \in C
<1>1. i + 1 - 1 = i /\ i + 2 - 1 = i + 1 /\ i + 3 - 1 = i + 2
  OBVIOUS
<1>2. DOMAIN <<A, B, C>> = {1, 2, 3} /\ Len(<<A, B, C>>) = 3
  OBVIOUS
<1>3. <<A, B, C>>[1] = A /\ <<A, B, C>>[2] = B /\ <<A, B, C>>[3] = C
  OBVIOUS
<1> QED
  BY <1>1, <1>2, <1>3 DEF Stretch

\* Rows of four.
LEMMA StretchOfFour ==
  ASSUME NEW text, NEW i \in Nat, NEW A, NEW B, NEW C, NEW D
  PROVE  Stretch(text, i, <<A, B, C, D>>) <=>
           /\ i + 4 <= Len(text) + 1
           /\ text[i] \in A /\ text[i + 1] \in B /\ text[i + 2] \in C /\ text[i + 3] \in D
<1>1. i + 1 - 1 = i /\ i + 2 - 1 = i + 1 /\ i + 3 - 1 = i + 2 /\ i + 4 - 1 = i + 3
  OBVIOUS
<1>2. DOMAIN <<A, B, C, D>> = {1, 2, 3, 4} /\ Len(<<A, B, C, D>>) = 4
  OBVIOUS
<1>3. <<A, B, C, D>>[1] = A /\ <<A, B, C, D>>[2] = B /\ <<A, B, C, D>>[3] = C /\ <<A, B, C, D>>[4] = D
  OBVIOUS
<1> QED
  BY <1>1, <1>2, <1>3 DEF Stretch

\* How long the rows are.
LEMMA Lengths ==
  /\ \A A : Len(<<A>>) = 1
  /\ \A A, B : Len(<<A, B>>) = 2
  /\ \A A, B, C : Len(<<A, B, C>>) = 3
  /\ \A A, B, C, D : Len(<<A, B, C, D>>) = 4
  OBVIOUS

\* A character of m bytes is a stretch of one of the rows of the standard's table.
LEMMA CharacterIsStretch ==
  ASSUME NEW text, NEW i \in Nat
  PROVE  \A m \in 1..4 : IsCharacter(text, i, m) <=>
           \E c \in Characters : Len(c) = m /\ Stretch(text, i, c)
<1>1. IsCharacter(text, i, 1) <=>
       Stretch(text, i, <<0..127>>)
  <2>1. Stretch(text, i, <<0..127>>) <=>
         /\ i + 1 <= Len(text) + 1
         /\ text[i] \in 0..127
    BY StretchOfOne
  <2> QED  BY <2>1 DEF IsCharacter, Rest
<1>2. IsCharacter(text, i, 2) <=>
       Stretch(text, i, <<194..223, Rest>>)
  <2>1. Stretch(text, i, <<194..223, Rest>>) <=>
         /\ i + 2 <= Len(text) + 1
         /\ text[i] \in 194..223 /\ text[i + 1] \in Rest
    BY StretchOfTwo
  <2> QED  BY <2>1 DEF IsCharacter, Rest
<1>3. IsCharacter(text, i, 3) <=>
       \/ Stretch(text, i, <<{224}, 160..191, Rest>>)
       \/ Stretch(text, i, <<225..236, Rest, Rest>>)
       \/ Stretch(text, i, <<{237}, 128..159, Rest>>)
       \/ Stretch(text, i, <<238..239, Rest, Rest>>)
  <2>0. ASSUME NEW A, NEW B
        PROVE  Stretch(text, i, <<A, B, Rest>>) <=>
                 /\ i + 3 <= Len(text) + 1
                 /\ text[i] \in A /\ text[i + 1] \in B /\ text[i + 2] \in Rest
    BY StretchOfThree
  <2>1. Stretch(text, i, <<{224}, 160..191, Rest>>) <=>
         /\ i + 3 <= Len(text) + 1
         /\ text[i] \in {224} /\ text[i + 1] \in 160..191 /\ text[i + 2] \in Rest
    BY <2>0, Zenon
  <2>2. Stretch(text, i, <<225..236, Rest, Rest>>) <=>
         /\ i + 3 <= Len(text) + 1
         /\ text[i] \in 225..236 /\ text[i + 1] \in Rest /\ text[i + 2] \in Rest
    BY <2>0, Zenon
  <2>3. Stretch(text, i, <<{237}, 128..159, Rest>>) <=>
         /\ i + 3 <= Len(text) + 1
         /\ text[i] \in {237} /\ text[i + 1] \in 128..159 /\ text[i + 2] \in Rest
    BY <2>0, Zenon
  <2>4. Stretch(text, i, <<238..239, Rest, Rest>>) <=>
         /\ i + 3 <= Len(text) + 1
         /\ text[i] \in 238..239 /\ text[i + 1] \in Rest /\ text[i + 2] \in Rest
    BY <2>0, Zenon
  <2>5. IsCharacter(text, i, 3) <=>
         /\ i + 3 <= Len(text) + 1 /\ text[i + 2] \in Rest
         /\ text[i] \in 224..239 /\ text[i + 1] \in Rest
         /\ text[i] = 224 => text[i + 1] >= 160
         /\ text[i] = 237 => text[i + 1] <= 159
    BY DEF IsCharacter, Rest
  <2>6. (/\ text[i] \in 224..239 /\ text[i + 1] \in Rest
         /\ text[i] = 224 => text[i + 1] >= 160
         /\ text[i] = 237 => text[i + 1] <= 159) <=>
       \/ text[i] \in {224} /\ text[i + 1] \in 160..191
       \/ text[i] \in 225..236 /\ text[i + 1] \in Rest
       \/ text[i] \in {237} /\ text[i + 1] \in 128..159
       \/ text[i] \in 238..239 /\ text[i + 1] \in Rest
    BY DEF Rest
  <2> QED  BY <2>1, <2>2, <2>3, <2>4, <2>5, <2>6
<1>4. IsCharacter(text, i, 4) <=>
       \/ Stretch(text, i, <<{240}, 144..191, Rest, Rest>>)
       \/ Stretch(text, i, <<241..243, Rest, Rest, Rest>>)
       \/ Stretch(text, i, <<{244}, 128..143, Rest, Rest>>)
  <2>1. Stretch(text, i, <<{240}, 144..191, Rest, Rest>>) <=>
         /\ i + 4 <= Len(text) + 1
         /\ text[i] \in {240} /\ text[i + 1] \in 144..191 /\ text[i + 2] \in Rest /\ text[i + 3] \in Rest
    <3>1. ASSUME NEW A, NEW B
          PROVE  Stretch(text, i, <<A, B, Rest, Rest>>) <=>
                   /\ i + 4 <= Len(text) + 1
                   /\ text[i] \in A /\ text[i + 1] \in B /\ text[i + 2] \in Rest /\ text[i + 3] \in Rest
      BY StretchOfFour
    <3> QED  BY <3>1, Zenon
  <2>2. Stretch(text, i, <<241..243, Rest, Rest, Rest>>) <=>
         /\ i + 4 <= Len(text) + 1
         /\ text[i] \in 241..243 /\ text[i + 1] \in Rest /\ text[i + 2] \in Rest /\ text[i + 3] \in Rest
    BY StretchOfFour
  <2>3. Stretch(text, i, <<{244}, 128..143, Rest, Rest>>) <=>
         /\ i + 4 <= Len(text) + 1
         /\ text[i] \in {244} /\ text[i + 1] \in 128..143 /\ text[i + 2] \in Rest /\ text[i + 3] \in Rest
    <3>1. ASSUME NEW A, NEW B
          PROVE  Stretch(text, i, <<A, B, Rest, Rest>>) <=>
                   /\ i + 4 <= Len(text) + 1
                   /\ text[i] \in A /\ text[i + 1] \in B /\ text[i + 2] \in Rest /\ text[i + 3] \in Rest
      BY StretchOfFour
    <3> QED  BY <3>1, Zenon
  <2>4. IsCharacter(text, i, 4) <=>
         /\ i + 4 <= Len(text) + 1 /\ text[i + 2] \in Rest /\ text[i + 3] \in Rest
         /\ text[i] \in 240..244 /\ text[i + 1] \in Rest
         /\ text[i] = 240 => text[i + 1] >= 144
         /\ text[i] = 244 => text[i + 1] <= 143
    BY DEF IsCharacter, Rest
  <2>5. (/\ text[i] \in 240..244 /\ text[i + 1] \in Rest
         /\ text[i] = 240 => text[i + 1] >= 144
         /\ text[i] = 244 => text[i + 1] <= 143) <=>
       \/ text[i] \in {240} /\ text[i + 1] \in 144..191
       \/ text[i] \in 241..243 /\ text[i + 1] \in Rest
       \/ text[i] \in {244} /\ text[i + 1] \in 128..143
    BY DEF Rest
  <2> QED  BY <2>1, <2>2, <2>3, <2>4, <2>5
<1> DEFINE Of(m) == \E c \in Characters : Len(c) = m /\ Stretch(text, i, c)
<1>5. Of(1) <=>
       Stretch(text, i, <<0..127>>)
  BY Lengths DEF Characters
<1>6. Of(2) <=>
       Stretch(text, i, <<194..223, Rest>>)
  BY Lengths DEF Characters
<1>7. Of(3) <=>
       \/ Stretch(text, i, <<{224}, 160..191, Rest>>)
       \/ Stretch(text, i, <<225..236, Rest, Rest>>)
       \/ Stretch(text, i, <<{237}, 128..159, Rest>>)
       \/ Stretch(text, i, <<238..239, Rest, Rest>>)
  BY Lengths DEF Characters
<1>8. Of(4) <=>
       \/ Stretch(text, i, <<{240}, 144..191, Rest, Rest>>)
       \/ Stretch(text, i, <<241..243, Rest, Rest, Rest>>)
       \/ Stretch(text, i, <<{244}, 128..143, Rest, Rest>>)
  BY Lengths DEF Characters
<1> HIDE DEF Of
<1>9. ASSUME NEW m \in 1..4 PROVE IsCharacter(text, i, m) <=> Of(m)
  BY <1>1, <1>2, <1>3, <1>4, <1>5, <1>6, <1>7, <1>8
<1> QED
  BY <1>9 DEF Of

\* What Python accepts at i.
LEMMA PyTakes ==
  ASSUME NEW text \in Text, NEW i \in 1..Len(text), NEW f \in [1..(Len(text) + 1) -> BOOLEAN]
  PROVE  (\E c \in Characters :
            /\ i + Len(c) <= Len(text) + 1
            /\ \A k \in DOMAIN c : text[i + k - 1] \in c[k]
            /\ f[i + Len(c)]) <=> GoodFrom(text, i, f)
<1>1. Len(text) \in Nat /\ i \in Nat /\ ~(i > Len(text))
  BY DEF Text
<1>2. \A c \in Characters : Len(c) \in 1..4
  BY DEF Characters
<1>3. (\E c \in Characters : Stretch(text, i, c) /\ f[i + Len(c)]) <=> GoodFrom(text, i, f)
  BY <1>1, <1>2, CharacterIsStretch DEF GoodFrom
<1> QED
  BY <1>3 DEF Stretch

\* Where a text is good from is a function of the place.
LEMMA GoodExists ==
  ASSUME NEW text \in Text
  PROVE  \E f \in [1..(Len(text) + 1) -> BOOLEAN] :
           \A i \in 1..(Len(text) + 1) : f[i] <=> GoodFrom(text, i, f)
<1> DEFINE S == 1..(Len(text) + 1)
           N == Len(text) + 1
           rank == [i \in S |-> N - i]
           step == [i \in S |-> [f \in [S -> BOOLEAN] |-> GoodFrom(text, i, f)]]
<1>1. Len(text) \in Nat
  BY DEF Text
<1>2. \A i, f : GoodFrom(text, i, f) \in BOOLEAN
  BY DEF GoodFrom
<1>3. Recursive(S, BOOLEAN, N, rank, step)
  <2>1. N \in Nat /\ rank \in [S -> 0..N]
    BY <1>1
  <2>2. step \in [S -> [[S -> BOOLEAN] -> BOOLEAN]]
    <3> HIDE DEF S
    <3> QED  BY <1>2
  <2>3. [S -> BOOLEAN] # {}
    <3>1. [i \in S |-> TRUE] \in [S -> BOOLEAN]
      OBVIOUS
    <3> QED  BY <3>1
  <2>4. ASSUME NEW i \in S, NEW f \in [S -> BOOLEAN], NEW g \in [S -> BOOLEAN],
               \A j \in S : rank[j] < rank[i] => f[j] = g[j]
        PROVE  step[i][f] = step[i][g]
    <3>1. \A j \in S : j > i => f[j] = g[j]
      BY <1>1, <2>4
    <3>2. \A m \in 1..4 : IsCharacter(text, i, m) => i + m \in S /\ i + m > i
      BY <1>1 DEF IsCharacter
    <3>3. GoodFrom(text, i, f) <=> GoodFrom(text, i, g)
      <4> HIDE DEF S
      <4> QED  BY <3>1, <3>2 DEF GoodFrom
    <3> HIDE DEF S
    <3> QED  BY <1>2, <3>3
  <2> HIDE DEF S, N, rank, step
  <2> QED  BY <2>1, <2>2, <2>3, <2>4, Zenon DEF Recursive
<1>4. PICK f \in [S -> BOOLEAN] : \A i \in S : f[i] = step[i][f]
  <2> HIDE DEF S, N, rank, step
  <2> QED  BY <1>3, RecursionDefines
<1>5. \A i \in S : f[i] <=> GoodFrom(text, i, f)
  <2> HIDE DEF S
  <2> QED  BY <1>2, <1>4
<1> QED
  BY <1>5

\* Functions that agree at a place when they agree behind it agree.
AgreesBehind(n, f, good) ==
  \A i \in 1..(n + 1) : (\A j \in 1..(n + 1) : j > i => good[j] = f[j]) => good[i] = f[i]

Agrees(n, f, good) == \A i \in 1..(n + 1) : good[i] = f[i]

LEMMA SameFromBehind ==
  ASSUME NEW n \in Nat, NEW f, NEW good, AgreesBehind(n, f, good)
  PROVE  Agrees(n, f, good)
<1> USE DEF AgreesBehind, Agrees
<1> DEFINE Bad == {k \in Nat : n + 1 - k \in 1..(n + 1) /\ good[n + 1 - k] # f[n + 1 - k]}
<1> SUFFICES ASSUME NEW i \in 1..(n + 1), good[i] # f[i] PROVE FALSE
  OBVIOUS
<1>1. n + 1 - i \in Bad
  <2>1. n + 1 - i \in Nat /\ n + 1 - (n + 1 - i) = i
    OBVIOUS
  <2> QED  BY <2>1
<1>2. PICK k \in Bad : \A m \in Bad : k <= m
  <2>1. Bad \in SUBSET Nat /\ Bad # {}
    BY <1>1
  <2> HIDE DEF Bad
  <2> QED  BY <2>1, NatHasLeast
<1>3. PICK c \in 1..(n + 1) : c = n + 1 - k /\ good[c] # f[c]
  BY <1>2
<1>4. ASSUME NEW j \in 1..(n + 1), j > c PROVE good[j] = f[j]
  <2>1. n + 1 - j \in Nat /\ n + 1 - (n + 1 - j) = j /\ n + 1 - j < k
    BY <1>2, <1>3, <1>4
  <2>2. n + 1 - j \notin Bad
    <3>1. k \in Nat
      BY <1>2
    <3> HIDE DEF Bad
    <3> QED  BY <1>2, <2>1, <3>1
  <2> QED  BY <2>1, <2>2
<1> QED
  BY <1>3, <1>4

\* The function CheckText recurs on is that one.
LEMMA CppGood ==
  ASSUME NEW text \in Text, NEW f \in [1..(Len(text) + 1) -> BOOLEAN],
         \A i \in 1..(Len(text) + 1) : f[i] <=> GoodFrom(text, i, f)
  PROVE  CheckText(text) <=>
           Len(text) <= MaxText /\ (\A i \in DOMAIN text : text[i] # 0) /\ f[1]
<1> DEFINE S == 1..(Len(text) + 1)
           body(g, i) ==
             IF i > Len(text) THEN TRUE
             ELSE IF text[i] < 128 THEN g[i + 1]
             ELSE LET n == Follow(text[i])
                  IN /\ n # 0 /\ i + n <= Len(text)
                     /\ \A j \in 1..n : text[i + j] \in 128..191
                     /\ Allowed(Code(text, i, n), n)
                     /\ g[i + n + 1]
           good[i \in S] == body(good, i)
<1>0. Len(text) \in Nat /\ 1 \in S /\ \A i \in S : i \in Nat /\ (~(i > Len(text)) => i \in 1..Len(text))
  BY DEF Text
<1>1. CheckText(text) <=>
        Len(text) <= MaxText /\ (\A i \in DOMAIN text : text[i] # 0) /\ good[1]
  BY DEF CheckText
<1>2. ASSUME NEW i \in S PROVE f[i] = body(f, i)
  <2>1. f[i] \in BOOLEAN
    OBVIOUS
  <2>2. CASE i > Len(text)
    <3>1. f[i]
      BY <2>2 DEF GoodFrom
    <3> QED  BY <2>1, <2>2, <3>1
  <2>3. CASE ~(i > Len(text))
    <3>1. body(f, i) = (IF text[i] < 128 THEN f[i + 1]
             ELSE LET n == Follow(text[i])
                  IN /\ n # 0 /\ i + n <= Len(text)
                     /\ \A j \in 1..n : text[i + j] \in 128..191
                     /\ Allowed(Code(text, i, n), n)
                     /\ f[i + n + 1])
      BY <2>3
    <3>2. body(f, i) \in BOOLEAN
      <4>1. f[i + 1] \in BOOLEAN
        BY <1>0, <2>3
      <4>2. CASE text[i] < 128
        BY <2>3, <4>1, <4>2
      <4>3. CASE ~(text[i] < 128)
        BY <2>3, <4>3
      <4> QED  BY <4>2, <4>3
    <3>3. body(f, i) <=> GoodFrom(text, i, f)
      <4> HIDE DEF body
      <4> QED  BY <1>0, <2>3, <3>1, CppTakes
    <3> HIDE DEF body
    <3> QED  BY <2>1, <3>2, <3>3
  <2> QED  BY <2>2, <2>3
<1>3. good = [i \in S |-> body(good, i)]
  <2>1. f = [i \in S |-> body(f, i)]
    <3> HIDE DEF body
    <3> QED  BY <1>2
  <2> HIDE DEF body
  <2> QED  BY <2>1
<1>4. ASSUME NEW i \in S, \A j \in S : j > i => good[j] = f[j]
      PROVE  good[i] = f[i]
  <2> HIDE DEF good
  <2>1. good[i] = body(good, i)
    <3> HIDE DEF body
    <3> QED  BY <1>3
  <2>2. body(good, i) = body(f, i)
    <3>1. CASE i > Len(text)
      BY <3>1
    <3>2. CASE ~(i > Len(text))
      <4>1. good[i + 1] = f[i + 1]
        BY <1>0, <1>4, <3>2
      <4>2. CASE text[i] < 128
        BY <3>2, <4>1, <4>2
      <4>3. CASE ~(text[i] < 128)
        <5> DEFINE n == Follow(text[i])
        <5>1. n \in 0..3
          BY DEF Follow
        <5>2. i + n <= Len(text) => good[i + n + 1] = f[i + n + 1]
          <6> HIDE DEF n
          <6>1. i + n <= Len(text) => i + n + 1 \in S /\ i + n + 1 > i
            BY <1>0, <5>1
          <6> QED  BY <1>4, <6>1
        <5> HIDE DEF n
        <5>3. body(good, i) <=> body(f, i)
          BY <3>2, <4>3, <5>2 DEF n
        <5>4. body(good, i) \in BOOLEAN /\ body(f, i) \in BOOLEAN
          BY <3>2, <4>3
        <5> HIDE DEF body
        <5> QED  BY <5>3, <5>4
      <4> QED  BY <4>2, <4>3
    <3> QED  BY <3>1, <3>2
  <2> HIDE DEF body
  <2> QED  BY <1>2, <2>1, <2>2
<1> HIDE DEF good
<1>5. \A i \in S : good[i] = f[i]
  <2>1. AgreesBehind(Len(text), f, good)
    BY <1>4, Zenon DEF AgreesBehind
  <2>2. Agrees(Len(text), f, good)
    <3> HIDE DEF S
    <3> QED  BY <1>0, <2>1, SameFromBehind
  <2> QED  BY <2>2 DEF Agrees
<1> QED
  BY <1>0, <1>1, <1>5

\* The function WellFormed recurs on is that one too.
LEMMA PyGood ==
  ASSUME NEW text \in Text, NEW f \in [1..(Len(text) + 1) -> BOOLEAN],
         \A i \in 1..(Len(text) + 1) : f[i] <=> GoodFrom(text, i, f)
  PROVE  WellFormed(text) <=> f[1]
<1> DEFINE S == 1..(Len(text) + 1)
           body(g, i) ==
             \/ i > Len(text)
             \/ \E c \in Characters :
                  /\ i + Len(c) <= Len(text) + 1
                  /\ \A k \in DOMAIN c : text[i + k - 1] \in c[k]
                  /\ g[i + Len(c)]
           good[i \in S] == body(good, i)
<1>0. Len(text) \in Nat /\ 1 \in S /\ \A i \in S : i \in Nat /\ (~(i > Len(text)) => i \in 1..Len(text))
  BY DEF Text
<1>1. WellFormed(text) <=> good[1]
  BY DEF WellFormed
<1>2. ASSUME NEW i \in S PROVE f[i] = body(f, i)
  <2>1. f[i] \in BOOLEAN /\ body(f, i) \in BOOLEAN
    OBVIOUS
  <2>2. CASE i > Len(text)
    BY <2>1, <2>2 DEF GoodFrom
  <2>3. CASE ~(i > Len(text))
    <3>1. body(f, i) <=> GoodFrom(text, i, f)
      BY <1>0, <2>3, PyTakes
    <3> HIDE DEF body
    <3> QED  BY <2>1, <3>1
  <2> QED  BY <2>2, <2>3
<1>3. good = [i \in S |-> body(good, i)]
  <2>1. f = [i \in S |-> body(f, i)]
    <3> HIDE DEF body
    <3> QED  BY <1>2
  <2> HIDE DEF body
  <2> QED  BY <2>1
<1>4. ASSUME NEW i \in S, \A j \in S : j > i => good[j] = f[j]
      PROVE  good[i] = f[i]
  <2> HIDE DEF good
  <2>1. good[i] = body(good, i)
    <3> HIDE DEF body
    <3> QED  BY <1>3
  <2>2. body(good, i) = body(f, i)
    <3>1. \A c \in Characters : Len(c) \in 1..4
      BY DEF Characters
    <3>2. \A c \in Characters : i + Len(c) <= Len(text) + 1 => good[i + Len(c)] = f[i + Len(c)]
      <4>1. \A c \in Characters : i + Len(c) <= Len(text) + 1 => i + Len(c) \in S /\ i + Len(c) > i
        <5> SUFFICES ASSUME NEW c \in Characters, i + Len(c) <= Len(text) + 1
                     PROVE  i + Len(c) \in S /\ i + Len(c) > i
          OBVIOUS
        <5>1. PICK m \in 1..4 : m = Len(c)
          BY <3>1
        <5> QED  BY <1>0, <5>1
      <4> QED  BY <1>4, <4>1
    <3>3. body(good, i) <=> body(f, i)
      <4> HIDE DEF S
      <4> QED  BY <3>2
    <3>4. body(good, i) \in BOOLEAN /\ body(f, i) \in BOOLEAN
      OBVIOUS
    <3> HIDE DEF body
    <3> QED  BY <3>3, <3>4
  <2> HIDE DEF body
  <2> QED  BY <1>2, <2>1, <2>2
<1> HIDE DEF good
<1>5. \A i \in S : good[i] = f[i]
  <2>1. AgreesBehind(Len(text), f, good)
    BY <1>4, Zenon DEF AgreesBehind
  <2>2. Agrees(Len(text), f, good)
    <3> HIDE DEF S
    <3> QED  BY <1>0, <2>1, SameFromBehind
  <2> QED  BY <2>2 DEF Agrees
<1> QED
  BY <1>0, <1>1, <1>5

\* The two languages take the same bytes for a text.
THEOREM TextsAgree ==
  ASSUME NEW text \in Text
  PROVE  CheckText(text) <=>
           Len(text) <= MaxText /\ (\A i \in DOMAIN text : text[i] # 0) /\ WellFormed(text)
<1>1. PICK f \in [1..(Len(text) + 1) -> BOOLEAN] :
        \A i \in 1..(Len(text) + 1) : f[i] <=> GoodFrom(text, i, f)
  BY GoodExists
<1> QED
  BY <1>1, CppGood, PyGood

\* What a frame is cut into is a record.
LEMMA RecordIsHealth ==
  ASSUME NEW f \in HealthFrame, Total(f.lengths) = InFrame(f.body)
  PROVE  Record(f) \in HealthRecord
<1>1. \A i \in 1..3 : Texts(Record(f))[i] \in Text
  BY TextsOfFrame
<1>2. /\ Record(f).sensor_id \in Text /\ Record(f).profile_id \in Text
      /\ Record(f).calibration_id \in Text
  BY <1>1 DEF Texts
<1>3. /\ f.sequence \in Int /\ f.source \in Int /\ f.scheduled \in Int /\ f.publish \in Int
      /\ f.status \in Int
  BY DEF HealthFrame, Count
<1> QED
  BY <1>2, <1>3 DEF Record, HealthRecord

\* The two languages accept the same records of times and counts that fit.
LEMMA SameValid ==
  ASSUME NEW h \in HealthRecord, h.sequence \in Count, h.source < HalfTime, h.scheduled < HalfTime, h.publish < HalfTime
  PROVE  CppValidate(h) <=> PyValidate(h) /\ \A i \in 1..3 : WellFormed(Texts(h)[i])
<1>1. \A i \in 1..3 : Texts(h)[i] \in Text
  <2>1. Texts(h)[1] \in Text /\ Texts(h)[2] \in Text /\ Texts(h)[3] \in Text
    BY DEF HealthRecord, Texts
  <2>2. \A i \in 1..3 : i = 1 \/ i = 2 \/ i = 3
    OBVIOUS
  <2> QED  BY <2>1, <2>2
<1>2. \A i \in 1..3 : CheckText(Texts(h)[i]) <=>
        /\ Len(Texts(h)[i]) <= MaxText /\ WellFormed(Texts(h)[i])
        /\ \A k \in DOMAIN Texts(h)[i] : Texts(h)[i][k] # 0
  BY <1>1, TextsAgree
<1>3. h.source \in Int /\ h.scheduled \in Int /\ h.publish \in Int
  BY DEF HealthRecord
<1>4. h.source <= h.scheduled /\ h.source <= h.publish =>
        (0 <= h.source <=> \A t \in {h.source, h.scheduled, h.publish} : 0 <= t /\ t < HalfTime)
  BY <1>3, WireAssumption
<1> QED
  BY <1>2, <1>4 DEF CppValidate, PyValidate

\* Of one frame the two languages read the same record or both none, whatever
\* bytes, times, lengths and flags it carries.
THEOREM SameRecords ==
  ASSUME NEW f \in HealthFrame,
         f.source < 2 * HalfTime, f.scheduled < 2 * HalfTime, f.publish < 2 * HalfTime
  PROVE  CppDecode(f) = PyDecode(f)
<1> DEFINE c == Record(f)
           p == [c EXCEPT !.source = Signed(@), !.scheduled = Signed(@), !.publish = Signed(@)]
           early == f.source < HalfTime /\ f.scheduled < HalfTime /\ f.publish < HalfTime
<1>1. /\ c.source = f.source /\ c.scheduled = f.scheduled /\ c.publish = f.publish
      /\ c.status = f.status /\ c.sequence = f.sequence
  BY DEF Record
<1>2. /\ p.source = Signed(f.source) /\ p.scheduled = Signed(f.scheduled)
      /\ p.publish = Signed(f.publish) /\ p.status = f.status
      /\ p.sensor_id = c.sensor_id /\ Texts(p) = Texts(c)
  BY DEF Record, Texts
<1>3. CASE Total(f.lengths) = InFrame(f.body) /\ early
  <2>1. p = c
    BY <1>3, <1>1 DEF Record, Signed
  <2>2. c \in HealthRecord
    BY <1>3, RecordIsHealth
  <2>3. CppValidate(c) <=> PyValidate(c) /\ \A i \in 1..3 : WellFormed(Texts(c)[i])
    <3>1. /\ c.source < HalfTime /\ c.scheduled < HalfTime /\ c.publish < HalfTime
          /\ c.sequence \in Count
      BY <1>1, <1>3 DEF HealthFrame
    <3> HIDE DEF c
    <3> QED  BY <2>2, <3>1, SameValid
  <2> QED  BY <1>3, <2>1, <2>3 DEF CppDecode, PyDecode
<1>4. CASE ~early
  <2>1. PICK t \in {f.source, f.scheduled, f.publish} : ~(t < HalfTime)
    BY <1>4
  <2>2. Signed(t) < 0
    BY <2>1, WireAssumption DEF HealthFrame, Signed
  <2>3. Signed(t) \in {p.source, p.scheduled, p.publish}
    BY <1>2, <2>1
  <2>4. ~(0 <= Signed(t))
    BY <2>1, <2>2, WireAssumption DEF HealthFrame, Signed
  <2> HIDE DEF p
  <2>5. ~PyValidate(p)
    BY <2>3, <2>4 DEF PyValidate
  <2> QED  BY <1>4, <2>5 DEF CppDecode, PyDecode, p
<1>5. CASE Total(f.lengths) # InFrame(f.body)
  <2> HIDE DEF c, p
  <2> QED  BY <1>5 DEF CppDecode, PyDecode, c, p
<1> QED  BY <1>3, <1>4, <1>5

\* What is in the channel is a frame, and the frame of what was sent.
WireInv ==
  /\ wire # Refused =>
       /\ wire \in HealthFrame
       /\ wire.source < 2 * HalfTime /\ wire.scheduled < 2 * HalfTime /\ wire.publish < 2 * HalfTime
  /\ sent # Refused =>
       /\ sent \in HealthRecord /\ CppValidate(sent) /\ sent.sequence \in Count
       /\ sent.source < HalfTime /\ sent.scheduled < HalfTime /\ sent.publish < HalfTime
       /\ wire = Frame(sent)

\* The frame of a record that is accepted is a frame.
LEMMA FrameIsFrame ==
  ASSUME NEW h \in HealthRecord, CppValidate(h), h.sequence \in Count,
         h.source < HalfTime, h.scheduled < HalfTime, h.publish < HalfTime
  PROVE  /\ Frame(h) \in HealthFrame
         /\ Frame(h).source < 2 * HalfTime /\ Frame(h).scheduled < 2 * HalfTime
         /\ Frame(h).publish < 2 * HalfTime
<1>1. PICK p \in Text, q \in Text, r \in Text :
        p = h.sensor_id /\ q = h.profile_id /\ r = h.calibration_id
  BY DEF HealthRecord
<1>2. Len(p) \in Nat /\ Len(q) \in Nat /\ Len(r) \in Nat
  BY LenProperties DEF Text
<1>3. p \o q \o r \in Text
  BY CutWhereJoined DEF Joined
<1>4. HeaderSize + Len(p) + Len(q) + Len(r) \in Int
  BY <1>2, WireAssumption
<1>5. h.source \in Nat /\ h.scheduled \in Nat /\ h.publish \in Nat
  BY DEF HealthRecord, CppValidate
<1>6. h.sequence \in Count /\ h.status \in Nat
  BY DEF CppValidate
<1>7. Frame(h) = [ours |-> TRUE, size |-> HeaderSize + Len(p) + Len(q) + Len(r),
                  sequence |-> h.sequence, source |-> h.source, scheduled |-> h.scheduled,
                  publish |-> h.publish, status |-> h.status,
                  lengths |-> <<Len(p), Len(q), Len(r)>>, body |-> p \o q \o r]
  BY <1>1 DEF Frame, Texts, Total
<1> HIDE DEF Frame
<1>8. Frame(h) \in HealthFrame
  BY <1>2, <1>3, <1>4, <1>5, <1>6, <1>7 DEF HealthFrame
<1>9. \A t \in Nat : t < HalfTime => t < 2 * HalfTime
  BY WireAssumption
<1>10. Frame(h).source = h.source /\ Frame(h).scheduled = h.scheduled /\ Frame(h).publish = h.publish
  BY <1>7
<1> QED
  BY <1>5, <1>8, <1>9, <1>10

\* Nothing has been sent at first.
LEMMA WireStart == WireInit => WireInv
BY DEF WireInit, WireInv

\* Whatever is published, by either language or by nobody who knows the format.
LEMMA WireStep == WireInv /\ [WireNext]_wireVars => WireInv'
<1> SUFFICES ASSUME WireInv, [WireNext]_wireVars PROVE WireInv'
  OBVIOUS
<1>1. CASE Send
  <2>1. PICK h \in Healths :
          (FitsCpp(h) /\ Publish(h, CppEncode(h))) \/ Publish(h, PyEncode(h))
    BY <1>1 DEF Send
  <2>2. h \in HealthRecord
    BY WireTypes
  <2>3. /\ CppValidate(h) /\ h.sequence \in Count /\ h.source < HalfTime /\ h.scheduled < HalfTime /\ h.publish < HalfTime
        /\ sent' = h /\ wire' = Frame(h)
    <3>1. CASE FitsCpp(h) /\ Publish(h, CppEncode(h))
      <4>1. CppValidate(h) /\ h.sequence \in Count /\ sent' = h /\ wire' = Frame(h)
        BY <3>1 DEF FitsCpp, Publish, CppEncode
      <4>2. h.source < HalfTime /\ h.scheduled < HalfTime /\ h.publish < HalfTime
        BY <3>1, WireAssumption DEF FitsCpp, Int64
      <4> QED  BY <4>1, <4>2
    <3>2. CASE Publish(h, PyEncode(h))
      <4>1. PyValidate(h) /\ (\A i \in 1..3 : WellFormed(Texts(h)[i])) /\ sent' = h /\ wire' = Frame(h)
        BY <3>2 DEF Publish, PyEncode
      <4>2. /\ h.source < HalfTime /\ h.scheduled < HalfTime /\ h.publish < HalfTime
            /\ h.sequence \in Count
        BY <4>1 DEF PyValidate
      <4> QED  BY <2>2, <4>1, <4>2, SameValid
    <3> QED  BY <2>1, <3>1, <3>2
  <2> QED  BY <2>2, <2>3, FrameIsFrame DEF WireInv
<1>2. CASE Arrive
  <2>1. PICK f \in Headers, b \in Bodies :
          /\ f.rest[1] + f.rest[2] <= Len(b) + f.amiss
          /\ wire' = [ours |-> f.ours, size |-> InFrame(b) + f.excess, sequence |-> f.sequence,
                      source |-> f.source, scheduled |-> f.scheduled, publish |-> f.publish,
                      status |-> f.status, body |-> b,
                      lengths |-> <<Len(b) + f.amiss - f.rest[1] - f.rest[2],
                                    f.rest[1], f.rest[2]>>]
    BY <1>2 DEF Arrive
  <2>2. /\ f.ours \in BOOLEAN /\ f.excess \in Int /\ f.amiss \in Int
        /\ f.sequence \in Count /\ f.status \in Nat /\ f.rest[1] \in Nat /\ f.rest[2] \in Nat
        /\ f.source \in 0..(2 * HalfTime - 1) /\ f.scheduled \in 0..(2 * HalfTime - 1)
        /\ f.publish \in 0..(2 * HalfTime - 1)
    BY WireTypes
  <2>3. b \in Text /\ Len(b) \in Nat
    BY WireTypes, LenProperties DEF Text
  <2>4. \A t \in 0..(2 * HalfTime - 1) : t \in Nat /\ t < 2 * HalfTime
    BY WireAssumption
  <2>5. Len(b) + f.amiss - f.rest[1] - f.rest[2] \in Nat
    <3>1. \A n, x, y \in Nat, a \in Int : x + y <= n + a => n + a - x - y \in Nat
      OBVIOUS
    <3> QED  BY <2>1, <2>2, <2>3, <3>1
  <2>6. InFrame(b) + f.excess \in Int
    BY <2>2, <2>3, WireAssumption DEF InFrame
  <2>7. wire' \in HealthFrame
    BY <2>1, <2>2, <2>3, <2>4, <2>5, <2>6 DEF HealthFrame
  <2>8. /\ wire'.source < 2 * HalfTime /\ wire'.scheduled < 2 * HalfTime
        /\ wire'.publish < 2 * HalfTime
    BY <2>1, <2>2, <2>4
  <2>9. sent' = Refused
    BY <1>2 DEF Arrive
  <2> QED  BY <2>7, <2>8, <2>9 DEF WireInv
<1>3. CASE Read
  BY <1>3 DEF Read, WireInv
<1>4. CASE UNCHANGED wireVars
  BY <1>4 DEF wireVars, WireInv
<1> QED
  BY <1>1, <1>2, <1>3, <1>4 DEF WireNext

\* Records cross between C++ and Python as sensor_health_transport.md says, for
\* texts, times and frames of any size: what one language publishes both read
\* back, and of any other frame, whatever its size, its lengths and its numbers
\* are, both read nothing or the one record that frame is of.
THEOREM WireIsShared == WireSpec => []LanguagesAgree
<1>1. WireInv => LanguagesAgree
  <2> SUFFICES ASSUME WireInv PROVE LanguagesAgree
    OBVIOUS
  <2>1. ASSUME sent # Refused PROVE CppDecode(wire) = sent /\ PyDecode(wire) = sent
    <3>1. /\ sent \in HealthRecord /\ CppValidate(sent) /\ wire = Frame(sent) /\ sent.sequence \in Count
          /\ sent.source < HalfTime /\ sent.scheduled < HalfTime /\ sent.publish < HalfTime
      BY <2>1 DEF WireInv
    <3>2. sent.source \in Int64 /\ sent.scheduled \in Int64 /\ sent.publish \in Int64
      <4>1. sent.source \in Int /\ sent.scheduled \in Int /\ sent.publish \in Int
        BY <3>1 DEF HealthRecord
      <4>2. 0 <= sent.source /\ 0 <= sent.scheduled /\ 0 <= sent.publish
        BY <3>1, <4>1 DEF CppValidate
      <4>3. \A t \in Int : 0 <= t /\ t < HalfTime => t \in Int64
        BY WireAssumption DEF Int64
      <4> QED  BY <3>1, <4>1, <4>2, <4>3
    <3>3. CppDecode(wire) = sent
      BY <3>1, <3>2, CppReadsItsOwn
    <3>4. PyDecode(wire) = sent
      BY <3>1, SameValid, PythonReadsItsOwn
    <3> QED  BY <3>3, <3>4
  <2>2. ASSUME wire # Refused
        PROVE  /\ CppDecode(wire) = PyDecode(wire)
               /\ CppDecode(wire) # Refused => /\ CppEncode(CppDecode(wire)) = wire
                                            /\ PyEncode(CppDecode(wire)) = wire
    <3>1. /\ wire \in HealthFrame
          /\ wire.source < 2 * HalfTime /\ wire.scheduled < 2 * HalfTime
          /\ wire.publish < 2 * HalfTime
      BY <2>2 DEF WireInv
    <3>2. CppDecode(wire) = PyDecode(wire)
      BY <3>1, SameRecords
    <3>3. ASSUME CppDecode(wire) # Refused
          PROVE  CppEncode(CppDecode(wire)) = wire /\ PyEncode(CppDecode(wire)) = wire
      <4> DEFINE r == Record(wire)
      <4>1. /\ CppDecode(wire) = r /\ CppValidate(r) /\ Total(wire.lengths) = InFrame(wire.body)
            /\ wire.source < HalfTime /\ wire.scheduled < HalfTime /\ wire.publish < HalfTime
        BY <3>3 DEF CppDecode
      <4>2. Frame(r) = wire
        BY <3>1, <3>3, <4>1, OneFramePerRecord
      <4>3. r \in HealthRecord
        BY <3>1, <4>1, RecordIsHealth
      <4>4. /\ r.source < HalfTime /\ r.scheduled < HalfTime /\ r.publish < HalfTime
            /\ r.sequence \in Count
        BY <3>1, <4>1 DEF Record, HealthFrame
      <4> HIDE DEF r
      <4>5. PyValidate(r) /\ \A i \in 1..3 : WellFormed(Texts(r)[i])
        BY <4>1, <4>3, <4>4, SameValid
      <4> QED  BY <4>1, <4>2, <4>5 DEF CppEncode, PyEncode
    <3> QED  BY <3>2, <3>3
  <2> QED  BY <2>1, <2>2 DEF LanguagesAgree
<1> QED
  BY <1>1, WireStart, WireStep, PTL DEF WireSpec
-----------------------------------------------------------------------------
(***************************************************************************)
(* What the frames of a 2D and a 3D LiDAR are made of, for every           *)
(* configuration and every scene.  The times of a cloud are divisions, so  *)
(* most of the proof is about them: a point is one row and one column of   *)
(* its list, and a firing offset is less than a column's period.           *)
(***************************************************************************)
\* A part of a row is shorter than the row.
LEMMA AtLeastAsMuch == \A x, w \in Int : w > 0 /\ x >= 1 => x * w >= w
OBVIOUS

\* There is one way to write a number in rows of w.
LEMMA OneDivision ==
  ASSUME NEW a \in Int, NEW d \in Int, NEW w \in Nat \ {0}, NEW b \in 0..(w - 1), NEW m \in 0..(w - 1),
         a * w + b = d * w + m
  PROVE  a = d /\ b = m
<1>1. (a - d) * w = m - b
  <2>1. (a - d) * w = a * w - d * w
    BY SMT
  <2> QED  BY <2>1
<1>2. ~(a - d >= 1)
  BY <1>1, AtLeastAsMuch
<1>3. ~(d - a >= 1)
  <2>1. (d - a) * w = b - m
    BY <1>1
  <2> QED  BY <2>1, AtLeastAsMuch
<1>4. a = d
  BY <1>2, <1>3
<1> QED
  BY <1>4

\* Point b of row a.
LEMMA RowAndPoint ==
  ASSUME NEW a \in Int, NEW w \in Nat \ {0}, NEW b \in 0..(w - 1)
  PROVE  (a * w + b) \div w = a /\ (a * w + b) % w = b
<1> DEFINE n == a * w + b
<1>1. n \in Int
  BY SMT
<1> HIDE DEF n
<1>2. n \div w \in Int /\ n % w \in 0..(w - 1) /\ n = w * (n \div w) + (n % w)
  BY <1>1, SMT
<1>3. n = (n \div w) * w + (n % w)
  BY <1>1, <1>2, SMT
<1> QED
  BY <1>2, <1>3, OneDivision DEF n

\* A scan of period p with w columns, r of them in p units, has q units a column.
Whole(p, r, w) == \E q \in Nat \ {0} : (p \div r) = q * w /\ (p \div r) \div w = q /\ p = q * (r * w)

\* What a whole number of columns makes of the divisions.
LEMMA WholeColumns ==
  ASSUME NEW p \in Nat \ {0}, NEW r \in Nat \ {0}, NEW w \in Nat \ {0}, p % (r * w) = 0
  PROVE  Whole(p, r, w)
<1> DEFINE t == r * w
           q == p \div t
<1>1. t \in Nat \ {0}
  <2>1. r >= 1 /\ w > 0 /\ r \in Int /\ w \in Int
    OBVIOUS
  <2>2. r * w >= w /\ r * w \in Int
    BY <2>1, AtLeastAsMuch, SMT
  <2> QED  BY <2>1, <2>2
<1> HIDE DEF t
<1>2. q \in Int /\ p = t * q
  <2>1. p \in Int /\ p % t = 0
    BY DEF t
  <2>2. p \div t \in Int /\ p = t * (p \div t) + (p % t)
    BY <1>1, SMT
  <2> QED  BY <1>1, <2>1, <2>2
<1> HIDE DEF q
<1>3. q \in Nat \ {0}
  <2>1. ~(q <= 0)
    BY <1>1, <1>2, SMT
  <2> QED  BY <1>2, <2>1
<1>4. p = (q * w) * r + 0 /\ q * w \in Int
  BY <1>2, <1>3, SMT DEF t
<1>5. p \div r = q * w
  <2>1. PICK a \in Int : a = q * w
    BY <1>4
  <2>2. 0 \in 0..(r - 1)
    OBVIOUS
  <2>3. (a * r + 0) \div r = a
    BY <2>2, RowAndPoint
  <2> QED  BY <1>4, <2>1, <2>3
<1>6. (q * w) \div w = q
  <2>1. 0 \in 0..(w - 1)
    OBVIOUS
  <2>2. (q * w + 0) \div w = q
    BY <1>2, <2>1, RowAndPoint
  <2>3. q * w + 0 = q * w
    BY <1>4
  <2> QED  BY <2>2, <2>3
<1>7. p = q * (r * w)
  BY <1>2, <1>3, SMT DEF t
<1> QED
  BY <1>3, <1>5, <1>6, <1>7 DEF Whole
-----------------------------------------------------------------------------
\* The frame of a 3D LiDAR belongs to a configuration that was accepted.
SolidInv == solid \in Configs3D /\ Accepts(solid)

\* What EXCEPT leaves alone in a frame.
FrameInv == DOMAIN scanFrame = {"stamp", "of", "ranges"} /\ planar \in Configs2D
CloudInv == DOMAIN cloud = {"stamp", "height", "width", "period", "points"}

\* What every step of the LiDARs keeps.
LidarInv == SolidInv /\ FrameInv /\ CloudInv /\ HeaderMatchesRanges /\ PointsWithinScan

\* The padding comes first and the readings after it.
LEMMA PaddedLength ==
  ASSUME NEW c, c.pad \in Nat, NEW n \in Nat, NEW r
  PROVE  Len(Padded(c, [i \in 1..n |-> r[i]])) = c.pad + n
<1> DEFINE pad == [i \in 1..c.pad |-> c.blind]
           rs  == [i \in 1..n |-> r[i]]
           S   == {c.blind} \cup {r[i] : i \in 1..n}
<1>1. pad \in Seq(S) /\ Len(pad) = c.pad /\ rs \in Seq(S) /\ Len(rs) = n
  OBVIOUS
<1> HIDE DEF pad, rs, S
<1>2. Len(pad \o rs) = c.pad + n
  <2>1. Len(pad \o rs) = Len(pad) + Len(rs)
    BY <1>1, ConcatProperties
  <2> QED  BY <1>1, <2>1
<1> QED
  BY <1>2 DEF Padded, pad, rs

\* A 2D scan has a whole number of rays.
LEMMA RayCountIs ==
  ASSUME LidarAssumption, NEW c \in Configs2D, c.step > 0
  PROVE  RayCount(c) \in Nat
<1>1. c.first \in Int /\ c.last \in Int /\ c.step \in Int
  BY DEF LidarAssumption
<1>2. (c.last - c.first + c.step - 1) \div c.step \in Int
  BY <1>1
<1> QED
  BY <1>2 DEF RayCount, AtLeastOne

\* The column periods of an accepted configuration fill its scan.
LEMMA Columns ==
  ASSUME LidarAssumption, NEW c \in Configs3D, Accepts(c)
  PROVE  /\ Width(c) \in Nat \ {0} /\ Height(c) = c.channels /\ Height(c) \in Nat \ {0}
         /\ ColumnPeriod(c) \in Nat \ {0}
         /\ Period \div c.rps = ColumnPeriod(c) * Width(c)
         /\ Period = ColumnPeriod(c) * (c.rps * Width(c))
         /\ \A i \in DOMAIN c.offsets : c.offsets[i] \in 0..(ColumnPeriod(c) - 1)
         /\ c.offsets # << >> => DOMAIN c.offsets = 1..Height(c)
<1>1. /\ c.channels \in Nat \ {0} /\ c.rps \in Nat \ {0} /\ c.pps \in Nat \ {0}
      /\ c.offsets \in Seq(Int) /\ Period \in Nat \ {0}
  BY DEF LidarAssumption, Accepts
<1>2. Width(c) = AtLeastOne((c.pps \div c.rps) \div c.channels) /\ Height(c) = c.channels
  BY <1>1 DEF Width, Height, AtLeastOne
<1>3. Width(c) \in Nat \ {0}
  <2>1. (c.pps \div c.rps) \div c.channels \in Int
    BY <1>1
  <2> QED  BY <1>2, <2>1 DEF AtLeastOne
<1>4. PICK r \in Nat \ {0}, w \in Nat \ {0}, p \in Nat \ {0} : r = c.rps /\ w = Width(c) /\ p = Period
  BY <1>1, <1>3
<1>5. p % (r * w) = 0
  BY <1>4 DEF LidarAssumption
<1>6. PICK q \in Nat \ {0} : (p \div r) = q * w /\ (p \div r) \div w = q /\ p = q * (r * w)
  <2>1. Whole(p, r, w)
    BY <1>5, WholeColumns
  <2> QED  BY <2>1 DEF Whole
<1>7. ColumnPeriod(c) = q
  BY <1>4, <1>6 DEF ColumnPeriod
<1>8. ASSUME NEW i \in DOMAIN c.offsets PROVE c.offsets[i] \in 0..(q - 1)
  <2>1. c.offsets[i] >= 0 /\ c.offsets[i] * c.rps * Width(c) < Period
    BY <1>2 DEF Accepts
  <2>2. PICK x \in Int : x = c.offsets[i]
    BY <1>1
  <2>3. x * r * w < q * (r * w) /\ x >= 0
    BY <1>4, <1>6, <2>1, <2>2
  <2>4. x < q
    <3>1. PICK t \in Int : t = r * w /\ t > 0
      <4>1. r * w >= w /\ r * w \in Int
        BY AtLeastAsMuch, SMT
      <4> QED  BY <4>1
    <3>2. x * r * w = x * t
      BY <3>1, SMT
    <3>3. x * t < q * t
      BY <2>3, <3>1, <3>2
    <3>4. (x - q) * t < 0
      BY <3>1, <3>3, SMT
    <3> QED  BY <3>1, <3>4, SMT
  <2> QED  BY <2>2, <2>3, <2>4
<1>9. c.offsets # << >> => DOMAIN c.offsets = 1..Height(c)
  BY <1>1, <1>2 DEF Accepts
<1> QED
  BY <1>1, <1>2, <1>3, <1>4, <1>6, <1>7, <1>8, <1>9

\* A point of a channel is captured within the time of its column.
LEMMA FiredInColumn ==
  ASSUME LidarAssumption, NEW c \in Configs3D, Accepts(c), NEW iv \in 1..Height(c), NEW ih \in 1..Width(c)
  PROVE  \E x \in 0..(ColumnPeriod(c) - 1) :
           /\ FiringTime(c, iv, ih) = (ih - 1) * ColumnPeriod(c) + x
           /\ \A jh \in 1..Width(c) : FiringTime(c, iv, jh) = (jh - 1) * ColumnPeriod(c) + x
<1> DEFINE x == IF c.offsets = << >> THEN (ColumnPeriod(c) * (iv - 1)) \div Height(c) ELSE c.offsets[iv]
<1>1. /\ ColumnPeriod(c) \in Nat \ {0} /\ Height(c) \in Nat \ {0}
      /\ \A i \in DOMAIN c.offsets : c.offsets[i] \in 0..(ColumnPeriod(c) - 1)
      /\ c.offsets # << >> => DOMAIN c.offsets = 1..Height(c)
  BY Columns
<1>2. x \in 0..(ColumnPeriod(c) - 1)
  <2>1. CASE c.offsets = << >>
    <3>0. PICK q \in Nat \ {0}, h \in Nat \ {0} : q = ColumnPeriod(c) /\ h = Height(c)
      BY <1>1
    <3>1. PICK k \in 0..(h - 1) : k = iv - 1
      BY <3>0
    <3>2. (q * k) \div h \in 0..(q - 1)
      <4>1. PICK n \in Int : n = q * k /\ n >= 0 /\ n < q * h
        <5>1. q * k \in Int /\ q * k >= 0 /\ (h - k) * q >= q
          BY AtLeastAsMuch, SMT
        <5>2. (h - k) * q = q * h - q * k
          BY SMT
        <5>3. q * k < q * h
          BY <5>1, <5>2, SMT
        <5> QED  BY <5>1, <5>3
      <4>2. PICK d \in Int, m \in 0..(h - 1) : d = n \div h /\ n = d * h + m
        <5>1. n \div h \in Int /\ n % h \in 0..(h - 1) /\ n = h * (n \div h) + (n % h)
          BY SMT
        <5>2. n = (n \div h) * h + (n % h)
          BY <5>1, SMT
        <5> QED  BY <5>1, <5>2
      <4>3. ~(-d >= 1)
        <5>1. -d >= 1 => (-d) * h >= h
          BY AtLeastAsMuch
        <5>2. (-d) * h = m - n
          BY <4>2, SMT
        <5> QED  BY <4>1, <5>1, <5>2
      <4>4. d < q
        <5>1. d - q >= 0 => (d - q) * h >= 0
          BY SMT
        <5>2. (d - q) * h = d * h - q * h
          BY SMT
        <5>3. d * h <= n
          BY <4>2
        <5>4. (d - q) * h < 0
          BY <4>1, <5>2, <5>3, SMT
        <5> QED  BY <5>1, <5>4, SMT
      <4> QED  BY <4>1, <4>2, <4>3, <4>4
    <3> QED  BY <2>1, <3>0, <3>1, <3>2
  <2>2. CASE c.offsets # << >>
    BY <1>1, <2>2
  <2> QED  BY <2>1, <2>2
<1>3. \A jh : FiringTime(c, iv, jh) = (jh - 1) * ColumnPeriod(c) + x
  BY DEF FiringTime
<1> HIDE DEF x
<1> QED
  BY <1>2, <1>3

\* LidarInv holds at the start.
LEMMA LidarStart == LidarAssumption /\ LidarInit => LidarInv
<1> SUFFICES ASSUME LidarAssumption, LidarInit PROVE LidarInv
  OBVIOUS
<1>1. SolidInv /\ FrameInv /\ CloudInv
  BY DEF LidarInit, SolidInv, FrameInv, CloudInv, EmptyFrame
<1>2. HeaderMatchesRanges
  BY DEF LidarInit, HeaderMatchesRanges
<1>3. PointsWithinScan
  BY DEF LidarInit, PointsWithinScan
<1> QED
  BY <1>1, <1>2, <1>3 DEF LidarInv

\* What a scan of the 3D LiDAR leaves.
LEMMA CloudIsWithin ==
  ASSUME LidarAssumption, SolidInv, NEW scene, Scan3D(scene), caster' = caster
  PROVE  PointsWithinScan'
<1>0. CASE ~caster
  <2>1. cloud'.points = << >> /\ ~caster'
    BY <1>0 DEF Scan3D
  <2> QED  BY <2>1 DEF PointsWithinScan
<1> SUFFICES ASSUME caster PROVE PointsWithinScan'
  BY <1>0
<1> DEFINE c == solid
           H == Height(c)
           W == Width(c)
           Q == ColumnPeriod(c)
           time(iv, ih) == cloud'.points[(iv - 1) * W + ih].time
<1>1. /\ W \in Nat \ {0} /\ H \in Nat \ {0} /\ Q \in Nat \ {0} /\ Period \div c.rps = Q * W
  BY Columns DEF SolidInv
<1>2. PICK n \in Nat : n = H * W
  BY <1>1, SMT
<1>3. /\ cloud'.height = H /\ cloud'.width = W /\ cloud'.period = Q * W
      /\ Len(cloud'.points) = n /\ DOMAIN cloud'.points = 1..n
      /\ \A k \in 1..n : cloud'.points[k].time = FiringTime(c, (k - 1) \div W + 1, ((k - 1) % W) + 1)
  <2> DEFINE p == [k \in 1..n |->
               LET iv == (k - 1) \div W + 1
                   ih == ((k - 1) % W) + 1
               IN [depth |-> InRange(Cast(Line(scene, ih - 1), c.exclude, c.max), c.min, c.max),
                   time  |-> FiringTime(c, iv, ih)]]
  <2>1. /\ cloud'.height = H /\ cloud'.width = W /\ cloud'.period = Period \div c.rps
        /\ cloud'.points = p
    BY <1>2 DEF Scan3D
  <2>2. DOMAIN p = 1..n /\ Len(p) = n
    OBVIOUS
  <2> QED  BY <1>1, <2>1, <2>2
<1> HIDE DEF W, H, Q, c
\* A point of the list is of one channel and one column.
<1>4. ASSUME NEW k \in 1..n
      PROVE  (k - 1) \div W + 1 \in 1..H /\ ((k - 1) % W) + 1 \in 1..W
  <2>1. PICK d \in Int, m \in 0..(W - 1) : d = (k - 1) \div W /\ m = (k - 1) % W /\ k - 1 = d * W + m
    <3>1. (k - 1) \div W \in Int /\ (k - 1) % W \in 0..(W - 1)
          /\ k - 1 = W * ((k - 1) \div W) + ((k - 1) % W)
      BY <1>1, SMT
    <3>2. k - 1 = ((k - 1) \div W) * W + ((k - 1) % W)
      BY <1>1, <3>1, SMT
    <3> QED  BY <3>1, <3>2
  <2>2. ~(-d >= 1)
    <3>1. -d >= 1 => (-d) * W >= W
      BY <1>1, AtLeastAsMuch
    <3>2. (-d) * W = m - (k - 1)
      BY <1>1, <2>1, SMT
    <3> QED  BY <1>1, <3>1, <3>2
  <2>3. ~(d - H >= 0)
    <3>1. d - H >= 0 => (d - H) * W >= 0
      BY <1>1, SMT
    <3>2. (d - H) * W = d * W - H * W
      BY <1>1, SMT
    <3>3. d * W <= k - 1 /\ k - 1 < H * W /\ d * W \in Int /\ H * W \in Int
      BY <1>1, <1>2, <2>1
    <3> QED  BY <3>1, <3>2, <3>3
  <2> QED  BY <1>1, <2>1, <2>2, <2>3
<1>5. ASSUME NEW k \in 1..n
      PROVE  0 <= cloud'.points[k].time /\ cloud'.points[k].time < Q * W
  <2>1. PICK iv \in 1..H, ih \in 1..W : iv = (k - 1) \div W + 1 /\ ih = ((k - 1) % W) + 1
    BY <1>4
  <2>2. PICK x \in 0..(Q - 1) : FiringTime(c, iv, ih) = (ih - 1) * Q + x
    BY FiredInColumn DEF SolidInv, c, H, W, Q
  <2>3. (ih - 1) * Q >= 0 /\ (W - ih) * Q >= 0 /\ (ih - 1) * Q \in Int
    BY <1>1, SMT
  <2>4. (W - ih) * Q = Q * W - (ih - 1) * Q - Q /\ Q * W \in Int
    BY <1>1, SMT
  <2>5. PICK y \in Int, z \in Int : y = (ih - 1) * Q /\ z = Q * W
    BY <2>3, <2>4
  <2>6. y >= 0 /\ z - y - Q >= 0
    BY <2>3, <2>4, <2>5
  <2>7. PICK t : t = cloud'.points[k].time /\ t = FiringTime(c, iv, ih)
    BY <1>3, <2>1
  <2>8. t = y + x
    BY <2>2, <2>5, <2>7
  <2>9. 0 <= t /\ t < z
    BY <1>1, <2>6, <2>8
  <2> QED  BY <2>5, <2>7, <2>9
<1>6. ASSUME NEW iv \in 1..H, NEW ih \in 1..W
      PROVE  time(iv, ih) = FiringTime(c, iv, ih)
  <2>1. PICK k \in Int : k = (iv - 1) * W + ih
    BY <1>1, SMT
  <2>2. k \in 1..n
    <3>1. (iv - 1) * W >= 0 /\ (H - iv) * W >= 0 /\ (iv - 1) * W \in Int
      BY <1>1, SMT
    <3>2. (H - iv) * W = H * W - (iv - 1) * W - W
      BY <1>1, SMT
    <3> QED  BY <1>1, <1>2, <2>1, <3>1, <3>2
  <2>3. (k - 1) \div W = iv - 1 /\ (k - 1) % W = ih - 1
    <3>1. PICK a \in Int, b \in 0..(W - 1) : a = iv - 1 /\ b = ih - 1
      BY <1>1
    <3>2. k - 1 = a * W + b
      <4>1. PICK p \in Int : p = a * W
        BY <1>1, SMT
      <4>2. (iv - 1) * W = p
        BY <3>1, <4>1
      <4>3. k - 1 = p + b
        BY <2>1, <3>1, <4>2
      <4> QED  BY <4>1, <4>3
    <3>3. (a * W + b) \div W = a /\ (a * W + b) % W = b
      BY <1>1, RowAndPoint
    <3> QED  BY <3>1, <3>2, <3>3
  <2>4. (k - 1) \div W + 1 = iv /\ ((k - 1) % W) + 1 = ih
    BY <2>3
  <2> QED  BY <1>3, <2>1, <2>2, <2>4
<1>7. ASSUME NEW iv \in 1..H, NEW ih \in 1..(W - 1)
      PROVE  time(iv, ih) < time(iv, ih + 1)
  <2>1. ih \in 1..W /\ ih + 1 \in 1..W
    BY <1>1
  <2>2. PICK x \in 0..(Q - 1) :
          /\ FiringTime(c, iv, ih) = (ih - 1) * Q + x
          /\ \A jh \in 1..W : FiringTime(c, iv, jh) = (jh - 1) * Q + x
    BY <2>1, FiredInColumn DEF SolidInv, c, H, W, Q
  <2>3. FiringTime(c, iv, ih) = (ih - 1) * Q + x /\ FiringTime(c, iv, ih + 1) = ih * Q + x
    <3>1. (ih + 1) - 1 = ih
      OBVIOUS
    <3> QED  BY <2>1, <2>2, <3>1
  <2>4. ih * Q = (ih - 1) * Q + Q /\ (ih - 1) * Q \in Int
    BY <1>1, SMT
  <2>5. FiringTime(c, iv, ih) < FiringTime(c, iv, ih + 1)
    BY <1>1, <2>3, <2>4
  <2> QED  BY <1>6, <2>1, <2>5
<1> QED
  BY <1>2, <1>3, <1>5, <1>7 DEF PointsWithinScan

\* Every scan and reload keeps LidarInv.
LEMMA LidarStep ==
  ASSUME LidarAssumption, LidarInv, [LidarNext]_lidarVars
  PROVE  LidarInv'
<1>1. CASE ScanAll
  <2>1. PICK s \in Scenes : Scan2D(s) /\ Scan3D(s)
    BY <1>1 DEF ScanAll
  <2>2. UNCHANGED <<caster, planar, solid>>
    BY <1>1 DEF ScanAll
  <2>3. FrameInv' /\ HeaderMatchesRanges'
    <3>1. CASE planar.body \in DOMAIN Parent /\ planar.step > 0
      <4> DEFINE c == planar
      <4>1. PICK r \in Readings(c, s) :
              scanFrame' = [stamp |-> scanFrame.stamp + 1, of |-> c,
                            ranges |-> Padded(c, [i \in 1..RayCount(c) |-> AtMost(r[i], c.max)])]
        BY <2>1, <3>1 DEF Scan2D
      <4>2. c \in Configs2D /\ c.pad \in Nat /\ RayCount(c) \in Nat
        BY <3>1, RayCountIs DEF LidarInv, FrameInv, LidarAssumption
      <4>3. Len(scanFrame'.ranges) = c.pad + RayCount(c)
        <5> DEFINE q == [i \in 1..RayCount(c) |-> AtMost(r[i], c.max)]
        <5>1. \A i \in 1..RayCount(c) : q[i] = AtMost(r[i], c.max)
          OBVIOUS
        <5>2. q = [i \in 1..RayCount(c) |-> q[i]]
          OBVIOUS
        <5>3. scanFrame'.ranges = Padded(c, q)
          BY <4>1
        <5> HIDE DEF q
        <5>4. Len(Padded(c, [i \in 1..RayCount(c) |-> q[i]])) = c.pad + RayCount(c)
          BY <4>2, PaddedLength
        <5> QED  BY <5>2, <5>3, <5>4
      <4>4. scanFrame'.of = c /\ DOMAIN scanFrame' = {"stamp", "of", "ranges"}
        BY <4>1
      <4> QED  BY <2>2, <4>2, <4>3, <4>4 DEF FrameInv, HeaderMatchesRanges
    <3>2. CASE ~(planar.body \in DOMAIN Parent /\ planar.step > 0)
      <4>1. scanFrame' = [scanFrame EXCEPT !.stamp = @ + 1]
        BY <2>1, <3>2 DEF Scan2D, ReturnsEarly
      <4>2. /\ DOMAIN scanFrame' = DOMAIN scanFrame
            /\ scanFrame'.of = scanFrame.of /\ scanFrame'.ranges = scanFrame.ranges
        BY <4>1 DEF LidarInv, FrameInv
      <4> QED  BY <2>2, <4>2 DEF LidarInv, FrameInv, HeaderMatchesRanges
    <3> QED  BY <3>1, <3>2
  <2>4. SolidInv' /\ CloudInv' /\ PointsWithinScan'
    <3>1. CloudInv'
      BY <2>1 DEF Scan3D, CloudInv
    <3> QED  BY <2>1, <2>2, <3>1, CloudIsWithin DEF LidarInv, SolidInv
  <2> QED  BY <2>3, <2>4 DEF LidarInv
<1>2. CASE Reload2D
  BY <1>2 DEF Reload2D, LidarInv, SolidInv, FrameInv, CloudInv, HeaderMatchesRanges, PointsWithinScan
<1>3. CASE Reload3D
  <2>1. SolidInv'
    BY <1>3 DEF Reload3D, LidarInv, SolidInv
  <2>2. FrameInv' /\ HeaderMatchesRanges'
    BY <1>3 DEF Reload3D, LidarInv, FrameInv, HeaderMatchesRanges
  <2>3. CloudInv' /\ PointsWithinScan'
    <3>1. cloud' = cloud \/ cloud' = [cloud EXCEPT !.stamp = 0]
      BY <1>3 DEF Reload3D
    <3>2. /\ DOMAIN cloud' = DOMAIN cloud /\ cloud'.points = cloud.points
          /\ cloud'.height = cloud.height /\ cloud'.width = cloud.width
          /\ cloud'.period = cloud.period
      BY <3>1 DEF LidarInv, CloudInv
    <3>3. caster' = caster
      BY <1>3 DEF Reload3D
    <3> QED  BY <3>2, <3>3 DEF LidarInv, CloudInv, PointsWithinScan
  <2> QED  BY <2>1, <2>2, <2>3 DEF LidarInv
<1>4. CASE UNCHANGED lidarVars
  BY <1>4 DEF lidarVars, LidarInv, SolidInv, FrameInv, CloudInv, HeaderMatchesRanges, PointsWithinScan
<1> QED
  BY <1>1, <1>2, <1>3, <1>4 DEF LidarNext

(***************************************************************************)
(* A frame's ranges are as many as its header says, padding included, and the *)
(* points of a cloud are captured within the time of its scan, each channel's *)
(* in the order of its columns: checking the firing offsets once, when a   *)
(* configuration is set, is enough.                                        *)
(***************************************************************************)
THEOREM ScansAreWhole ==
  ASSUME LidarAssumption
  PROVE  LidarSpec => []FramesOfOneScan
<1>1. LidarInv => FramesOfOneScan
  BY DEF LidarInv, FramesOfOneScan
<1> QED
  BY <1>1, LidarStart, LidarStep, PTL DEF LidarSpec
-----------------------------------------------------------------------------
(***************************************************************************)
(* That a scan sees the scene: the casts of one reading, and readings of   *)
(* lines that are still the ones of the scan.                              *)
(***************************************************************************)
\* A ray that may still be cast Attempts - k times goes on at from; f says what
\* is read behind the next surface of the vehicle.
Leg(line, excluded, eps, lo, hi, miss, k, f) ==
  [from \in 0..hi |->
     IF k = Attempts \/ Ahead(line, from) = {} THEN miss
     ELSE LET s == FirstAhead(line, from) IN
          IF ~IsSelf(s.body, excluded) THEN IF s.dist < lo \/ s.dist > hi THEN miss ELSE s.dist
          ELSE IF s.dist + eps >= hi THEN miss ELSE f[k + 1][s.dist + eps]]

\* What a leg reads if there is something ahead.
LEMMA LegMeets ==
  ASSUME NEW line, NEW e, NEW eps, NEW lo, NEW hi, NEW miss, NEW k, NEW f, NEW from \in 0..hi,
         k # Attempts, Ahead(line, from) # {}, NEW s, s = FirstAhead(line, from)
  PROVE  Leg(line, e, eps, lo, hi, miss, k, f)[from] =
           IF ~IsSelf(s.body, e) THEN IF s.dist < lo \/ s.dist > hi THEN miss ELSE s.dist
           ELSE IF s.dist + eps >= hi THEN miss ELSE f[k + 1][s.dist + eps]
BY DEF Leg

\* The surfaces a ray may cross.
IsLine(line) == IsFiniteSet(line) /\ \A s \in line : s.dist \in Nat

\* There is a nearest surface ahead.
LEMMA FirstIsAhead ==
  ASSUME NEW line, IsLine(line), NEW from \in Nat, Ahead(line, from) # {}
  PROVE  /\ FirstAhead(line, from) \in line
         /\ FirstAhead(line, from).dist >= from
         /\ \A t \in line : t.dist >= from => FirstAhead(line, from).dist <= t.dist
<1> DEFINE D == {s.dist : s \in Ahead(line, from)}
<1>1. D \in SUBSET Nat /\ D # {}
  BY DEF IsLine, Ahead
<1>2. PICK d \in D : \A e \in D : d <= e
  <2> HIDE DEF D
  <2> QED  BY <1>1, NatHasLeast
<1>3. \E s \in Ahead(line, from) : \A t \in Ahead(line, from) : s.dist <= t.dist
  BY <1>2
<1>4. /\ FirstAhead(line, from) \in Ahead(line, from)
      /\ \A t \in Ahead(line, from) : FirstAhead(line, from).dist <= t.dist
  BY <1>3 DEF FirstAhead
<1> QED
  BY <1>4 DEF Ahead

\* The legs of a ray are a function of how many there have been.
LegsExist(line, excluded, eps, lo, hi, miss) ==
  \E g \in [0..Attempts -> [0..hi -> Int]] :
    \A k \in 0..Attempts : g[k] = Leg(line, excluded, eps, lo, hi, miss, k, g)

LEMMA LegsAreDefined ==
  ASSUME LidarAssumption, NEW line, IsLine(line), NEW excluded, NEW eps \in Nat, NEW lo \in Int, NEW hi \in Nat, NEW miss \in Int
  PROVE  LegsExist(line, excluded, eps, lo, hi, miss)
<1> DEFINE S == 0..Attempts
           V == [0..hi -> Int]
           L(k, f) == Leg(line, excluded, eps, lo, hi, miss, k, f)
           step == [k \in S |-> [f \in [S -> V] |-> L(k, f)]]
           rank == [k \in S |-> Attempts - k]
<1>0. Attempts \in Nat
  BY DEF LidarAssumption
<1>1. ASSUME NEW k \in S, NEW f \in [S -> V] PROVE L(k, f) \in V
  <2>1. ASSUME NEW from \in 0..hi PROVE L(k, f)[from] \in Int
    <3> DEFINE s == FirstAhead(line, from)
    <3>1. CASE k = Attempts \/ Ahead(line, from) = {}
      BY <3>1 DEF Leg
    <3>2. CASE k # Attempts /\ Ahead(line, from) # {}
      <4>1. s.dist \in Nat
        BY <3>2, FirstIsAhead DEF IsLine
      <4>2. s.dist + eps < hi => s.dist + eps \in 0..hi
        <5> HIDE DEF s
        <5> QED  BY <1>0, <4>1
      <4>3. k + 1 \in S
        BY <1>0, <3>2
      <4>4. L(k, f)[from] = IF ~IsSelf(s.body, excluded) THEN IF s.dist < lo \/ s.dist > hi THEN miss ELSE s.dist
                            ELSE IF s.dist + eps >= hi THEN miss ELSE f[k + 1][s.dist + eps]
        BY <3>2 DEF Leg
      <4>5. s.dist + eps < hi => f[k + 1][s.dist + eps] \in Int
        BY <4>2, <4>3
      <4> HIDE DEF s, L
      <4> QED  BY <1>0, <4>1, <4>4, <4>5, SMTT(30)
    <3> QED  BY <3>1, <3>2
  <2>2. L(k, f) = [from \in 0..hi |-> L(k, f)[from]]
    BY DEF Leg
  <2> HIDE DEF L
  <2> QED  BY <2>1, <2>2
<1>2. ASSUME NEW k \in S, NEW f \in [S -> V], NEW g \in [S -> V],
             \A j \in S : rank[j] < rank[k] => f[j] = g[j]
      PROVE  L(k, f) = L(k, g)
  <2>1. k # Attempts => f[k + 1] = g[k + 1]
    BY <1>0, <1>2
  <2> QED  BY <2>1 DEF Leg
<1>3. rank \in [S -> 0..Attempts] /\ step \in [S -> [[S -> V] -> V]] /\ [S -> V] # {}
  <2> HIDE DEF L
  <2>1. rank \in [S -> 0..Attempts]
    BY <1>0
  <2>2. step \in [S -> [[S -> V] -> V]]
    <3> HIDE DEF V
    <3> QED  BY <1>1
  <2>3. [S -> V] # {}
    <3>1. [k \in S |-> [from \in 0..hi |-> 0]] \in [S -> V]
      OBVIOUS
    <3> QED  BY <3>1
  <2> QED  BY <2>1, <2>2, <2>3
<1>4. \A k \in S : \A f \in [S -> V] : step[k][f] = L(k, f)
  <2> HIDE DEF L, V
  <2> QED  OBVIOUS
<1>5. \A k \in S : \A f, g \in [S -> V] :
        (\A j \in S : rank[j] < rank[k] => f[j] = g[j]) => step[k][f] = step[k][g]
  <2> HIDE DEF L, V, step, rank, S
  <2> QED  BY <1>2, <1>4
<1>6. \E f \in [S -> V] : \A k \in S : f[k] = step[k][f]
  <2> HIDE DEF L, V, step, rank, S
  <2>1. Recursive(S, V, Attempts, rank, step)
    BY <1>0, <1>3, <1>5 DEF Recursive
  <2> QED  BY <2>1, RecursionDefines
<1> HIDE DEF step, L
<1>7. PICK f \in [S -> V] : \A k \in S : f[k] = L(k, f)
  BY <1>4, <1>6
<1> QED
  BY <1>7 DEF L, LegsExist

\* What LiDAR2DSensor reads is what its first leg reads.
LEMMA CastRayIs ==
  ASSUME LidarAssumption, NEW line, IsLine(line), NEW c, c.max \in Nat, c.min \in Int, c.eps \in Nat
  PROVE  \E g : /\ \A k \in 0..Attempts : g[k] = Leg(line, c.exclude, c.eps, c.min, c.max, c.max, k, g)
                /\ CastRay(line, c) = g[0][0]
<1> DEFINE leg(g, k, from) ==
             IF k = Attempts \/ Ahead(line, from) = {} THEN c.max
             ELSE LET s == FirstAhead(line, from) IN
                  IF ~IsSelf(s.body, c.exclude)
                  THEN IF s.dist < c.min \/ s.dist > c.max THEN c.max ELSE s.dist
                  ELSE IF s.dist + c.eps >= c.max THEN c.max ELSE g[k + 1][s.dist + c.eps]
           cast[k \in 0..Attempts] == [from \in 0..c.max |-> leg(cast, k, from)]
<1>1. CastRay(line, c) = cast[0][0]
  BY DEF CastRay
<1>2. PICK g \in [0..Attempts -> [0..c.max -> Int]] :
        \A k \in 0..Attempts : g[k] = Leg(line, c.exclude, c.eps, c.min, c.max, c.max, k, g)
  <2>1. c.max \in Int
    OBVIOUS
  <2>2. LegsExist(line, c.exclude, c.eps, c.min, c.max, c.max)
    BY <2>1, LegsAreDefined
  <2> QED  BY <2>2 DEF LegsExist
<1>3. g = [k \in 0..Attempts |-> [from \in 0..c.max |-> leg(g, k, from)]]
  BY <1>2 DEF Leg
<1>4. cast = [k \in 0..Attempts |-> [from \in 0..c.max |-> leg(cast, k, from)]]
  <2> HIDE DEF leg
  <2> QED  BY <1>3
<1>5. \A k \in 0..Attempts : cast[k] = Leg(line, c.exclude, c.eps, c.min, c.max, c.max, k, cast)
  <2>1. \A k \in 0..Attempts : cast[k] = [from \in 0..c.max |-> leg(cast, k, from)]
    <3> HIDE DEF leg, cast
    <3> QED  BY <1>4
  <2> HIDE DEF cast
  <2> QED  BY <2>1 DEF Leg
<1> HIDE DEF cast
<1> QED  BY <1>1, <1>5

\* What MujocoRayCaster returns is what its first leg reads, with no minimum.
LEMMA CastIs ==
  ASSUME LidarAssumption, NEW line, IsLine(line), NEW excluded, NEW max \in Nat
  PROVE  \E g : /\ \A k \in 0..Attempts : g[k] = Leg(line, excluded, Epsilon, 0, max, Miss, k, g)
                /\ Cast(line, excluded, max) = g[0][0]
<1> DEFINE leg(g, k, from) ==
             IF k = Attempts \/ Ahead(line, from) = {} THEN Miss
             ELSE LET s == FirstAhead(line, from) IN
                  IF ~IsSelf(s.body, excluded) THEN IF s.dist > max THEN Miss ELSE s.dist
                  ELSE IF s.dist + Epsilon >= max THEN Miss ELSE g[k + 1][s.dist + Epsilon]
           cast[k \in 0..Attempts] == [from \in 0..max |-> leg(cast, k, from)]
<1>1. Cast(line, excluded, max) = cast[0][0]
  BY DEF Cast
<1>2. PICK g \in [0..Attempts -> [0..max -> Int]] :
        \A k \in 0..Attempts : g[k] = Leg(line, excluded, Epsilon, 0, max, Miss, k, g)
  <2>1. 0 \in Int /\ Miss \in Int /\ Epsilon \in Nat
    BY DEF Miss, LidarAssumption
  <2>2. LegsExist(line, excluded, Epsilon, 0, max, Miss)
    BY <2>1, LegsAreDefined
  <2> QED  BY <2>2 DEF LegsExist
\* No surface is nearer than nothing.
<1>3. ASSUME NEW f, NEW k \in 0..Attempts
      PROVE  Leg(line, excluded, Epsilon, 0, max, Miss, k, f) = [from \in 0..max |-> leg(f, k, from)]
  <2>1. ASSUME NEW from \in 0..max, Ahead(line, from) # {}
        PROVE  ~(FirstAhead(line, from).dist < 0)
    BY <2>1, FirstIsAhead DEF IsLine
  <2> QED  BY <2>1 DEF Leg
<1>4. cast = [k \in 0..Attempts |-> [from \in 0..max |-> leg(cast, k, from)]]
  <2>1. g = [k \in 0..Attempts |-> [from \in 0..max |-> leg(g, k, from)]]
    <3>1. \A k \in 0..Attempts : g[k] = [from \in 0..max |-> leg(g, k, from)]
      BY <1>2, <1>3
    <3> HIDE DEF leg
    <3> QED  BY <3>1
  <2> HIDE DEF leg
  <2> QED  BY <2>1
<1>5. \A k \in 0..Attempts : cast[k] = Leg(line, excluded, Epsilon, 0, max, Miss, k, cast)
  <2>1. \A k \in 0..Attempts : cast[k] = [from \in 0..max |-> leg(cast, k, from)]
    <3> HIDE DEF leg, cast
    <3> QED  BY <1>4
  <2> HIDE DEF cast, leg
  <2> QED  BY <1>3, <2>1
<1> HIDE DEF cast
<1> QED  BY <1>1, <1>5

\* One ray reads the same through both casters, with either sensor's limits.
LEMMA SameRay ==
  ASSUME LidarAssumption, NEW line, IsLine(line), NEW c, c.max \in Nat, c.min \in Int, c.eps = Epsilon
  PROVE  CastRay(line, c) = InRange(Cast(line, c.exclude, c.max), c.min, c.max)
<1> DEFINE max == c.max
<1>0. Attempts \in Nat /\ Epsilon \in Nat /\ max \in Nat
  BY DEF LidarAssumption
<1>1. PICK g : /\ \A k \in 0..Attempts : g[k] = Leg(line, c.exclude, Epsilon, c.min, max, max, k, g)
               /\ CastRay(line, c) = g[0][0]
  BY <1>0, CastRayIs
<1>2. PICK h : /\ \A k \in 0..Attempts : h[k] = Leg(line, c.exclude, Epsilon, 0, max, Miss, k, h)
               /\ Cast(line, c.exclude, max) = h[0][0]
  BY <1>0, CastIs
<1> DEFINE Same(k) == \A from \in 0..max : g[k][from] = InRange(h[k][from], c.min, max)
           Bad == {n \in 0..Attempts : ~Same(Attempts - n)}
<1>3. ASSUME NEW k \in 0..Attempts, k # Attempts => Same(k + 1) PROVE Same(k)
  <2> SUFFICES ASSUME NEW from \in 0..max PROVE g[k][from] = InRange(h[k][from], c.min, max)
    OBVIOUS
  <2> DEFINE s == FirstAhead(line, from)
  <2>1. CASE k = Attempts \/ Ahead(line, from) = {}
    <3>1. g[k][from] = max /\ h[k][from] = Miss
      BY <1>1, <1>2, <2>1 DEF Leg
    <3> QED  BY <3>1 DEF InRange
  <2>2. CASE k # Attempts /\ Ahead(line, from) # {}
    <3>1. s.dist \in Nat
      BY <2>2, FirstIsAhead DEF IsLine
    <3>2. g[k][from] = IF ~IsSelf(s.body, c.exclude) THEN IF s.dist < c.min \/ s.dist > max THEN max ELSE s.dist
                       ELSE IF s.dist + Epsilon >= max THEN max ELSE g[k + 1][s.dist + Epsilon]
      <4>1. g[k] = Leg(line, c.exclude, Epsilon, c.min, max, max, k, g)
        BY <1>1
      <4> HIDE DEF max
      <4> QED  BY <2>2, <4>1, LegMeets
    <3>3. h[k][from] = IF ~IsSelf(s.body, c.exclude) THEN IF s.dist < 0 \/ s.dist > max THEN Miss ELSE s.dist
                       ELSE IF s.dist + Epsilon >= max THEN Miss ELSE h[k + 1][s.dist + Epsilon]
      <4>1. h[k] = Leg(line, c.exclude, Epsilon, 0, max, Miss, k, h)
        BY <1>2
      <4> HIDE DEF max
      <4> QED  BY <2>2, <4>1, LegMeets
    <3>4. PICK d \in Nat : d = s.dist
      BY <3>1
    <3> HIDE DEF s, max
    <3>5. CASE ~IsSelf(s.body, c.exclude)
      BY <1>0, <3>2, <3>3, <3>4, <3>5 DEF InRange, Miss
    <3>6. CASE IsSelf(s.body, c.exclude) /\ d + Epsilon >= max
      BY <1>0, <3>2, <3>3, <3>4, <3>6 DEF InRange
    <3>7. CASE IsSelf(s.body, c.exclude) /\ ~(d + Epsilon >= max)
      <4>1. d + Epsilon \in 0..max
        BY <1>0, <3>7
      <4>2. g[k][from] = g[k + 1][d + Epsilon] /\ h[k][from] = h[k + 1][d + Epsilon]
        BY <3>2, <3>3, <3>4, <3>7
      <4> QED  BY <1>3, <2>2, <4>1, <4>2
    <3> QED  BY <3>5, <3>6, <3>7
  <2> QED  BY <2>1, <2>2
<1>4. Bad = {}
  <2> SUFFICES ASSUME Bad # {} PROVE FALSE
    OBVIOUS
  <2>1. PICK n \in Bad : \A m \in Bad : n <= m
    <3>1. Bad \in SUBSET Nat
      BY <1>0
    <3> HIDE DEF Bad
    <3> QED  BY <3>1, NatHasLeast
  <2> DEFINE k == Attempts - n
  <2>2. k \in 0..Attempts /\ ~Same(k) /\ n \in 0..Attempts
    BY <1>0
  <2>3. k # Attempts => n - 1 \in 0..Attempts /\ n - 1 \notin Bad /\ Attempts - (n - 1) = k + 1
    <3>1. k # Attempts => n - 1 \in 0..Attempts /\ Attempts - (n - 1) = k + 1 /\ ~(n <= n - 1)
      BY <1>0, <2>2
    <3> HIDE DEF Bad, k
    <3> QED  BY <2>1, <3>1
  <2>4. k # Attempts => Same(k + 1)
    <3> HIDE DEF Same, k
    <3> QED  BY <2>3
  <2> HIDE DEF Same, k
  <2> QED  BY <1>3, <2>2, <2>4
<1>5. Same(0)
  <2>1. Attempts \in 0..Attempts /\ Attempts - Attempts = 0
    BY <1>0
  <2> HIDE DEF Same
  <2> QED  BY <1>4, <2>1
<1>6. 0 \in 0..max
  BY <1>0
<1> QED
  BY <1>1, <1>2, <1>5, <1>6

\* The bodies on a ray before a point of it.
Before(line, from) == {s \in line : s.dist < from}

\* A leg that begins behind k surfaces of the vehicle reads the nearest of the others.
LEMMA LegReadsTruth ==
  ASSUME LidarAssumption, NEW line, IsLine(line), NEW c, c.max \in Nat, c.min \in Int, Apart(line, c), c.eps \in Nat \ {0},
         NEW g, \A k \in 0..Attempts : g[k] = Leg(line, c.exclude, c.eps, c.min, c.max, c.max, k, g),
         NEW k \in 0..Attempts, NEW from \in 0..c.max,
         \A s \in Before(line, from) : IsSelf(s.body, c.exclude),
         Cardinality(Before(line, from)) = k,
         k # Attempts => \A x \in 0..c.max :
           /\ \A s \in Before(line, x) : IsSelf(s.body, c.exclude)
           /\ Cardinality(Before(line, x)) = k + 1
           => g[k + 1][x] = Truth(line, c)
  PROVE  g[k][from] = Truth(line, c)
<1> DEFINE foreign == {s.dist : s \in {t \in line : ~IsSelf(t.body, c.exclude)}}
           own == {s \in line : IsSelf(s.body, c.exclude) /\ s.dist < Lowest(foreign)}
           s == FirstAhead(line, from)
<1>0. Attempts \in Nat /\ from \in Nat
  BY DEF LidarAssumption
<1>1. foreign # {} => Lowest(foreign) \in foreign /\ \A d \in foreign : Lowest(foreign) <= d
  <2>1. foreign \in SUBSET Nat
    BY DEF IsLine
  <2> HIDE DEF foreign
  <2> QED  BY <2>1, NatHasLeast DEF Lowest
<1>2. foreign \in SUBSET Nat
  BY DEF IsLine
<1>3. \A d \in foreign : d >= from
  <2> SUFFICES ASSUME NEW t \in line, ~IsSelf(t.body, c.exclude), t.dist < from PROVE FALSE
    BY <1>0, <1>2 DEF IsLine
  <2> QED  BY DEF Before
<1>4. IsFiniteSet(own) /\ IsFiniteSet(Before(line, from))
  BY FS_Subset DEF IsLine, Before
<1>5. foreign # {} => Before(line, from) \subseteq own
  <2> SUFFICES ASSUME foreign # {}, NEW t \in Before(line, from) PROVE t \in own
    OBVIOUS
  <2>1. Lowest(foreign) >= from /\ Lowest(foreign) \in Nat
    BY <1>1, <1>2, <1>3
  <2>2. t \in line /\ t.dist < from /\ t.dist \in Nat /\ IsSelf(t.body, c.exclude)
    BY DEF Before, IsLine
  <2> HIDE DEF foreign
  <2> QED  BY <1>0, <2>1, <2>2
<1>6. Truth(line, c) = IF foreign = {} \/ Cardinality(own) >= Attempts THEN c.max
                       ELSE IF c.min <= Lowest(foreign) /\ Lowest(foreign) <= c.max THEN Lowest(foreign) ELSE c.max
  BY DEF Truth
<1>7. CASE k = Attempts
  <2>1. g[k][from] = c.max
    BY <1>7 DEF Leg
  <2>2. foreign # {} => Cardinality(own) >= Attempts
    <3> SUFFICES ASSUME foreign # {} PROVE Cardinality(own) >= Attempts
      OBVIOUS
    <3>1. Cardinality(Before(line, from)) <= Cardinality(own)
      BY <1>4, <1>5, FS_Subset
    <3>2. Cardinality(own) \in Nat
      BY <1>4, FS_CardinalityType
    <3> QED  BY <1>0, <1>7, <3>1, <3>2
  <2> QED  BY <1>6, <2>1, <2>2
<1>8. CASE k # Attempts /\ Ahead(line, from) = {}
  <2>1. g[k][from] = c.max
    BY <1>8 DEF Leg
  <2>2. foreign = {}
    BY <1>3, <1>8 DEF Ahead
  <2> QED  BY <1>6, <2>1, <2>2
<1>9. CASE k # Attempts /\ Ahead(line, from) # {}
  <2>1. /\ s \in line /\ s.dist >= from /\ s.dist \in Nat
        /\ \A t \in line : t.dist >= from => s.dist <= t.dist
    BY <1>0, <1>9, FirstIsAhead DEF IsLine
  <2>2. g[k][from] = IF ~IsSelf(s.body, c.exclude) THEN IF s.dist < c.min \/ s.dist > c.max THEN c.max ELSE s.dist
                     ELSE IF s.dist + c.eps >= c.max THEN c.max ELSE g[k + 1][s.dist + c.eps]
    <3>1. g[k] = Leg(line, c.exclude, c.eps, c.min, c.max, c.max, k, g)
      OBVIOUS
    <3> QED  BY <1>9, <3>1, LegMeets
  <2> HIDE DEF s
  <2>3. CASE ~IsSelf(s.body, c.exclude)
    <3>1. s.dist \in foreign
      BY <2>1, <2>3
    <3>2. \A d \in foreign : s.dist <= d
      <4> SUFFICES ASSUME NEW t \in line, ~IsSelf(t.body, c.exclude) PROVE s.dist <= t.dist
        OBVIOUS
      <4>1. t.dist \in foreign
        OBVIOUS
      <4> QED  BY <1>3, <2>1, <4>1
    <3>3. Lowest(foreign) = s.dist
      <4> HIDE DEF foreign
      <4>1. Lowest(foreign) \in foreign /\ Lowest(foreign) <= s.dist /\ s.dist <= Lowest(foreign)
        BY <1>1, <3>1, <3>2
      <4>2. Lowest(foreign) \in Nat /\ s.dist \in Nat
        BY <1>2, <3>1, <4>1
      <4> QED  BY <4>1, <4>2
    <3>4. own \subseteq Before(line, from)
      <4> SUFFICES ASSUME NEW t \in line, t.dist < s.dist PROVE t.dist < from
        BY <3>3 DEF Before
      <4> QED  BY <1>0, <2>1 DEF IsLine
    <3>5. Cardinality(own) = k
      <4>1. own = Before(line, from)
        BY <1>5, <3>1, <3>4
      <4> QED  BY <4>1
    <3> HIDE DEF foreign, own
    <3>6. g[k][from] = IF s.dist < c.min \/ s.dist > c.max THEN c.max ELSE s.dist
      BY <2>2, <2>3
    <3>7. Truth(line, c) = IF c.min <= s.dist /\ s.dist <= c.max THEN s.dist ELSE c.max
      BY <1>0, <1>6, <1>9, <3>1, <3>3, <3>5
    <3> QED  BY <2>1, <3>6, <3>7
  <2>4. CASE IsSelf(s.body, c.exclude)
    <3> DEFINE x == s.dist + c.eps
    <3>1. \A t \in line : t.dist < x <=> t.dist < from \/ t = s
      <4> SUFFICES ASSUME NEW t \in line PROVE t.dist < x <=> t.dist < from \/ t = s
        OBVIOUS
      <4>1. t.dist \in Nat
        BY DEF IsLine
      <4>2. t # s /\ t.dist >= from => t.dist >= x
        BY <1>0, <2>1, <2>4, <4>1 DEF Apart
      <4> QED  BY <1>0, <2>1, <4>1, <4>2
    <3>2. Before(line, x) = Before(line, from) \cup {s} /\ s \notin Before(line, from)
      <4>1. s \notin Before(line, from)
        BY <1>0, <2>1 DEF Before
      <4> HIDE DEF x
      <4> QED  BY <2>1, <3>1, <4>1 DEF Before
    <3>3. \A t \in Before(line, x) : IsSelf(t.body, c.exclude)
      BY <2>4, <3>2
    <3>4. Cardinality(Before(line, x)) = k + 1
      BY <1>4, <3>2, FS_AddElement
    <3>5. CASE ~(x >= c.max)
      <4>1. x \in 0..c.max
        BY <1>0, <2>1, <3>5
      <4> HIDE DEF x
      <4>2. g[k + 1][x] = Truth(line, c)
        BY <1>9, <3>3, <3>4, <4>1
      <4> QED  BY <2>2, <2>4, <3>5, <4>2 DEF x
    <3>6. CASE x >= c.max
      <4>1. g[k][from] = c.max
        BY <2>2, <2>4, <3>6
      <4>2. \A d \in foreign : d >= c.max
        <5> SUFFICES ASSUME NEW t \in line, ~IsSelf(t.body, c.exclude) PROVE t.dist >= c.max
          OBVIOUS
        <5>1. ~(t.dist < x)
          BY <3>3 DEF Before
        <5> QED  BY <1>0, <2>1, <3>6, <5>1 DEF IsLine
      <4>3. foreign # {} => Lowest(foreign) >= c.max /\ Lowest(foreign) \in Nat
        <5> HIDE DEF foreign
        <5> QED  BY <1>1, <1>2, <4>2
      <4> HIDE DEF foreign, own
      <4> QED  BY <1>6, <4>1, <4>3
    <3> QED  BY <3>5, <3>6
  <2> QED  BY <2>3, <2>4
<1> QED
  BY <1>7, <1>8, <1>9

\* A beam of LiDAR2DSensor reads the nearest surface that is not the vehicle's.
LEMMA CastRayReadsTruth ==
  ASSUME LidarAssumption, NEW line, IsLine(line), NEW c, c.max \in Nat, c.min \in Int, c.eps \in Nat \ {0}, Apart(line, c)
  PROVE  CastRay(line, c) = Truth(line, c)
<1>0. Attempts \in Nat
  BY DEF LidarAssumption
<1>1. PICK g : /\ \A k \in 0..Attempts : g[k] = Leg(line, c.exclude, c.eps, c.min, c.max, c.max, k, g)
               /\ CastRay(line, c) = g[0][0]
  BY CastRayIs
<1> DEFINE Reads(k) == \A x \in 0..c.max :
             /\ \A s \in Before(line, x) : IsSelf(s.body, c.exclude)
             /\ Cardinality(Before(line, x)) = k
             => g[k][x] = Truth(line, c)
           Bad == {n \in 0..Attempts : ~Reads(Attempts - n)}
<1>2. ASSUME NEW k \in 0..Attempts, k # Attempts => Reads(k + 1) PROVE Reads(k)
  BY <1>1, <1>2, LegReadsTruth
<1>3. Bad = {}
  <2> SUFFICES ASSUME Bad # {} PROVE FALSE
    OBVIOUS
  <2>1. PICK n \in Bad : \A m \in Bad : n <= m
    <3>1. Bad \in SUBSET Nat
      BY <1>0
    <3> HIDE DEF Bad
    <3> QED  BY <3>1, NatHasLeast
  <2> DEFINE k == Attempts - n
  <2>2. k \in 0..Attempts /\ ~Reads(k) /\ n \in 0..Attempts
    BY <1>0
  <2>3. k # Attempts => n - 1 \in 0..Attempts /\ n - 1 \notin Bad /\ Attempts - (n - 1) = k + 1
    <3>1. k # Attempts => n - 1 \in 0..Attempts /\ Attempts - (n - 1) = k + 1 /\ ~(n <= n - 1)
      BY <1>0, <2>2
    <3> HIDE DEF Bad, k
    <3> QED  BY <2>1, <3>1
  <2>4. k # Attempts => Reads(k + 1)
    <3> HIDE DEF Reads, k
    <3> QED  BY <2>3
  <2> HIDE DEF Reads, k
  <2> QED  BY <1>2, <2>2, <2>4
<1>4. Reads(0)
  <2>1. Attempts \in 0..Attempts /\ Attempts - Attempts = 0
    BY <1>0
  <2> HIDE DEF Reads
  <2> QED  BY <1>3, <2>1
<1>5. Before(line, 0) = {} /\ Cardinality({}) = 0 /\ 0 \in 0..c.max
  BY FS_EmptySet DEF IsLine, Before
<1> QED
  BY <1>1, <1>4, <1>5

\* The scene is one of the scenes, the frames belong to a configuration, and those
\* a configuration that can be scanned has left are what its scan of the scene reads.
Scanned(c) == c.body \in DOMAIN Parent /\ c.step > 0
SceneInv ==
  /\ space \in Scenes /\ planar \in Configs2D /\ DOMAIN scanFrame = {"stamp", "of", "ranges"}
  /\ plainFrame.of \in Configs2D /\ Scanned(plainFrame.of) /\ scanFrame.ranges # << >> =>
       \E r \in Readings(plainFrame.of, space) :
         scanFrame.ranges = Padded(plainFrame.of, [i \in 1..RayCount(plainFrame.of) |-> AtMost(r[i], plainFrame.of.max)])

\* Before the first scan no frame has ranges.
LEMMA SceneStart == LidarAssumption /\ LidarInit => SceneInv
BY DEF LidarAssumption, LidarInit, SceneInv, EmptyFrame

\* A scan reads the scene it is made in; a change of configuration leaves frames alone.
LEMMA SceneStep ==
  ASSUME LidarAssumption, SceneInv, [LidarNext]_lidarVars
  PROVE  SceneInv'
<1>1. CASE ScanAll
  <2>1. PICK s \in Scenes : space' = s /\ Scan2D(s) /\ ScanPlain(s)
    BY <1>1 DEF ScanAll
  <2>2. planar' = planar /\ plainFrame'.of = planar
    BY <1>1, <2>1 DEF ScanAll, ScanPlain
  <2>3. CASE Scanned(planar)
    <3>1. \E r \in Readings(planar, s) :
            scanFrame' = [stamp |-> scanFrame.stamp + 1, of |-> planar,
                          ranges |-> Padded(planar, [i \in 1..RayCount(planar) |-> AtMost(r[i], planar.max)])]
      BY <2>1, <2>3 DEF Scan2D, Scanned
    <3>2. PICK r \in Readings(planar, s) :
            scanFrame' = [stamp |-> scanFrame.stamp + 1, of |-> planar,
                          ranges |-> Padded(planar, [i \in 1..RayCount(planar) |-> AtMost(r[i], planar.max)])]
      BY <3>1
    <3>3. /\ DOMAIN scanFrame' = {"stamp", "of", "ranges"}
          /\ scanFrame'.ranges = Padded(planar, [i \in 1..RayCount(planar) |-> AtMost(r[i], planar.max)])
      BY <3>2
    <3>4. r \in Readings(planar, space')
      BY <2>1
    <3>5. space' \in Scenes /\ planar' \in Configs2D
      BY <2>1, <2>2 DEF SceneInv
    <3> QED  BY <2>2, <3>3, <3>4, <3>5 DEF SceneInv
  <2>4. CASE ~Scanned(planar)
    <3>1. scanFrame' = [scanFrame EXCEPT !.stamp = @ + 1]
      BY <2>1, <2>4 DEF Scan2D, Scanned, ReturnsEarly
    <3>2. DOMAIN scanFrame' = {"stamp", "of", "ranges"}
      BY <3>1 DEF SceneInv
    <3> QED  BY <2>1, <2>2, <2>4, <3>2 DEF SceneInv
  <2> QED  BY <2>3, <2>4
<1>2. CASE Reload2D
  BY <1>2 DEF Reload2D, SceneInv
<1>3. CASE Reload3D
  BY <1>3 DEF Reload3D, SceneInv
<1>4. CASE UNCHANGED lidarVars
  BY <1>4 DEF lidarVars, SceneInv
<1> QED
  BY <1>1, <1>2, <1>3, <1>4 DEF LidarNext

\* A reading is moved by no more than the noise of its range, and stays in range.
LEMMA MovedByNoise ==
  ASSUME LidarAssumption, NEW t \in Int, NEW max \in Int, t <= max, NEW rules, NEW n, n \in Int, t + n \in Noisy(t, rules)
  PROVE  /\ Gap(AtMost(t + n, max), t) <= (IF RuleFor(t, rules).type = "none" THEN 0 ELSE Spread)
         /\ AtMost(t + n, max) <= max
<1>0. Spread \in Nat
  BY DEF LidarAssumption
<1>1. t + n = t \/ t + n \in (t - Spread)..(t + Spread)
  BY DEF Noisy
<1>2. RuleFor(t, rules).type = "none" => t + n = t
  BY DEF Noisy
<1> QED
  BY <1>0, <1>1, <1>2 DEF Gap, AtMost

\* What there is to see is never beyond the range.
LEMMA TruthInRange ==
  ASSUME NEW line, IsLine(line), NEW c, c.max \in Nat, c.min \in Int
  PROVE  Truth(line, c) \in Nat /\ Truth(line, c) <= c.max
<1> DEFINE foreign == {s.dist : s \in {t \in line : ~IsSelf(t.body, c.exclude)}}
<1>1. foreign \in SUBSET Nat
  BY DEF IsLine
<1>2. foreign # {} => Lowest(foreign) \in Nat
  <2> HIDE DEF foreign
  <2>1. foreign # {} => Lowest(foreign) \in foreign
    BY <1>1, NatHasLeast DEF Lowest
  <2> QED  BY <1>1, <2>1
<1>3. \/ Truth(line, c) = c.max
      \/ foreign # {} /\ Truth(line, c) = Lowest(foreign) /\ Lowest(foreign) <= c.max
  BY DEF Truth
<1> HIDE DEF foreign
<1> QED
  BY <1>2, <1>3

\* The ith reading of a padded frame.
LEMMA BehindPadding ==
  ASSUME NEW c, c.pad \in Nat, NEW n \in Nat, NEW q, q = [i \in 1..n |-> q[i]], NEW i \in 1..n
  PROVE  Padded(c, q)[c.pad + i] = q[i]
<1> DEFINE pad == [j \in 1..c.pad |-> c.blind]
           S   == {c.blind} \cup {q[j] : j \in 1..n}
<1>1. pad \in Seq(S) /\ Len(pad) = c.pad
  OBVIOUS
<1>2. q \in Seq(S) /\ Len(q) = n
  <2>1. [j \in 1..n |-> q[j]] \in Seq(S) /\ Len([j \in 1..n |-> q[j]]) = n
    OBVIOUS
  <2> HIDE DEF S
  <2> QED  BY <2>1
<1> HIDE DEF pad, S
<1>3. (pad \o q)[c.pad + i] = q[i]
  <2>1. c.pad + i \in 1..(Len(pad) + Len(q)) /\ c.pad + i > Len(pad) /\ c.pad + i - Len(pad) = i
    BY <1>1, <1>2
  <2> QED  BY <1>1, <1>2, <2>1, ConcatProperties
<1> QED
  BY <1>3 DEF Padded, pad

\* A line of a scene, or none where the scene has no surfaces.
LEMMA LinesAreLines ==
  ASSUME LidarAssumption, NEW scene \in Scenes, NEW d
  PROVE  IsLine(Line(scene, d))
<1>1. CASE d \in DOMAIN scene
  BY <1>1 DEF LidarAssumption, Line, IsLine
<1>2. CASE d \notin DOMAIN scene
  BY <1>2, FS_EmptySet DEF Line, IsLine
<1> QED
  BY <1>1, <1>2

\* Every range of a scan is the echo on its line, moved by no more than its noise.
LEMMA SceneIsRead == LidarAssumption /\ SceneInv => ReadingsAreEchoes
<1> SUFFICES ASSUME LidarAssumption, SceneInv,
                    scanFrame.ranges # << >>, scanFrame.of = planar, plainFrame.of = planar,
                    planar.step > 0, planar.body \in DOMAIN Parent, NEW i \in 1..RayCount(planar),
                    Apart(Line(space, BeamYaw(planar, i) + planar.bias), planar)
             PROVE  LET r == scanFrame.ranges[planar.pad + i]
                        t == Truth(Line(space, BeamYaw(planar, i) + planar.bias), planar)
                    IN /\ Gap(r, t) <= (IF RuleFor(t, planar.rules).type = "none" THEN 0 ELSE Spread)
                       /\ r <= planar.max
  BY DEF ReadingsAreEchoes
<1> DEFINE c == planar
           line == Line(space, BeamYaw(c, i) + c.bias)
           t == Truth(line, c)
<1>1. /\ c \in Configs2D /\ space \in Scenes /\ c.pad \in Nat /\ c.max \in Nat /\ c.min \in Int /\ c.step \in Int
      /\ c.eps \in Nat \ {0}
  BY DEF SceneInv, LidarAssumption
<1>2. PICK r \in Readings(c, space) :
        scanFrame.ranges = Padded(c, [j \in 1..RayCount(c) |-> AtMost(r[j], c.max)])
  BY DEF SceneInv, Scanned
<1>3. RayCount(c) \in Nat
  BY <1>1 DEF RayCount, AtLeastOne, LidarAssumption
<1>4. IsLine(line) /\ CastRay(line, c) = t /\ t \in Nat /\ t <= c.max
  <2>1. IsLine(line) /\ Apart(line, c)
    BY <1>1, LinesAreLines
  <2> HIDE DEF line
  <2> QED  BY <1>1, <2>1, CastRayReadsTruth, TruthInRange
<1>5. PICK n \in Int : r[i] = t + n /\ t + n \in Noisy(t, c.rules)
  <2> DEFINE clean == [j \in 1..RayCount(c) |-> CastRay(Line(space, BeamYaw(c, j) + c.bias), c)]
  <2>1. PICK n \in [1..RayCount(c) -> (-Spread)..Spread] :
          /\ \A j \in 1..RayCount(c) : clean[j] + n[j] \in Noisy(clean[j], c.rules)
          /\ r = [j \in 1..RayCount(c) |-> clean[j] + n[j]]
    BY <1>2 DEF Readings
  <2>2. clean[i] = t
    BY <1>4
  <2>3. n[i] \in Int
    BY DEF LidarAssumption
  <2> HIDE DEF clean
  <2> QED  BY <2>1, <2>2, <2>3
<1>6. scanFrame.ranges[c.pad + i] = AtMost(t + n, c.max)
  <2> DEFINE q == [j \in 1..RayCount(c) |-> AtMost(r[j], c.max)]
  <2>1. q = [j \in 1..RayCount(c) |-> q[j]] /\ q[i] = AtMost(r[i], c.max)
    OBVIOUS
  <2>2. scanFrame.ranges = Padded(c, q)
    BY <1>2
  <2>0. i \in 1..RayCount(c)
    OBVIOUS
  <2> HIDE DEF q, c, t
  <2>3. Padded(c, q)[c.pad + i] = q[i]
    BY <1>1, <1>3, <2>0, <2>1, BehindPadding
  <2> QED  BY <1>5, <2>1, <2>2, <2>3
<1> HIDE DEF t
<1>7. /\ Gap(AtMost(t + n, c.max), t) <= (IF RuleFor(t, c.rules).type = "none" THEN 0 ELSE Spread)
      /\ AtMost(t + n, c.max) <= c.max
  <2>1. t \in Int /\ c.max \in Int
    BY <1>1, <1>4
  <2> QED  BY <1>4, <1>5, <2>1, MovedByNoise
<1> QED
  BY <1>6, <1>7 DEF t

\* The two ray casters agree on every line.
LEMMA SceneIsSame == LidarAssumption /\ SceneInv => CastersAgree
<1> SUFFICES ASSUME LidarAssumption, SceneInv, NEW d \in DOMAIN space,
                    planar.eps = Epsilon \/ Apart(space[d], planar)
             PROVE  CastRay(space[d], planar) =
                      InRange(Cast(space[d], planar.exclude, planar.max), planar.min, planar.max)
  BY DEF CastersAgree
<1> DEFINE c == [min |-> planar.min, max |-> planar.max, exclude |-> planar.exclude, eps |-> Epsilon]
<1>1. /\ IsLine(space[d]) /\ planar.max \in Nat /\ planar.min \in Int
      /\ Epsilon \in Nat \ {0} /\ planar.eps \in Nat /\ planar.eps >= Epsilon
  BY DEF SceneInv, LidarAssumption, IsLine
<1>2. CASE planar.eps = Epsilon
  BY <1>1, <1>2, SameRay
<1>3. CASE Apart(space[d], planar)
  <2>1. CastRay(space[d], planar) = Truth(space[d], planar)
    BY <1>1, <1>3, CastRayReadsTruth
  <2>2. Apart(space[d], c)
    <3>1. \A s \in space[d] : s.dist \in Nat
      BY <1>1 DEF IsLine
    <3> QED  BY <1>1, <1>3, <3>1 DEF Apart
  <2>3. CastRay(space[d], c) = Truth(space[d], c)
    BY <1>1, <2>2, CastRayReadsTruth
  <2>4. Truth(space[d], c) = Truth(space[d], planar)
    BY DEF Truth
  <2>5. CastRay(space[d], c) = InRange(Cast(space[d], c.exclude, c.max), c.min, c.max)
    BY <1>1, SameRay
  <2> QED  BY <2>1, <2>3, <2>4, <2>5
<1> QED
  BY <1>2, <1>3

(***************************************************************************)
(* The 2D LiDAR reports the nearest surface that is not its own, in every  *)
(* direction, for scenes of any number of surfaces that a ray can tell     *)
(* apart: the casts that restart behind one of its own end at the right    *)
(* one, and both ray casters at the same.                                  *)
(***************************************************************************)
THEOREM SceneIsSeen ==
  ASSUME LidarAssumption
  PROVE  LidarSpec => []ScansSeeTheScene
<1>1. SceneInv => ScansSeeTheScene
  BY SceneIsRead, SceneIsSame DEF ScansSeeTheScene
<1> QED
  BY <1>1, SceneStart, SceneStep, PTL DEF LidarSpec
=============================================================================
