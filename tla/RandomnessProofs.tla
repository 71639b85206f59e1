-------------------------- MODULE RandomnessProofs --------------------------
(***************************************************************************)
(* What the sensors' randomness may and may not connect: the axes of the   *)
(* inertial sensor (ImuSensor, GaussianNoise), and the scans of the radar  *)
(* (RadarScan).  A generator is a counter that only grows, so the noise of two *)
(* samples differs; and what a draw comes to never changes, so two scans with *)
(* the same draws are the same, which needs their whole histories.         *)
(***************************************************************************)
EXTENDS ImuSensor, RadarScan, SequenceTheorems, WellFoundedInduction, TLAPS

(***************************************************************************)
(* The inertial sensor                                                     *)
(***************************************************************************)
\* The generator of an axis, and what it can be made to give.
SeedOf(a) == Derive(0, "axis_noise", a)
\* Every variate the generator of an axis can give.
VariatesOf(a) == {<<SeedOf(a), n, k>> : n \in Nat, k \in {1, 2}}
\* One of them, or none.
MaybeOf(a) == VariatesOf(a) \cup {NoVariate}

\* The models of one axis: its own generator, and biases drawn from it.
ModelsOf(a) ==
  [seed : {SeedOf(a)}, at : Nat, spare : MaybeOf(a), initialized : BOOLEAN,
   static : MaybeOf(a), dynamic : SUBSET VariatesOf(a)]

\* A noise that was drawn before this pair, and not before that one.
NoiseBetween(v, a, lo, hi) ==
  v = NoVariate \/ \E n \in Nat : v = <<SeedOf(a), n, 1>> /\ lo <= n /\ n < hi

\* A sample is made of variates of its own axis.
SampleOf(x, a) == x.static \in MaybeOf(a) /\ x.noise \in MaybeOf(a) /\ x.dynamic \subseteq VariatesOf(a)

\* The two variates of the next pair come from the axis' own generator.
LEMMA FirstIs ==
  ASSUME NEW a, NEW m \in ModelsOf(a)
  PROVE  /\ First(m) = <<SeedOf(a), m.at, 1>> /\ Second(m) = <<SeedOf(a), m.at, 2>>
         /\ First(m) \in VariatesOf(a) /\ Second(m) \in VariatesOf(a)
<1>1. m.seed = SeedOf(a) /\ m.at \in Nat
  BY DEF ModelsOf
<1>2. First(m) = <<SeedOf(a), m.at, 1>> /\ Second(m) = <<SeedOf(a), m.at, 2>>
  BY <1>1 DEF First, Second
<1> QED
  BY <1>1, <1>2 DEF VariatesOf

\* Drawing a bias stays within the axis and never goes back in its generator.
LEMMA DrawnFromAxis ==
  ASSUME NEW a, NEW m \in ModelsOf(a), NEW p
  PROVE  /\ DrawStatic(m, p) \in ModelsOf(a) /\ DrawStatic(m, p).at >= m.at
         /\ DrawDynamic(m, p) \in ModelsOf(a) /\ DrawDynamic(m, p).at >= m.at
<1>1. /\ First(m) \in VariatesOf(a) /\ Second(m) \in VariatesOf(a)
      /\ First(m) \in MaybeOf(a) /\ Second(m) \in MaybeOf(a) /\ NoVariate \in MaybeOf(a)
  BY FirstIs DEF MaybeOf
<1>2. m.at \in Nat /\ m.at + 1 \in Nat /\ m.at + 1 >= m.at
  BY DEF ModelsOf
<1>3. m.spare \in MaybeOf(a) /\ m.dynamic \in SUBSET VariatesOf(a)
  BY DEF ModelsOf
<1>4. DrawStatic(m, p) \in ModelsOf(a) /\ DrawStatic(m, p).at >= m.at
  <2>1. CASE m.initialized
    BY <2>1 DEF DrawStatic, ModelsOf
  <2>2. CASE ~m.initialized /\ p.bias
    <3>1. PICK n \in Nat, v \in MaybeOf(a) : n = m.at + 1 /\ v = First(m)
      BY <1>1, <1>2
    <3>2. DrawStatic(m, p) = [m EXCEPT !.initialized = TRUE, !.static = v, !.at = n]
      BY <2>2, <3>1 DEF DrawStatic
    <3> QED  BY <1>2, <3>1, <3>2 DEF ModelsOf
  <2>3. CASE ~m.initialized /\ ~p.bias
    <3>1. DrawStatic(m, p) = [m EXCEPT !.initialized = TRUE]
      BY <2>3 DEF DrawStatic
    <3>2. [m EXCEPT !.initialized = TRUE] \in ModelsOf(a)
      BY DEF ModelsOf
    <3>3. DrawStatic(m, p).at = m.at
      BY <3>1 DEF ModelsOf
    <3> QED  BY <1>2, <3>1, <3>2, <3>3
  <2> QED  BY <2>1, <2>2, <2>3
<1>5. DrawDynamic(m, p) \in ModelsOf(a) /\ DrawDynamic(m, p).at >= m.at
  <2>1. CASE ~p.walk
    BY <2>1 DEF DrawDynamic, ModelsOf
  <2>2. CASE p.walk /\ m.spare # NoVariate
    <3>1. PICK d \in SUBSET VariatesOf(a), v \in MaybeOf(a) :
            d = m.dynamic \cup {m.spare} /\ v = NoVariate
      BY <1>1, <1>3, <2>2 DEF MaybeOf
    <3>2. DrawDynamic(m, p) = [m EXCEPT !.dynamic = d, !.spare = v]
      BY <2>2, <3>1 DEF DrawDynamic
    <3>3. [m EXCEPT !.dynamic = d, !.spare = v] \in ModelsOf(a)
      BY DEF ModelsOf
    <3>4. DrawDynamic(m, p).at = m.at
      BY <3>2 DEF ModelsOf
    <3> QED  BY <1>2, <3>2, <3>3, <3>4
  <2>3. CASE p.walk /\ ~(m.spare # NoVariate)
    <3>1. PICK d \in SUBSET VariatesOf(a), v \in MaybeOf(a), n \in Nat :
            d = m.dynamic \cup {First(m)} /\ v = Second(m) /\ n = m.at + 1
      BY <1>1, <1>2, <1>3
    <3>2. DrawDynamic(m, p) = [m EXCEPT !.dynamic = d, !.spare = v, !.at = n]
      BY <2>3, <3>1 DEF DrawDynamic
    <3> QED  BY <1>2, <3>1, <3>2 DEF ModelsOf
  <2> QED  BY <2>1, <2>2, <2>3
<1> QED
  BY <1>4, <1>5

\* Apply (gaussian_noise.cpp): the sample is made of variates of its own axis,
\* and its noise is drawn between where the generator was and where it is now.
LEMMA ApplyDraws ==
  ASSUME NEW a, NEW m \in ModelsOf(a), NEW p
  PROVE  LET r == Apply(m, p)
         IN /\ r.model \in ModelsOf(a) /\ r.model.at >= m.at
            /\ SampleOf(r.sample, a)
            /\ NoiseBetween(r.sample.noise, a, m.at, r.model.at)
<1> DEFINE r == Apply(m, p)
           drawn == DrawDynamic(DrawStatic(m, p), p)
<1>1. CASE p.type = "none"
  BY <1>1 DEF Apply, Sample, NewModel, SampleOf, MaybeOf, NoiseBetween, ModelsOf
<1>2. CASE p.type # "none"
  <2>1. DrawStatic(m, p) \in ModelsOf(a) /\ DrawStatic(m, p).at >= m.at
    BY DrawnFromAxis
  <2>2. drawn \in ModelsOf(a) /\ drawn.at >= DrawStatic(m, p).at
    BY <2>1, DrawnFromAxis
  <2>3. drawn.at >= m.at /\ m.at \in Nat /\ drawn.at \in Nat
    BY <2>1, <2>2 DEF ModelsOf
  <2>4. First(drawn) = <<SeedOf(a), drawn.at, 1>> /\ First(drawn) \in VariatesOf(a)
    BY <2>2, FirstIs
  <2>5. /\ r.model = IF p.noise THEN [drawn EXCEPT !.at = @ + 1] ELSE drawn
        /\ r.sample = [static |-> drawn.static, dynamic |-> drawn.dynamic,
                       noise |-> IF p.noise THEN First(drawn) ELSE NoVariate]
    BY <1>2 DEF Apply, Sample
  <2> HIDE DEF drawn, r
  <2>6. r.model \in ModelsOf(a) /\ r.model.at = IF p.noise THEN drawn.at + 1 ELSE drawn.at
    BY <2>2, <2>3, <2>5 DEF ModelsOf
  <2>7. SampleOf(r.sample, a)
    BY <2>2, <2>4, <2>5 DEF ModelsOf, SampleOf, MaybeOf
  <2>8. NoiseBetween(r.sample.noise, a, m.at, r.model.at)
    BY <2>3, <2>4, <2>5, <2>6 DEF NoiseBetween
  <2> QED  BY <2>3, <2>6, <2>7, <2>8 DEF r
<1> QED
  BY <1>1, <1>2
-----------------------------------------------------------------------------
\* The previous velocity is as old as the wait says.
VelocityInv ==
  /\ velocity \in Int /\ prevVelocity \in Int /\ acceleration \in Int /\ waited \in Nat
  /\ hasPrev /\ waited = 0 => velocity = prevVelocity
  /\ hasPrev /\ waited = 1 => velocity - prevVelocity \in -MaxChange..MaxChange
  /\ AccelerationPossible

\* The noise of a sample and of those before it was drawn in this order.
AxisInv(s, a) ==
  /\ pipelines[s][a] \in ModelsOf(a)
  /\ SampleOf(samples[s][a], a)
  /\ \A v \in earlier[s][a] \cup {samples[s][a].noise} : NoiseBetween(v, a, 0, pipelines[s][a].at)
  /\ samples[s][a].noise # NoVariate => samples[s][a].noise \notin earlier[s][a]

\* What every step of the inertial sensor keeps.
ImuInv ==
  /\ VelocityInv
  /\ DOMAIN pipelines = Streams /\ \A s \in Streams : DOMAIN pipelines[s] = Axes
  /\ \A s \in Streams, a \in Axes : AxisInv(s, a)

\* The pipelines LoadConfig makes have one generator per axis.
LEMMA NewPipelinesAre ==
  /\ DOMAIN NewPipelines = Streams /\ \A s \in Streams : DOMAIN NewPipelines[s] = Axes
  /\ \A s \in Streams, a \in Axes : NewPipelines[s][a] \in ModelsOf(a)
<1>1. \A a : Reseed(NewModel, SeedOf(a)) \in ModelsOf(a)
  BY DEF Reseed, NewModel, Clear, ModelsOf, MaybeOf
<1> QED
  BY <1>1 DEF NewPipelines, Pipeline, SeedOf

\* Before the first sample nothing has been drawn.
LEMMA NoSampleIs ==
  ASSUME NEW s \in Streams, NEW a \in Axes
  PROVE  SampleOf(NoSample[s][a], a) /\ NoSample[s][a].noise = NoVariate
BY DEF NoSample, Sample, NewModel, SampleOf, MaybeOf

\* ImuInv holds at the start.
LEMMA ImuStart == ImuInit /\ ImuAssumption => ImuInv
<1> SUFFICES ASSUME ImuInit, ImuAssumption PROVE ImuInv
  OBVIOUS
<1>1. VelocityInv
  BY DEF ImuInit, VelocityInv, AccelerationPossible, ImuAssumption
<1>2. ASSUME NEW s \in Streams, NEW a \in Axes PROVE AxisInv(s, a)
  BY NewPipelinesAre, NoSampleIs DEF ImuInit, AxisInv, NoiseBetween
<1> QED
  BY <1>1, <1>2, NewPipelinesAre DEF ImuInit, ImuInv

\* Every step of the inertial sensor keeps ImuInv; Build is the one that draws.
LEMMA ImuStep ==
  ASSUME ImuAssumption, ImuInv, [ImuNext]_imuVars
  PROVE  ImuInv'
<1>1. ASSUME NEW p, LoadConfig(p) PROVE ImuInv'
  <2>1. VelocityInv'
    BY <1>1 DEF LoadConfig, ImuInv, VelocityInv, AccelerationPossible
  <2>2. ASSUME NEW s \in Streams, NEW a \in Axes PROVE AxisInv(s, a)'
    BY <1>1, NewPipelinesAre, NoSampleIs DEF LoadConfig, AxisInv, NoiseBetween
  <2> QED  BY <1>1, <2>1, <2>2, NewPipelinesAre DEF LoadConfig, ImuInv
<1>2. CASE Move
  <2>1. VelocityInv'
    BY <1>2 DEF Move, ImuInv, VelocityInv, AccelerationPossible, Velocities, ImuAssumption
  <2>2. UNCHANGED <<pipelines, samples, earlier>>
    BY <1>2 DEF Move
  <2> QED  BY <2>1, <2>2 DEF ImuInv, AxisInv
<1>3. CASE Build
  <2> DEFINE applied(s, a) == Apply(pipelines[s][a], imuParams[s])
  <2>1. VelocityInv'
    <3>1. /\ waited > 0 /\ waited' = 0 /\ velocity' = velocity /\ prevVelocity' = velocity
          /\ acceleration' = (IF hasPrev THEN velocity - prevVelocity ELSE 0)
          /\ late' = (hasPrev /\ waited > 1)
      BY <1>3 DEF Build
    <3>2. VelocityInv /\ MaxChange \in Nat
      BY DEF ImuInv, ImuAssumption
    <3>3. acceleration' \in Int /\ velocity \in Int /\ waited \in Nat
      BY <3>1, <3>2 DEF VelocityInv
    <3>4. ~late' => acceleration' \in -MaxChange..MaxChange
      <4>1. CASE ~hasPrev
        BY <3>1, <3>2, <4>1
      <4>2. CASE hasPrev /\ waited = 1
        BY <3>1, <3>2, <4>2 DEF VelocityInv
      <4>3. CASE hasPrev /\ waited > 1
        BY <3>1, <4>3
      <4> QED  BY <3>1, <3>3, <4>1, <4>2, <4>3
    <3> QED  BY <3>1, <3>3, <3>4 DEF VelocityInv, AccelerationPossible
  <2>2. /\ pipelines' = [s \in Streams |-> [a \in Axes |-> applied(s, a).model]]
        /\ samples' = [s \in Streams |-> [a \in Axes |-> applied(s, a).sample]]
        /\ earlier' = [s \in Streams |-> [a \in Axes |-> earlier[s][a] \cup {samples[s][a].noise}]]
    <3>1. \A s \in Streams : DOMAIN pipelines[s] = Axes
      BY DEF ImuInv
    <3> QED  BY <1>3, <3>1 DEF Build, PipelineApply
  <2>3. ASSUME NEW s \in Streams, NEW a \in Axes PROVE AxisInv(s, a)'
    <3> DEFINE m == pipelines[s][a]
               r == applied(s, a)
    <3>1. AxisInv(s, a) /\ m \in ModelsOf(a) /\ m.at \in Nat
      BY DEF ImuInv, AxisInv, ModelsOf
    <3>2. /\ r.model \in ModelsOf(a) /\ r.model.at >= m.at /\ SampleOf(r.sample, a)
          /\ NoiseBetween(r.sample.noise, a, m.at, r.model.at)
      BY <3>1, ApplyDraws
    <3>3. r.model.at \in Nat
      BY <3>2 DEF ModelsOf
    <3>4. /\ pipelines'[s][a] = r.model /\ samples'[s][a] = r.sample
          /\ earlier'[s][a] = earlier[s][a] \cup {samples[s][a].noise}
      BY <2>2
    <3> HIDE DEF r, m
    <3>5. \A v \in earlier'[s][a] : NoiseBetween(v, a, 0, m.at)
      BY <3>1, <3>4 DEF AxisInv, m
    <3>6. \A v \in earlier'[s][a] \cup {r.sample.noise} : NoiseBetween(v, a, 0, r.model.at)
      BY <3>1, <3>2, <3>3, <3>5 DEF NoiseBetween
    <3>7. r.sample.noise # NoVariate => r.sample.noise \notin earlier'[s][a]
      BY <3>1, <3>2, <3>3, <3>5 DEF NoiseBetween
    <3> QED  BY <3>2, <3>4, <3>6, <3>7 DEF AxisInv
  <2> QED  BY <2>1, <2>2, <2>3 DEF ImuInv
<1>4. CASE ResetImu
  <2>1. VelocityInv'
    BY <1>4 DEF ResetImu, ImuInv, VelocityInv, AccelerationPossible
  <2>2. /\ pipelines' = [s \in Streams |-> [a \in Axes |-> Clear(pipelines[s][a])]]
        /\ UNCHANGED <<samples, earlier>>
    <3>1. \A s \in Streams : DOMAIN pipelines[s] = Axes
      BY DEF ImuInv
    <3> QED  BY <1>4, <3>1 DEF ResetImu, PipelineReset
  <2>3. ASSUME NEW s \in Streams, NEW a \in Axes PROVE AxisInv(s, a)'
    <3>1. AxisInv(s, a) /\ pipelines'[s][a] = Clear(pipelines[s][a])
      BY <2>2 DEF ImuInv
    <3>2. Clear(pipelines[s][a]) \in ModelsOf(a) /\ Clear(pipelines[s][a]).at = pipelines[s][a].at
      BY <3>1 DEF AxisInv, Clear, ModelsOf, MaybeOf
    <3> QED  BY <2>2, <3>1, <3>2 DEF AxisInv
  <2> QED  BY <2>1, <2>2, <2>3 DEF ImuInv
<1>5. CASE UNCHANGED imuVars
  BY <1>5 DEF imuVars, body, ImuInv, VelocityInv, AccelerationPossible, AxisInv
<1> QED
  BY <1>1, <1>2, <1>3, <1>4, <1>5 DEF ImuNext

(***************************************************************************)
(* What the inertial sensor reports is one sample: an acceleration no larger *)
(* than the body's when the builds kept pace, no noise used twice, and no  *)
(* variate shared by two axes.                                             *)
(***************************************************************************)
THEOREM SamplesAreSound ==
  ASSUME ImuAssumption
  PROVE  ImuSpec => []SamplesSound
<1>1. ImuInv => SamplesSound
  <2> SUFFICES ASSUME ImuInv PROVE SamplesSound
    OBVIOUS
  <2>1. AccelerationPossible
    BY DEF ImuInv, VelocityInv
  <2>2. NoiseNeverRepeats
    BY DEF ImuInv, AxisInv, NoiseNeverRepeats
  <2>3. PipelineAxesIndependent
    <3> SUFFICES ASSUME NEW s \in Streams, NEW a \in Axes, NEW b \in Axes, a # b,
                        NEW v \in Variates(samples[s][a]), v \in Variates(samples[s][b])
                 PROVE  FALSE
      BY DEF PipelineAxesIndependent
    <3>1. SampleOf(samples[s][a], a) /\ SampleOf(samples[s][b], b)
      BY DEF ImuInv, AxisInv
    <3>2. v \in VariatesOf(a) /\ v \in VariatesOf(b)
      BY <3>1 DEF SampleOf, MaybeOf, Variates
    <3>3. v[1] = SeedOf(a) /\ v[1] = SeedOf(b)
      BY <3>2 DEF VariatesOf
    <3>4. SeedOf(a)[3] = a /\ SeedOf(b)[3] = b
      BY DEF SeedOf, Derive
    <3> QED  BY <3>3, <3>4
  <2> QED  BY <2>1, <2>2, <2>3 DEF SamplesSound
<1> QED
  BY <1>1, ImuStart, ImuStep, PTL DEF ImuSpec
-----------------------------------------------------------------------------
(***************************************************************************)
(* The radar                                                               *)
(***************************************************************************)
\* A set of numbers that is not empty has a least one.
LEMMA NatHasLeast ==
  ASSUME NEW S \in SUBSET Nat, S # {}
  PROVE  \E x \in S : \A y \in S : x <= y
<1> DEFINE R == {ss \in Nat \X Nat : ss[1] < ss[2]}
<1>1. IsWellFoundedOn(R, Nat)
  BY NatLessThanWellFounded DEF OpToRel
<1>2. PICK x \in S : \A y \in S : <<y, x>> \notin R
  BY <1>1, WFMin
<1>3. \A y \in S : x <= y
  <2> SUFFICES ASSUME NEW y \in S, ~(x <= y)
               PROVE  FALSE
    OBVIOUS
  <2>1. y \in Nat /\ x \in Nat /\ y < x
    OBVIOUS
  <2>2. <<y, x>> \in R
    BY <2>1
  <2> QED  BY <1>2, <2>2
<1> QED
  BY <1>3
-----------------------------------------------------------------------------
\* What a scan changes, and where the scans after a reset begin.
Detections == [kind : {"target", "alarm"}, direction : Nat, range : Nat, velocity : Nat]
Frames == [detections : Seq(Detections), targets : Nat, detected : Nat, empty : Nat, alarms : Nat]
States == [rng : Nat, effects : Nat, range : Nat, frame : Frames]

\* The part of the radar's state a scan changes, and what a reset makes of it.
Now == [rng |-> rng, effects |-> effectsRng, range |-> rangeRng, frame |-> frame]
Start == [rng |-> 0, effects |-> 0, range |-> 0, frame |-> EmptyScan]
\* A scan begins with an empty frame.
Blank(s) == [s EXCEPT !.frame = EmptyScan]

\* The detections come from rays cast one after the other, all before draw n.
InOrder(ds, n) ==
  /\ \A i \in DOMAIN ds : ds[i].direction < n
  /\ \A i, j \in DOMAIN ds : i < j => ds[i].direction < ds[j].direction

\* States a radar can be in.
Sound(s) == s \in States /\ InOrder(s.frame.detections, s.rng)

\* What one ray makes of a state, if the draws come to what O says.
Drew(O, c, stream, at, v) == <<<<c.seed, stream, at>>, v>> \in O

\* The four outcomes of a ray, each as a relation of the state before and after.
Missed(c, O, s, t) ==
  /\ Drew(O, c, "ray", s.rng, "empty")
  /\ c.effects => Drew(O, c, "alarm", s.effects, "no")
  /\ t = [rng |-> s.rng + 2, effects |-> IF c.effects THEN s.effects + 1 ELSE s.effects,
          range |-> s.range, frame |-> [s.frame EXCEPT !.empty = @ + 1]]

Alarmed(c, O, s, t) ==
  /\ c.effects
  /\ Drew(O, c, "ray", s.rng, "empty") /\ Drew(O, c, "alarm", s.effects, "yes")
  /\ t = [rng |-> s.rng + 2, effects |-> s.effects + 3, range |-> s.range,
          frame |-> [s.frame EXCEPT !.empty = @ + 1, !.alarms = @ + 1,
                       !.detections = Append(@, [kind |-> "alarm", direction |-> s.rng,
                                                 range |-> s.effects + 1,
                                                 velocity |-> s.effects + 2])]]

Overlooked(c, O, s, t) ==
  /\ Drew(O, c, "ray", s.rng, "target") /\ Drew(O, c, "detect", s.rng + 2, "no")
  /\ t = [rng |-> s.rng + 3, effects |-> s.effects, range |-> s.range,
          frame |-> [s.frame EXCEPT !.targets = @ + 1]]

Detected(c, O, s, t) ==
  /\ Drew(O, c, "ray", s.rng, "target") /\ Drew(O, c, "detect", s.rng + 2, "yes")
  /\ t = [rng |-> s.rng + 3, effects |-> IF c.effects THEN s.effects + 1 ELSE s.effects,
          range |-> s.range + 1,
          frame |-> [s.frame EXCEPT !.targets = @ + 1, !.detected = @ + 1,
                       !.detections = Append(@, [kind |-> "target", direction |-> s.rng,
                                                 range |-> s.range, velocity |-> s.effects])]]

Ray(c, O, s, t) ==
  Missed(c, O, s, t) \/ Alarmed(c, O, s, t) \/ Overlooked(c, O, s, t) \/ Detected(c, O, s, t)

\* One more detection is seen if it is of a target.
LEMMA SeenAppend ==
  ASSUME NEW ds \in Seq(Detections), NEW e \in Detections
  PROVE  Seen(Append(ds, e)) = Seen(ds) \cup (IF e.kind = "target" THEN {<<e.direction, e.range>>} ELSE {})
<1> DEFINE as == Append(ds, e)
<1>1. /\ DOMAIN as = DOMAIN ds \cup {Len(ds) + 1} /\ as[Len(ds) + 1] = e
      /\ \A i \in DOMAIN ds : as[i] = ds[i]
  OBVIOUS
<1> HIDE DEF as
<1> QED
  BY <1>1 DEF Seen, as

\* Less than less is less.
LEMMA Between == \A k, n, m \in Nat : k < n /\ n < m => k < m
  OBVIOUS

\* The detection of the next ray is after those before it.
LEMMA OrderAppend ==
  ASSUME NEW ds \in Seq(Detections), NEW e \in Detections, NEW n \in Nat, NEW m \in Nat,
         InOrder(ds, n), e.direction = n, n < m
  PROVE  InOrder(Append(ds, e), m)
<1> DEFINE as == Append(ds, e)
<1>1. /\ DOMAIN as = DOMAIN ds \cup {Len(ds) + 1} /\ as[Len(ds) + 1] = e
      /\ \A i \in DOMAIN ds : as[i] = ds[i] /\ ds[i].direction \in Nat
      /\ DOMAIN ds = 1..Len(ds) /\ Len(ds) \in Nat
  <2>1. \A i \in DOMAIN ds : ds[i] \in Detections
    OBVIOUS
  <2>2. \A i \in DOMAIN ds : ds[i].direction \in Nat
    BY <2>1 DEF Detections
  <2>3. DOMAIN ds = 1..Len(ds) /\ Len(ds) \in Nat
    OBVIOUS
  <2>4. DOMAIN as = 1..(Len(ds) + 1) /\ as[Len(ds) + 1] = e /\ \A i \in DOMAIN ds : as[i] = ds[i]
    BY <2>3
  <2>5. 1..(Len(ds) + 1) = 1..Len(ds) \cup {Len(ds) + 1}
    BY <2>3
  <2> QED  BY <2>2, <2>3, <2>4, <2>5, Zenon
<1> HIDE DEF as
<1>2. ASSUME NEW i \in DOMAIN as
      PROVE  /\ i \in DOMAIN ds => as[i].direction < n /\ as[i].direction \in Nat
             /\ i \notin DOMAIN ds => i = Len(ds) + 1 /\ as[i].direction = n
  BY <1>1 DEF InOrder
<1>3. ASSUME NEW i \in DOMAIN as PROVE as[i].direction < m
  <2>1. CASE i \in DOMAIN ds
    <3>1. PICK k \in Nat : k = as[i].direction /\ k < n
      BY <1>2, <2>1
    <3>2. k < m
      BY <3>1, Between, Zenon
    <3> QED  BY <3>1, <3>2
  <2>2. CASE i \notin DOMAIN ds
    BY <1>2, <2>2
  <2> QED  BY <2>1, <2>2
<1>4. ASSUME NEW i \in DOMAIN as, NEW j \in DOMAIN as, i < j
      PROVE  as[i].direction < as[j].direction
  <2>1. i \in DOMAIN ds
    BY <1>1, <1>2, <1>4
  <2>2. CASE j \in DOMAIN ds
    <3>1. ds[i].direction < ds[j].direction
      BY <1>4, <2>1, <2>2 DEF InOrder
    <3> QED  BY <1>1, <2>1, <2>2, <3>1
  <2>3. CASE j \notin DOMAIN ds
    BY <1>2, <2>1, <2>3
  <2> QED  BY <2>2, <2>3
<1> QED
  BY <1>3, <1>4 DEF InOrder, as

\* Detections in order stay in order while draws are made.
LEMMA OrderGrows ==
  ASSUME NEW ds \in Seq(Detections), NEW n \in Nat, NEW m \in Nat, InOrder(ds, n), n <= m
  PROVE  InOrder(ds, m)
<1>1. \A i \in DOMAIN ds : ds[i].direction \in Nat
  <2>1. \A i \in DOMAIN ds : ds[i] \in Detections
    OBVIOUS
  <2> QED  BY <2>1 DEF Detections
<1> QED
  BY <1>1 DEF InOrder

\* A record with the parts of a state is a state.
LEMMA StateIs ==
  ASSUME NEW t, t.rng \in Nat, t.effects \in Nat, t.range \in Nat, t.frame \in Frames,
         t = [rng |-> t.rng, effects |-> t.effects, range |-> t.range, frame |-> t.frame]
  PROVE  t \in States
BY DEF States

\* A frame in which some parts are changed is a frame.
LEMMA FrameIs ==
  ASSUME NEW f \in Frames, NEW n \in Nat, NEW m \in Nat, NEW l \in Seq(Detections)
  PROVE  /\ [f EXCEPT !.empty = n] \in Frames
         /\ [f EXCEPT !.targets = n] \in Frames
         /\ [f EXCEPT !.empty = n, !.alarms = m, !.detections = l] \in Frames
         /\ [f EXCEPT !.targets = n, !.detected = m, !.detections = l] \in Frames
BY DEF Frames

\* What each ray changes of what is said of the targets.
LEMMA RayChanges ==
  ASSUME NEW c, NEW O, NEW s, NEW t, Sound(s), Ray(c, O, s, t)
  PROVE  /\ Sound(t)
         /\ Missed(c, O, s, t) \/ Alarmed(c, O, s, t) =>
              /\ t.rng = s.rng + 2 /\ t.range = s.range
              /\ TargetsOf(t.frame) = <<s.frame.targets, s.frame.detected, s.frame.empty + 1,
                                        Seen(s.frame.detections)>>
         /\ Overlooked(c, O, s, t) =>
              /\ t.rng = s.rng + 3 /\ t.range = s.range
              /\ TargetsOf(t.frame) = <<s.frame.targets + 1, s.frame.detected, s.frame.empty,
                                        Seen(s.frame.detections)>>
         /\ Detected(c, O, s, t) =>
              /\ t.rng = s.rng + 3 /\ t.range = s.range + 1
              /\ TargetsOf(t.frame) = <<s.frame.targets + 1, s.frame.detected + 1, s.frame.empty,
                                        Seen(s.frame.detections) \cup {<<s.rng, s.range>>}>>
<1> DEFINE ds == s.frame.detections
           us == t.frame.detections
<1>0. s.frame \in Frames /\ ds \in Seq(Detections) /\ InOrder(ds, s.rng)
  BY DEF Sound, States, Frames
<1>1. /\ s.rng \in Nat /\ s.effects \in Nat /\ s.range \in Nat
      /\ s.frame.targets \in Nat /\ s.frame.detected \in Nat
      /\ s.frame.empty \in Nat /\ s.frame.alarms \in Nat
  BY DEF Sound, States, Frames
<1>6. /\ s.frame.targets + 1 \in Nat /\ s.frame.detected + 1 \in Nat
      /\ s.frame.empty + 1 \in Nat /\ s.frame.alarms + 1 \in Nat
  BY <1>1
<1>2. CASE Missed(c, O, s, t)
  <2>1. /\ t.rng = s.rng + 2 /\ t.range = s.range /\ t.effects \in Nat
        /\ t.frame = [s.frame EXCEPT !.empty = s.frame.empty + 1]
        /\ t = [rng |-> t.rng, effects |-> t.effects, range |-> t.range, frame |-> t.frame]
    BY <1>1, <1>2 DEF Missed
  <2>0. t.rng = s.rng + 2 /\ t.range = s.range
    BY <2>1
  <2>2. t.frame \in Frames /\ us = ds /\ t.frame.targets = s.frame.targets
        /\ t.frame.detected = s.frame.detected /\ t.frame.empty = s.frame.empty + 1
    <3>1. PICK n \in Nat : n = s.frame.empty + 1
      BY <1>1
    <3>2. t.frame = [s.frame EXCEPT !.empty = n]
      BY <2>1, <3>1
    <3>3. t.frame \in Frames
      BY <1>0, <3>2, FrameIs, Zenon
    <3> QED  BY <1>0, <3>1, <3>2, <3>3 DEF Frames
  <2>3. InOrder(us, t.rng)
    <3>1. s.rng <= t.rng /\ t.rng \in Nat
      BY <1>1, <2>0
    <3> QED  BY <1>0, <1>1, <2>2, <3>1, OrderGrows
  <2>4. t \in States
    <3>1. t.rng \in Nat /\ t.range \in Nat
      BY <1>1, <2>0
    <3> QED  BY <2>1, <2>2, <3>1, StateIs
  <2>5. ~Overlooked(c, O, s, t) /\ ~Detected(c, O, s, t)
    <3>1. t.rng # s.rng + 3
      BY <1>1, <2>0
    <3> QED  BY <3>1 DEF Overlooked, Detected
  <2> QED  BY <2>1, <2>2, <2>3, <2>4, <2>5 DEF Sound, TargetsOf
<1>3. CASE Alarmed(c, O, s, t)
  <2> DEFINE e == [kind |-> "alarm", direction |-> s.rng, range |-> s.effects + 1,
                   velocity |-> s.effects + 2]
  <2>1. /\ t.rng = s.rng + 2 /\ t.range = s.range /\ t.effects \in Nat
        /\ t.frame = [s.frame EXCEPT !.empty = s.frame.empty + 1, !.alarms = s.frame.alarms + 1,
                        !.detections = Append(ds, e)]
        /\ t = [rng |-> t.rng, effects |-> t.effects, range |-> t.range, frame |-> t.frame]
    BY <1>1, <1>3 DEF Alarmed
  <2>0. t.rng = s.rng + 2 /\ t.range = s.range
    BY <2>1
  <2>2. e \in Detections /\ e.direction = s.rng /\ e.kind # "target"
    BY <1>1 DEF Detections
  <2> HIDE DEF e
  <2>9. Append(ds, e) \in Seq(Detections)
    BY <1>0, <2>2, AppendProperties
  <2>3. PICK l \in Seq(Detections) : l = Append(ds, e)
    BY <2>9
  <2>8. Seen(l) = Seen(ds)
    BY <1>0, <2>2, <2>3, SeenAppend
  <2>4. /\ t.frame \in Frames /\ us = l /\ t.frame.targets = s.frame.targets
        /\ t.frame.detected = s.frame.detected /\ t.frame.empty = s.frame.empty + 1
    <3>1. PICK n \in Nat, m \in Nat : n = s.frame.empty + 1 /\ m = s.frame.alarms + 1
      BY <1>6
    <3>2. t.frame = [s.frame EXCEPT !.empty = n, !.alarms = m, !.detections = l]
      BY <2>1, <2>3, <3>1
    <3>5. \A f \in Frames : [f EXCEPT !.empty = n, !.alarms = m, !.detections = l] \in Frames
      BY FrameIs
    <3>4. t.frame \in Frames
      BY <1>0, <3>2, <3>5, Zenon
    <3> QED  BY <1>0, <3>1, <3>2, <3>4 DEF Frames
  <2>5. InOrder(us, t.rng)
    <3>1. s.rng < t.rng /\ t.rng \in Nat
      BY <1>1, <2>0
    <3>2. InOrder(Append(ds, e), t.rng)
      BY <1>0, <1>1, <2>2, <3>1, OrderAppend
    <3> QED  BY <2>3, <2>4, <3>2
  <2>6. t \in States
    <3>1. t.rng \in Nat /\ t.range \in Nat
      BY <1>1, <2>0
    <3> QED  BY <2>1, <2>4, <3>1, StateIs
  <2>7. ~Overlooked(c, O, s, t) /\ ~Detected(c, O, s, t)
    <3>1. t.rng # s.rng + 3
      BY <1>1, <2>0
    <3> QED  BY <3>1 DEF Overlooked, Detected
  <2> QED  BY <2>1, <2>4, <2>5, <2>6, <2>7, <2>8 DEF Sound, TargetsOf
<1>4. CASE Overlooked(c, O, s, t)
  <2>1. /\ t.rng = s.rng + 3 /\ t.range = s.range /\ t.effects \in Nat
        /\ t.frame = [s.frame EXCEPT !.targets = s.frame.targets + 1]
        /\ t = [rng |-> t.rng, effects |-> t.effects, range |-> t.range, frame |-> t.frame]
    BY <1>1, <1>4 DEF Overlooked
  <2>0. t.rng = s.rng + 3 /\ t.range = s.range
    BY <2>1
  <2>2. /\ t.frame \in Frames /\ us = ds /\ t.frame.targets = s.frame.targets + 1
        /\ t.frame.detected = s.frame.detected /\ t.frame.empty = s.frame.empty
    <3>1. PICK n \in Nat : n = s.frame.targets + 1
      BY <1>1
    <3>2. t.frame = [s.frame EXCEPT !.targets = n]
      BY <2>1, <3>1
    <3>3. t.frame \in Frames
      BY <1>0, <3>2, FrameIs, Zenon
    <3> QED  BY <1>0, <3>1, <3>2, <3>3 DEF Frames
  <2>3. InOrder(us, t.rng)
    <3>1. s.rng <= t.rng /\ t.rng \in Nat
      BY <1>1, <2>0
    <3> QED  BY <1>0, <1>1, <2>2, <3>1, OrderGrows
  <2>4. t \in States
    <3>1. t.rng \in Nat /\ t.range \in Nat
      BY <1>1, <2>0
    <3> QED  BY <2>1, <2>2, <3>1, StateIs
  <2>5. ~Missed(c, O, s, t) /\ ~Alarmed(c, O, s, t) /\ ~Detected(c, O, s, t)
    <3>1. t.rng # s.rng + 2 /\ t.range # s.range + 1
      BY <1>1, <2>0
    <3> QED  BY <3>1 DEF Missed, Alarmed, Detected
  <2> QED  BY <2>1, <2>2, <2>3, <2>4, <2>5 DEF Sound, TargetsOf
<1>5. CASE Detected(c, O, s, t)
  <2> DEFINE e == [kind |-> "target", direction |-> s.rng, range |-> s.range, velocity |-> s.effects]
  <2>1. /\ t.rng = s.rng + 3 /\ t.range = s.range + 1 /\ t.effects \in Nat
        /\ t.frame = [s.frame EXCEPT !.targets = s.frame.targets + 1,
                        !.detected = s.frame.detected + 1, !.detections = Append(ds, e)]
        /\ t = [rng |-> t.rng, effects |-> t.effects, range |-> t.range, frame |-> t.frame]
    BY <1>1, <1>5 DEF Detected
  <2>0. t.rng = s.rng + 3 /\ t.range = s.range + 1
    BY <2>1
  <2>2. e \in Detections /\ e.direction = s.rng /\ e.kind = "target" /\ e.range = s.range
    BY <1>1 DEF Detections
  <2> HIDE DEF e
  <2>9. Append(ds, e) \in Seq(Detections)
    BY <1>0, <2>2, AppendProperties
  <2>3. PICK l \in Seq(Detections) : l = Append(ds, e)
    BY <2>9
  <2>8. Seen(l) = Seen(ds) \cup {<<s.rng, s.range>>}
    BY <1>0, <2>2, <2>3, SeenAppend
  <2>4. /\ t.frame \in Frames /\ us = l /\ t.frame.targets = s.frame.targets + 1
        /\ t.frame.detected = s.frame.detected + 1 /\ t.frame.empty = s.frame.empty
    <3>1. PICK n \in Nat, m \in Nat : n = s.frame.targets + 1 /\ m = s.frame.detected + 1
      BY <1>6
    <3>2. t.frame = [s.frame EXCEPT !.targets = n, !.detected = m, !.detections = l]
      BY <2>1, <2>3, <3>1
    <3>5. \A f \in Frames : [f EXCEPT !.targets = n, !.detected = m, !.detections = l] \in Frames
      BY FrameIs
    <3>4. t.frame \in Frames
      BY <1>0, <3>2, <3>5, Zenon
    <3> QED  BY <1>0, <3>1, <3>2, <3>4 DEF Frames
  <2>5. InOrder(us, t.rng)
    <3>1. s.rng < t.rng /\ t.rng \in Nat
      BY <1>1, <2>0
    <3>2. InOrder(Append(ds, e), t.rng)
      BY <1>0, <1>1, <2>2, <3>1, OrderAppend
    <3> QED  BY <2>3, <2>4, <3>2
  <2>6. t \in States
    <3>1. t.rng \in Nat /\ t.range \in Nat
      BY <1>1, <2>0, SMTT(20)
    <3> QED  BY <2>1, <2>4, <3>1, StateIs
  <2>7. ~Missed(c, O, s, t) /\ ~Alarmed(c, O, s, t) /\ ~Overlooked(c, O, s, t)
    <3>1. t.rng # s.rng + 2 /\ t.range # s.range
      BY <1>1, <2>0
    <3> QED  BY <3>1 DEF Missed, Alarmed, Overlooked
  <2> QED  BY <2>1, <2>4, <2>5, <2>6, <2>7, <2>8 DEF Sound, TargetsOf
<1> QED
  BY <1>2, <1>3, <1>4, <1>5 DEF Ray
-----------------------------------------------------------------------------
\* A draw has come to one thing.
Functional(O) == \A p, q \in O : p[1] = q[1] => p[2] = q[2]

\* The same of the targets, and the same altogether under one configuration.
Alike(c, d, s, t) ==
  /\ s.rng = t.rng /\ s.range = t.range
  /\ TargetsOf(s.frame) = TargetsOf(t.frame)
  /\ c = d => s = t

\* The same draw of the same seed comes to the same.
LEMMA DrawsAgree ==
  ASSUME NEW O, Functional(O), NEW c, NEW d, c.seed = d.seed, NEW stream, NEW at, NEW u, NEW v,
         Drew(O, c, stream, at, u), Drew(O, d, stream, at, v)
  PROVE  u = v
BY DEF Functional, Drew

\* From states alike, rays with the same draws lead to states alike: what the
\* effects draw for themselves moves no other generator.
LEMMA RaysAlike ==
  ASSUME NEW O, Functional(O), NEW c, NEW d, c.seed = d.seed,
         NEW s, NEW t, NEW x, NEW y, Sound(s), Sound(t), Alike(c, d, s, t),
         Ray(c, O, s, x), Ray(d, O, t, y)
  PROVE  Alike(c, d, x, y)
<1> DEFINE Lost(e, a, b) == Missed(e, O, a, b) \/ Alarmed(e, O, a, b)
<1>1. /\ s.rng = t.rng /\ s.range = t.range
      /\ s.frame.targets = t.frame.targets /\ s.frame.detected = t.frame.detected
      /\ s.frame.empty = t.frame.empty /\ Seen(s.frame.detections) = Seen(t.frame.detections)
  BY DEF Alike, TargetsOf
<1>2. CASE Lost(c, s, x)
  <2>1. Lost(d, t, y)
    <3>1. Drew(O, c, "ray", t.rng, "empty")
      BY <1>1, <1>2 DEF Missed, Alarmed
    <3>2. ~Drew(O, d, "ray", t.rng, "target")
      BY <3>1, DrawsAgree
    <3> QED  BY <3>2 DEF Ray, Overlooked, Detected
  <2>2. x.rng = y.rng /\ x.range = y.range /\ TargetsOf(x.frame) = TargetsOf(y.frame)
    BY <1>1, <1>2, <2>1, RayChanges
  <2>3. ASSUME c = d PROVE x = y
    <3>1. s = t
      BY <2>3 DEF Alike
    <3>2. ~(Drew(O, c, "alarm", s.effects, "yes") /\ Drew(O, c, "alarm", s.effects, "no"))
      BY DrawsAgree
    <3> QED  BY <1>2, <2>1, <2>3, <3>1, <3>2 DEF Missed, Alarmed
  <2> QED  BY <2>2, <2>3 DEF Alike
<1>3. CASE ~Lost(c, s, x)
  <2>1. Overlooked(c, O, s, x) \/ Detected(c, O, s, x)
    BY <1>3 DEF Ray
  <2>2. Drew(O, c, "ray", t.rng, "target")
    BY <1>1, <2>1 DEF Overlooked, Detected
  <2>3. ~Drew(O, d, "ray", t.rng, "empty")
    BY <2>2, DrawsAgree
  <2>4. Overlooked(d, O, t, y) \/ Detected(d, O, t, y)
    BY <2>3 DEF Ray, Missed, Alarmed
  <2>5. /\ ~(Drew(O, c, "detect", t.rng + 2, "no") /\ Drew(O, d, "detect", t.rng + 2, "yes"))
        /\ ~(Drew(O, c, "detect", t.rng + 2, "yes") /\ Drew(O, d, "detect", t.rng + 2, "no"))
    BY DrawsAgree
  <2>6. \/ Overlooked(c, O, s, x) /\ Overlooked(d, O, t, y)
        \/ Detected(c, O, s, x) /\ Detected(d, O, t, y)
    BY <1>1, <2>1, <2>4, <2>5 DEF Overlooked, Detected
  <2>7. x.rng = y.rng /\ x.range = y.range /\ TargetsOf(x.frame) = TargetsOf(y.frame)
    BY <1>1, <2>6, RayChanges
  <2>8. ASSUME c = d PROVE x = y
    <3>1. s = t
      BY <2>8 DEF Alike
    <3> QED  BY <2>6, <2>8, <3>1 DEF Overlooked, Detected
  <2> QED  BY <2>7, <2>8 DEF Alike
<1> QED
  BY <1>2, <1>3
-----------------------------------------------------------------------------
\* H is what the scans since a reset have been, up to ray r of scan k.
Before(H, i) == IF i = 1 THEN Start ELSE Blank(H[<<i - 1, RadarRays + 1>>])

\* One state per ray, from the reset on, each following from the one before.
Follows(H, c, O, k, r) ==
  /\ \A i \in 1..k : H[<<i, 1>>] = Before(H, i)
  /\ \A i \in 1..k, j \in 1..RadarRays :
       i < k \/ j < r => Ray(c, O, H[<<i, j>>], H[<<i, j + 1>>])

\* Beginning a scan keeps states sound and alike.
LEMMA BlankIsAlike ==
  /\ Sound(Start) /\ \A s : Sound(s) => Sound(Blank(s))
  /\ \A c, d : Alike(c, d, Start, Start)
  /\ \A c, d, s, t : Sound(s) /\ Sound(t) /\ Alike(c, d, s, t) => Alike(c, d, Blank(s), Blank(t))
<1>1. EmptyScan \in Frames /\ EmptyScan.detections = <<>>
  BY DEF EmptyScan, Frames
<1>2. Sound(Start)
  BY <1>1 DEF Sound, Start, States, InOrder
<1>3. ASSUME NEW s, Sound(s) PROVE Sound(Blank(s)) /\ Blank(s).rng = s.rng /\ Blank(s).range = s.range
                                     /\ Blank(s).frame = EmptyScan
  <2>1. s \in States
    BY <1>3 DEF Sound
  <2>2. Blank(s) \in States /\ Blank(s).frame = EmptyScan /\ Blank(s).rng = s.rng
        /\ Blank(s).range = s.range
    <3>1. PICK f \in Frames : f = EmptyScan
      BY <1>1
    <3>2. Blank(s) = [s EXCEPT !.frame = f]
      BY <3>1 DEF Blank
    <3> QED  BY <2>1, <3>1, <3>2 DEF States
  <2> QED  BY <1>1, <2>2 DEF Sound, InOrder
<1>4. \A c, d : Alike(c, d, Start, Start)
  BY DEF Alike
<1>5. ASSUME NEW c, NEW d, NEW s, NEW t, Sound(s), Sound(t), Alike(c, d, s, t)
      PROVE  Alike(c, d, Blank(s), Blank(t))
  BY <1>3, <1>5 DEF Alike, Blank
<1> QED
  BY <1>2, <1>3, <1>4, <1>5

\* Two histories with the same seed are alike at every ray, also when one has the
\* effects and the other does not; and the same altogether if the configuration is.
\* By the first scan, and in it the first ray, where they are not.
LEMMA Deterministic ==
  ASSUME RadarAssumption, NEW O, Functional(O), NEW c, NEW d, c.seed = d.seed, NEW H, NEW G,
         NEW k \in Nat, NEW r \in 1..(RadarRays + 1),
         Follows(H, c, O, k, r), Follows(G, d, O, k, r)
  PROVE  \A i \in 1..k, j \in 1..(RadarRays + 1) : i < k \/ j <= r =>
           /\ Sound(H[<<i, j>>]) /\ Sound(G[<<i, j>>])
           /\ Alike(c, d, H[<<i, j>>], G[<<i, j>>])
<1> DEFINE Last == RadarRays + 1
           Good(i, j) == /\ Sound(H[<<i, j>>]) /\ Sound(G[<<i, j>>])
                         /\ Alike(c, d, H[<<i, j>>], G[<<i, j>>])
           BadRays(i) == {j \in 1..Last : (i < k \/ j <= r) /\ ~Good(i, j)}
           BadScans == {i \in 1..k : BadRays(i) # {}}
<1>1. BadScans = {}
  <2> SUFFICES ASSUME BadScans # {} PROVE FALSE
    OBVIOUS
  <2>1. RadarRays \in Nat /\ RadarRays >= 1 /\ Last \in Nat
    BY DEF RadarAssumption
  <2>2. PICK i \in BadScans : \A h \in BadScans : i <= h
    <3>1. BadScans \in SUBSET Nat
      OBVIOUS
    <3> HIDE DEF BadScans
    <3> QED  BY <3>1, NatHasLeast
  <2>3. i \in 1..k /\ BadRays(i) # {}
    BY <2>2
  <2>4. PICK j \in BadRays(i) : \A h \in BadRays(i) : j <= h
    <3>1. BadRays(i) \in SUBSET Nat
      OBVIOUS
    <3> HIDE DEF BadRays
    <3> QED  BY <2>3, <3>1, NatHasLeast
  <2>5. j \in 1..Last /\ (i < k \/ j <= r) /\ ~Good(i, j)
    BY <2>4
  <2>6. CASE j = 1
    <3>1. H[<<i, 1>>] = Before(H, i) /\ G[<<i, 1>>] = Before(G, i)
      BY <2>3 DEF Follows
    <3>2. CASE i = 1
      BY <2>5, <2>6, <3>1, <3>2, BlankIsAlike DEF Before
    <3>3. CASE i # 1
      <4>1. i - 1 \in 1..k /\ i - 1 < k /\ ~(i <= i - 1)
        BY <2>3, <3>3
      <4>2. i - 1 \notin BadScans
        BY <2>2, <4>1
      <4>3. Last \in 1..Last
        BY <2>1
      <4>4. Good(i - 1, Last)
        <5>1. Last \notin BadRays(i - 1)
          BY <4>1, <4>2
        <5> QED  BY <4>1, <4>3, <5>1
      <4>5. Sound(Before(H, i)) /\ Sound(Before(G, i)) /\ Alike(c, d, Before(H, i), Before(G, i))
        BY <3>3, <4>4, BlankIsAlike DEF Before
      <4> QED  BY <2>5, <2>6, <3>1, <4>5
    <3> QED  BY <3>2, <3>3
  <2>7. CASE j # 1
    <3>1. j - 1 \in 1..RadarRays /\ j - 1 \in 1..Last /\ (j - 1) + 1 = j /\ ~(j <= j - 1)
          /\ (i < k \/ j - 1 < r) /\ (i < k \/ j - 1 <= r)
      BY <2>1, <2>5, <2>7
    <3>2. Good(i, j - 1)
      <4>1. j - 1 \notin BadRays(i)
        BY <2>4, <3>1
      <4> QED  BY <3>1, <4>1
    <3>3. Ray(c, O, H[<<i, j - 1>>], H[<<i, j>>]) /\ Ray(d, O, G[<<i, j - 1>>], G[<<i, j>>])
      <4>1. /\ Ray(c, O, H[<<i, j - 1>>], H[<<i, (j - 1) + 1>>])
            /\ Ray(d, O, G[<<i, j - 1>>], G[<<i, (j - 1) + 1>>])
        BY <2>3, <3>1 DEF Follows
      <4> QED  BY <3>1, <4>1
    <3>4. Good(i, j)
      BY <3>2, <3>3, RaysAlike, RayChanges
    <3> QED  BY <2>5, <3>4
  <2> QED  BY <2>6, <2>7
<1> QED
  BY <1>1

\* There is such a history, and it has come to this.
Reaches(c, O, k, r, now) == \E H : Follows(H, c, O, k, r) /\ H[<<k, r>>] = now

\* A history goes on with the next ray, with the next scan, and with more draws.
LEMMA NextRay ==
  ASSUME RadarAssumption, NEW H, NEW c, NEW O, NEW k \in Nat \ {0}, NEW r \in 1..RadarRays, NEW t,
         Follows(H, c, O, k, r), Ray(c, O, H[<<k, r>>], t)
  PROVE  Reaches(c, O, k, r + 1, t)
<1> DEFINE G == [p \in Nat \X Nat |-> IF p = <<k, r + 1>> THEN t ELSE H[p]]
<1>1. RadarRays \in Nat /\ r + 1 # 1
  BY DEF RadarAssumption
<1>2. \A i, j \in Nat : G[<<i, j>>] = IF i = k /\ j = r + 1 THEN t ELSE H[<<i, j>>]
  OBVIOUS
<1> HIDE DEF G
<1>3. \A i \in 1..k : G[<<i, 1>>] = H[<<i, 1>>] /\ Before(G, i) = Before(H, i)
  <2>1. \A i \in 1..k : i # 1 => G[<<i - 1, RadarRays + 1>>] = H[<<i - 1, RadarRays + 1>>]
    BY <1>1, <1>2
  <2> QED  BY <1>1, <1>2, <2>1 DEF Before
<1>4. ASSUME NEW i \in 1..k, NEW j \in 1..RadarRays, i < k \/ j < r + 1
      PROVE  Ray(c, O, G[<<i, j>>], G[<<i, j + 1>>])
  <2>1. G[<<i, j>>] = H[<<i, j>>]
    BY <1>1, <1>2, <1>4
  <2>2. CASE i = k /\ j = r
    BY <1>1, <1>2, <2>1, <2>2
  <2>3. CASE ~(i = k /\ j = r)
    <3>1. i < k \/ j < r
      BY <1>1, <1>4, <2>3
    <3>2. G[<<i, j + 1>>] = H[<<i, j + 1>>]
      BY <1>1, <1>2, <1>4, <2>3
    <3> QED  BY <2>1, <3>1, <3>2 DEF Follows
  <2> QED  BY <2>2, <2>3
<1>5. G[<<k, r + 1>>] = t
  BY <1>2
<1>6. \A i \in 1..k : G[<<i, 1>>] = Before(G, i)
  BY <1>3 DEF Follows
<1> QED
  BY <1>4, <1>5, <1>6 DEF Follows, Reaches

\* The next scan starts where this one ended.
LEMMA NextScan ==
  ASSUME RadarAssumption, NEW H, NEW c, NEW O, NEW k \in Nat,
         Follows(H, c, O, k, RadarRays + 1)
  PROVE  \E G : Follows(G, c, O, k + 1, 1) /\ G[<<k + 1, 1>>] = Before(H, k + 1)
<1> DEFINE G == [p \in Nat \X Nat |-> IF p = <<k + 1, 1>> THEN Before(H, k + 1) ELSE H[p]]
<1>1. RadarRays \in Nat /\ RadarRays >= 1
  BY DEF RadarAssumption
<1>2. \A i, j \in Nat : G[<<i, j>>] = IF i = k + 1 /\ j = 1 THEN Before(H, k + 1) ELSE H[<<i, j>>]
  OBVIOUS
<1> HIDE DEF G
<1>3. \A i \in 1..(k + 1) : Before(G, i) = Before(H, i)
  <2>1. \A i \in 1..(k + 1) : i # 1 => G[<<i - 1, RadarRays + 1>>] = H[<<i - 1, RadarRays + 1>>]
    BY <1>1, <1>2
  <2> QED  BY <2>1 DEF Before
<1>4. \A i \in 1..(k + 1) : G[<<i, 1>>] = Before(G, i)
  <2>1. ASSUME NEW i \in 1..k
        PROVE  G[<<i, 1>>] = H[<<i, 1>>] /\ H[<<i, 1>>] = Before(H, i)
    <3>1. i \in Nat /\ i # k + 1
      OBVIOUS
    <3>2. H[<<i, 1>>] = Before(H, i)
      BY DEF Follows
    <3> QED  BY <1>2, <3>1, <3>2
  <2>2. G[<<k + 1, 1>>] = Before(H, k + 1)
    BY <1>2
  <2>3. \A i \in 1..(k + 1) : i \in 1..k \/ i = k + 1
    OBVIOUS
  <2> QED  BY <1>3, <2>1, <2>2, <2>3
<1>5. ASSUME NEW i \in 1..(k + 1), NEW j \in 1..RadarRays, i < k + 1 \/ j < 1
      PROVE  Ray(c, O, G[<<i, j>>], G[<<i, j + 1>>])
  <2>1. i \in 1..k /\ j < RadarRays + 1
    BY <1>1, <1>5
  <2>2. G[<<i, j>>] = H[<<i, j>>] /\ G[<<i, j + 1>>] = H[<<i, j + 1>>]
    BY <1>2, <2>1
  <2> QED  BY <2>1, <2>2 DEF Follows
<1>6. G[<<k + 1, 1>>] = Before(H, k + 1)
  BY <1>2
<1> QED
  BY <1>4, <1>5, <1>6 DEF Follows

\* A history stays one when more draws have been made.
LEMMA MoreDraws ==
  ASSUME NEW H, NEW c, NEW O, NEW P, O \subseteq P, NEW k, NEW r, Follows(H, c, O, k, r)
  PROVE  Follows(H, c, P, k, r)
<1>1. ASSUME NEW s, NEW t, Ray(c, O, s, t) PROVE Ray(c, P, s, t)
  <2>1. CASE Missed(c, O, s, t)
    BY <2>1 DEF Ray, Missed, Drew
  <2>2. CASE Alarmed(c, O, s, t)
    BY <2>2 DEF Ray, Alarmed, Drew
  <2>3. CASE Overlooked(c, O, s, t)
    BY <2>3 DEF Ray, Overlooked, Drew
  <2>4. CASE Detected(c, O, s, t)
    BY <2>4 DEF Ray, Detected, Drew
  <2> QED  BY <1>1, <2>1, <2>2, <2>3, <2>4 DEF Ray
<1> QED
  BY <1>1 DEF Follows

\* A scan that is running, or the next one, goes on from a history.
Goes(c, O, k, r, now) ==
  \E H : IF r = 0 THEN Follows(H, c, O, k, RadarRays + 1) /\ Blank(now) = Before(H, k + 1)
         ELSE Follows(H, c, O, k, r) /\ H[<<k, r>>] = now

\* A frame that was taken is the end of one.
Ends(c, O, k, f) ==
  \E H : Follows(H, c, O, k, RadarRays + 1) /\ H[<<k, RadarRays + 1>>].frame = f

\* The scan that runs, and every frame that was taken, has a history from the reset on.
RadarInv ==
  /\ radarConfig \in RadarConfigs /\ scanCount \in Nat /\ rayIndex \in 0..(RadarRays + 1)
  /\ rng \in Nat
  /\ rayIndex > 0 => radarConfig.sees /\ scanCount > 0
  /\ Functional(oracle)
  /\ ~broken /\ radarConfig.sees => Goes(radarConfig, oracle, scanCount, rayIndex, Now)
  /\ \A e \in DOMAIN taken :
       /\ e \in RadarConfigs \X (Nat \ {0})
       /\ Ends(e[1], oracle, e[2], taken[e])

\* RadarInv holds at the start.
LEMMA RadarStart == RadarAssumption /\ RadarInit => RadarInv
<1> SUFFICES ASSUME RadarAssumption, RadarInit PROVE RadarInv
  OBVIOUS
<1>1. radarConfig \in RadarConfigs
  BY DEF RadarInit, RadarAssumption, RadarConfigs
<1>2. Goes(radarConfig, oracle, 0, 0, Start)
  <2>1. Follows(<<>>, radarConfig, oracle, 0, RadarRays + 1) /\ Blank(Start) = Before(<<>>, 0 + 1)
    BY DEF Follows, Before, Blank, Start
  <2> QED  BY <2>1 DEF Goes
<1>3. Now = Start /\ scanCount = 0 /\ rayIndex = 0
  BY DEF RadarInit, Now, Start
<1> QED
  BY <1>1, <1>2, <1>3 DEF RadarInit, RadarInv, Functional, RadarAssumption

\* What was drawn before stays, and what is drawn now is one thing.
LEMMA OutcomesKept ==
  ASSUME NEW found, Outcomes(found), Functional(oracle), Functional(found)
  PROVE  oracle \subseteq oracle' /\ found \subseteq oracle' /\ Functional(oracle')
BY DEF Outcomes, Functional

\* A ray that is cast prolongs the history.
LEMMA RayInv ==
  ASSUME RadarAssumption, RadarInv, CastRadarRay, oracle \subseteq oracle', Functional(oracle'),
         Ray(radarConfig, oracle', Now, Now')
  PROVE  RadarInv'
<1>1. /\ rayIndex \in 1..RadarRays /\ rayIndex' = rayIndex + 1
      /\ UNCHANGED <<radarConfig, scanCount, broken, taken>>
  BY DEF CastRadarRay
<1>2. ASSUME ~broken, radarConfig.sees
      PROVE  Goes(radarConfig, oracle', scanCount, rayIndex', Now')
  <2>1. PICK H : Follows(H, radarConfig, oracle, scanCount, rayIndex) /\ H[<<scanCount, rayIndex>>] = Now
    BY <1>1, <1>2 DEF RadarInv, Goes
  <2>2. Follows(H, radarConfig, oracle', scanCount, rayIndex)
    BY <2>1, MoreDraws
  <2>3. scanCount \in Nat \ {0}
    BY <1>1 DEF RadarInv
  <2>6. PICK k \in Nat \ {0}, r \in 1..RadarRays : k = scanCount /\ r = rayIndex
    BY <1>1, <2>3
  <2>9. PICK c, O, t : c = radarConfig /\ O = oracle' /\ t = Now'
    OBVIOUS
  <2>7. Follows(H, c, O, k, r) /\ Ray(c, O, H[<<k, r>>], t)
    BY <2>1, <2>2, <2>6, <2>9
  <2>8. Reaches(c, O, k, r + 1, t)
    BY <2>7, NextRay
  <2>4. Reaches(radarConfig, oracle', scanCount, rayIndex', Now')
    BY <1>1, <2>6, <2>8, <2>9
  <2>5. rayIndex' # 0
    BY <1>1
  <2> QED  BY <2>4, <2>5 DEF Goes, Reaches
<1>3. ASSUME NEW e \in DOMAIN taken
      PROVE  Ends(e[1], oracle', e[2], taken[e])
  BY MoreDraws DEF RadarInv, Ends
<1>4. rayIndex' \in 0..(RadarRays + 1)
  BY <1>1 DEF RadarAssumption
<1>5. rng' \in Nat
  <2>1. rng' = rng + 2 \/ rng' = rng + 3
    BY DEF Ray, Missed, Alarmed, Overlooked, Detected, Now
  <2> QED  BY <2>1 DEF RadarInv
<1> QED
  BY <1>1, <1>2, <1>3, <1>4, <1>5 DEF RadarInv

\* Every step of the radar keeps RadarInv.
LEMMA RadarStep ==
  ASSUME RadarAssumption, RadarInv, [RadarNext]_radarVars
  PROVE  RadarInv'
<1>1. ASSUME Restart, radarConfig' \in RadarConfigs PROVE RadarInv'
  <2>1. Goes(radarConfig', oracle, 0, 0, Start)
    <3>1. Follows(<<>>, radarConfig', oracle, 0, RadarRays + 1) /\ Blank(Start) = Before(<<>>, 0 + 1)
      BY DEF Follows, Before, Blank, Start
    <3> QED  BY <3>1 DEF Goes
  <2>2. /\ scanCount' = 0 /\ rayIndex' = 0 /\ oracle' = oracle /\ taken' = taken
        /\ Blank(Now') = Blank(Start) /\ rng' = 0
    BY <1>1 DEF Restart, Now, Start, Blank
  <2>3. Goes(radarConfig', oracle, 0, 0, Now')
    BY <2>1, <2>2 DEF Goes
  <2> QED  BY <1>1, <2>2, <2>3 DEF RadarInv, RadarAssumption
<1>2. ASSUME NEW c \in RadarConfigs, Configure(c) PROVE RadarInv'
  BY <1>1, <1>2 DEF Configure
<1>3. CASE ResetRadar
  BY <1>1, <1>3 DEF ResetRadar, RadarInv
<1>4. CASE BeginScan
  <2>1. /\ rayIndex = 0 /\ scanCount' = scanCount + 1 /\ scanCount \in Nat
        /\ Now' = Blank(Now) /\ rayIndex' = (IF radarConfig.sees THEN 1 ELSE 0)
        /\ UNCHANGED <<radarConfig, rng, broken, oracle, taken>>
    BY <1>4 DEF BeginScan, Now, Blank, generators, RadarInv
  <2>2. ASSUME ~broken, radarConfig.sees
        PROVE  Goes(radarConfig, oracle, scanCount', rayIndex', Now')
    <3>1. PICK H : /\ Follows(H, radarConfig, oracle, scanCount, RadarRays + 1)
                   /\ Blank(Now) = Before(H, scanCount + 1)
      BY <2>1, <2>2 DEF RadarInv, Goes
    <3>2. PICK G : Follows(G, radarConfig, oracle, scanCount + 1, 1)
                   /\ G[<<scanCount + 1, 1>>] = Before(H, scanCount + 1)
      BY <2>1, <3>1, NextScan
    <3>3. rayIndex' = 1
      BY <2>1, <2>2
    <3> QED  BY <2>1, <3>1, <3>2, <3>3 DEF Goes
  <2> QED  BY <2>1, <2>2 DEF RadarInv, RadarAssumption
<1>5. CASE NoReturn
  <2> DEFINE found == {<<DrawOf("ray", rng), "empty">>} \cup
                      IF radarConfig.effects THEN {<<DrawOf("alarm", effectsRng), "no">>} ELSE {}
  <2>1. CastRadarRay /\ Outcomes(found)
    BY <1>5 DEF NoReturn
  <2>2. Functional(found)
    BY DEF Functional, DrawOf
  <2>3. oracle \subseteq oracle' /\ found \subseteq oracle' /\ Functional(oracle')
    BY <2>1, <2>2, OutcomesKept DEF RadarInv
  <2>4. Missed(radarConfig, oracle', Now, Now')
    BY <1>5, <2>3 DEF Missed, NoReturn, Now, Drew, DrawOf, Direction, Empty
  <2> QED  BY <2>1, <2>3, <2>4, RayInv DEF Ray
<1>6. CASE FalseAlarm
  <2> DEFINE found == {<<DrawOf("ray", rng), "empty">>, <<DrawOf("alarm", effectsRng), "yes">>}
  <2>1. CastRadarRay /\ Outcomes(found)
    BY <1>6 DEF FalseAlarm
  <2>2. Functional(found)
    BY DEF Functional, DrawOf
  <2>3. oracle \subseteq oracle' /\ found \subseteq oracle' /\ Functional(oracle')
    BY <2>1, <2>2, OutcomesKept DEF RadarInv
  <2>4. Alarmed(radarConfig, oracle', Now, Now')
    BY <1>6, <2>3 DEF Alarmed, FalseAlarm, Now, Drew, DrawOf, Direction, Empty, Detection
  <2> QED  BY <2>1, <2>3, <2>4, RayInv DEF Ray
<1>7. CASE Overlook
  <2> DEFINE found == {<<DrawOf("ray", rng), "target">>, <<DrawOf("detect", Direction), "no">>}
  <2>1. CastRadarRay /\ Outcomes(found)
    BY <1>7 DEF Overlook
  <2>2. Functional(found)
    BY DEF Functional, DrawOf
  <2>3. oracle \subseteq oracle' /\ found \subseteq oracle' /\ Functional(oracle')
    BY <2>1, <2>2, OutcomesKept DEF RadarInv
  <2>4. Overlooked(radarConfig, oracle', Now, Now')
    <3>1. /\ Drew(oracle', radarConfig, "ray", rng, "target")
          /\ Drew(oracle', radarConfig, "detect", rng + 2, "no")
      BY <2>3 DEF Drew, DrawOf, Direction
    <3>2. rng \in Nat
      BY DEF RadarInv
    <3>3. /\ rng' = rng + 3 /\ effectsRng' = effectsRng /\ rangeRng' = rangeRng
          /\ frame' = [frame EXCEPT !.targets = @ + 1]
      BY <1>7, <3>2 DEF Overlook, Direction
    <3> QED  BY <3>1, <3>3 DEF Overlooked, Now
  <2> QED  BY <2>1, <2>3, <2>4, RayInv DEF Ray
<1>8. CASE Detect
  <2> DEFINE found == {<<DrawOf("ray", rng), "target">>, <<DrawOf("detect", Direction), "yes">>}
  <2>1. CastRadarRay /\ Outcomes(found)
    BY <1>8 DEF Detect
  <2>2. Functional(found)
    BY DEF Functional, DrawOf
  <2>3. oracle \subseteq oracle' /\ found \subseteq oracle' /\ Functional(oracle')
    BY <2>1, <2>2, OutcomesKept DEF RadarInv
  <2>4. Detected(radarConfig, oracle', Now, Now')
    <3>1. /\ Drew(oracle', radarConfig, "ray", rng, "target")
          /\ Drew(oracle', radarConfig, "detect", rng + 2, "yes")
      BY <2>3 DEF Drew, DrawOf, Direction
    <3>2. rng \in Nat
      BY DEF RadarInv
    <3>3. /\ rng' = rng + 3 /\ rangeRng' = rangeRng + 1
          /\ effectsRng' = (IF radarConfig.effects THEN effectsRng + 1 ELSE effectsRng)
          /\ frame' = [frame EXCEPT !.targets = @ + 1, !.detected = @ + 1,
                         !.detections = Append(@, Detection("target", rangeRng, effectsRng))]
      BY <1>8, <3>2 DEF Detect, Direction
    <3> QED  BY <3>1, <3>3 DEF Detected, Now, Detection
  <2> QED  BY <2>1, <2>3, <2>4, RayInv DEF Ray
<1>9. CASE CastThrows
  BY <1>9 DEF CastThrows, Direction, RadarInv, RadarAssumption
<1>10. CASE EndScan
  <2>1. /\ rayIndex = RadarRays + 1 /\ rayIndex' = 0 /\ Now' = Now
        /\ UNCHANGED <<radarConfig, scanCount, rng, broken, oracle>>
        /\ taken' = IF broken THEN taken
                    ELSE [e \in DOMAIN taken \cup {<<radarConfig, scanCount>>} |->
                            IF e \in DOMAIN taken THEN taken[e] ELSE frame]
    BY <1>10 DEF EndScan, Now, generators
  <2>2. radarConfig.sees /\ scanCount > 0 /\ scanCount \in Nat /\ radarConfig \in RadarConfigs
    BY <2>1 DEF RadarInv, RadarAssumption
  <2>3. ASSUME ~broken
        PROVE  /\ Goes(radarConfig, oracle, scanCount, 0, Now)
               /\ Ends(radarConfig, oracle, scanCount, frame)
    <3>1. PICK H : /\ Follows(H, radarConfig, oracle, scanCount, RadarRays + 1)
                   /\ H[<<scanCount, RadarRays + 1>>] = Now
      <4>1. rayIndex # 0
        BY <2>1 DEF RadarAssumption
      <4> QED  BY <2>1, <2>2, <2>3, <4>1 DEF RadarInv, Goes
    <3>2. Blank(Now) = Before(H, scanCount + 1)
      BY <2>2, <3>1 DEF Before
    <3>3. Now.frame = frame
      BY DEF Now
    <3> QED  BY <3>1, <3>2, <3>3 DEF Goes, Ends
  <2>4. ASSUME NEW e \in DOMAIN taken'
        PROVE  e \in RadarConfigs \X (Nat \ {0}) /\ Ends(e[1], oracle, e[2], taken'[e])
    <3>1. CASE e \in DOMAIN taken
      BY <2>1, <3>1 DEF RadarInv
    <3>2. CASE e \notin DOMAIN taken
      <4>1. ~broken /\ e = <<radarConfig, scanCount>> /\ taken'[e] = frame
        BY <2>1, <2>4, <3>2
      <4> QED  BY <2>2, <2>3, <4>1
    <3> QED  BY <3>1, <3>2
  <2> QED  BY <2>1, <2>2, <2>3, <2>4 DEF RadarInv, RadarAssumption
<1>11. CASE UNCHANGED radarVars
  <2>1. Now' = Now /\ UNCHANGED <<radarConfig, scanCount, rng, rayIndex, broken, oracle, taken>>
    BY <1>11 DEF radarVars, generators, Now
  <2> QED  BY <2>1 DEF RadarInv
<1> QED
  BY <1>2, <1>3, <1>4, <1>5, <1>6, <1>7, <1>8, <1>9, <1>10, <1>11 DEF RadarNext

(***************************************************************************)
(* A radar scan depends on its configuration and its number since the reset *)
(* alone, whatever was configured, scanned or thrown before that reset; and *)
(* what it says of the targets does not even depend on whether false alarms *)
(* and Doppler noise are on.                                               *)
(***************************************************************************)
THEOREM RandomnessIsSeparated ==
  ASSUME RadarAssumption
  PROVE  RadarSpec => []RandomnessSeparated
<1>1. RadarInv => RandomnessSeparated
  <2> SUFFICES ASSUME RadarInv PROVE RandomnessSeparated
    OBVIOUS
  <2>0. RadarRays \in Nat /\ RadarRays + 1 \in 1..(RadarRays + 1) /\ Functional(oracle)
    BY DEF RadarAssumption, RadarInv
  <2>1. ReplayExact
    <3> DEFINE e == <<radarConfig, scanCount>>
    <3> SUFFICES ASSUME rayIndex = RadarRays + 1, ~broken, e \in DOMAIN taken
                 PROVE  frame = taken[e]
      BY DEF ReplayExact
    <3>1. radarConfig.sees /\ scanCount \in Nat \ {0} /\ rayIndex # 0
      BY <2>0 DEF RadarInv
    <3>2. PICK H : Follows(H, radarConfig, oracle, scanCount, RadarRays + 1)
                   /\ H[<<scanCount, RadarRays + 1>>] = Now
      BY <3>1 DEF RadarInv, Goes
    <3>3. Ends(radarConfig, oracle, scanCount, taken[e])
      BY DEF RadarInv
    <3>4. PICK G : Follows(G, radarConfig, oracle, scanCount, RadarRays + 1)
                   /\ G[<<scanCount, RadarRays + 1>>].frame = taken[e]
      BY <3>3 DEF Ends
    <3>5. scanCount \in 1..scanCount
      BY <3>1
    <3>6. Alike(radarConfig, radarConfig, H[<<scanCount, RadarRays + 1>>], G[<<scanCount, RadarRays + 1>>])
      BY <2>0, <3>1, <3>2, <3>4, <3>5, Deterministic
    <3>7. H[<<scanCount, RadarRays + 1>>].frame = frame
      BY <3>2 DEF Now
    <3>8. H[<<scanCount, RadarRays + 1>>] = G[<<scanCount, RadarRays + 1>>]
      BY <3>6, Zenon DEF Alike
    <3> QED  BY <3>4, <3>7, <3>8, Zenon
  <2>2. EffectsLeaveTargets
    <3> SUFFICES ASSUME NEW c \in RadarConfigs, NEW d \in RadarConfigs, NEW k \in 1..RadarScans,
                        c.seed = d.seed, <<c, k>> \in DOMAIN taken, <<d, k>> \in DOMAIN taken
                 PROVE  TargetsOf(taken[<<c, k>>]) = TargetsOf(taken[<<d, k>>])
      BY DEF EffectsLeaveTargets
    <3>1. Ends(c, oracle, k, taken[<<c, k>>]) /\ Ends(d, oracle, k, taken[<<d, k>>])
      BY DEF RadarInv
    <3>2. PICK H : Follows(H, c, oracle, k, RadarRays + 1)
                   /\ H[<<k, RadarRays + 1>>].frame = taken[<<c, k>>]
      BY <3>1 DEF Ends
    <3>3. PICK G : Follows(G, d, oracle, k, RadarRays + 1)
                   /\ G[<<k, RadarRays + 1>>].frame = taken[<<d, k>>]
      BY <3>1 DEF Ends
    <3>4. k \in Nat /\ k \in 1..k
      OBVIOUS
    <3>7. \A i \in 1..k, j \in 1..(RadarRays + 1) :
             i < k \/ j <= RadarRays + 1 => Alike(c, d, H[<<i, j>>], G[<<i, j>>])
      BY <2>0, <3>2, <3>3, <3>4, Deterministic, Zenon
    <3>8. RadarRays + 1 <= RadarRays + 1
      BY <2>0
    <3>5. Alike(c, d, H[<<k, RadarRays + 1>>], G[<<k, RadarRays + 1>>])
      BY <2>0, <3>4, <3>7, <3>8, Zenon
    <3>6. TargetsOf(H[<<k, RadarRays + 1>>].frame) = TargetsOf(G[<<k, RadarRays + 1>>].frame)
      BY <3>5, Zenon DEF Alike
    <3> QED  BY <3>2, <3>3, <3>6, Zenon
  <2>3. DetectionsInOrder
    <3> SUFFICES ASSUME NEW e \in DOMAIN taken
                 PROVE  \A i, j \in DOMAIN taken[e].detections :
                          i < j => taken[e].detections[i].direction < taken[e].detections[j].direction
      BY DEF DetectionsInOrder
    <3>1. PICK c \in RadarConfigs, k \in Nat \ {0} : c = e[1] /\ k = e[2]
      BY DEF RadarInv
    <3>2. PICK H : Follows(H, c, oracle, k, RadarRays + 1)
                   /\ H[<<k, RadarRays + 1>>].frame = taken[e]
      <4>1. Ends(c, oracle, k, taken[e])
        BY <3>1 DEF RadarInv
      <4> QED  BY <4>1 DEF Ends
    <3>3. Sound(H[<<k, RadarRays + 1>>])
      <4>1. PICK r \in 1..(RadarRays + 1) : r = RadarRays + 1
        BY <2>0
      <4>2. k \in Nat /\ k \in 1..k /\ Follows(H, c, oracle, k, r)
        BY <3>2, <4>1
      <4>3. \A i \in 1..k, j \in 1..(RadarRays + 1) : i < k \/ j <= r => Sound(H[<<i, j>>])
        BY <2>0, <4>2, Deterministic
      <4>4. Sound(H[<<k, r>>])
        BY <2>0, <4>1, <4>2, <4>3
      <4> QED  BY <4>1, <4>4
    <3> QED  BY <3>2, <3>3 DEF Sound, InOrder
  <2> QED  BY <2>1, <2>2, <2>3 DEF RandomnessSeparated
<1> QED
  BY <1>1, RadarStart, RadarStep, PTL DEF RadarSpec
=============================================================================
