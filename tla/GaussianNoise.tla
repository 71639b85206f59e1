--------------------------- MODULE GaussianNoise ---------------------------
(***************************************************************************)
(* GaussianNoiseModel and AxisNoisePipeline (sensors/noise): which random  *)
(* variates a sample is made of.  A generator is its seed and the number   *)
(* of pairs drawn from it; a variate is named by the generator, the pair   *)
(* and its place in the pair.  A local std::normal_distribution takes the  *)
(* first of a pair and forgets the second; the member dist_normal_ keeps   *)
(* the second for its next use.  The value of a variate never matters, only*)
(* whether two samples are made of the same ones.                          *)
(***************************************************************************)
EXTENDS Naturals, Sequences

\* A new model: mt19937 with its default seed, no bias.
NoVariate == <<>>
DefaultSeed == "default"
NewModel == [seed |-> DefaultSeed, at |-> 0, spare |-> NoVariate,
             initialized |-> FALSE, static |-> NoVariate, dynamic |-> {}]

First(m)  == <<m.seed, m.at, 1>>
Second(m) == <<m.seed, m.at, 2>>

\* Reset forgets both biases and leaves both the generator and dist_normal_.
Clear(m) == [m EXCEPT !.initialized = FALSE, !.static = NoVariate, !.dynamic = {}]

Reseed(m, seed) == Clear([m EXCEPT !.seed = seed, !.at = 0])

\* The static bias is drawn by the first sample; without a spread it is the mean.
DrawStatic(m, p) ==
  IF m.initialized THEN m
  ELSE IF p.bias THEN [m EXCEPT !.initialized = TRUE, !.static = First(m), !.at = @ + 1]
  ELSE [m EXCEPT !.initialized = TRUE]

\* The random walk of the dynamic bias takes the kept variate before a new pair.
DrawDynamic(m, p) ==
  IF ~p.walk THEN m
  ELSE IF m.spare # NoVariate THEN [m EXCEPT !.dynamic = @ \cup {m.spare}, !.spare = NoVariate]
  ELSE [m EXCEPT !.dynamic = @ \cup {First(m)}, !.spare = Second(m), !.at = @ + 1]

\* What a sample is made of: both biases and the noise of this sample alone.
Sample(m, p) == [static |-> m.static, dynamic |-> m.dynamic,
                 noise |-> IF p.noise THEN First(m) ELSE NoVariate]

\* Apply(value, params): the model after it and the sample.
Apply(m, p) ==
  IF p.type = "none" THEN [model |-> m, sample |-> Sample(NewModel, [noise |-> FALSE])]
  ELSE LET drawn == DrawDynamic(DrawStatic(m, p), p)
       IN  [model |-> IF p.noise THEN [drawn EXCEPT !.at = @ + 1] ELSE drawn,
            sample |-> Sample(drawn, p)]

\* The variates in a sample.
Variates(s) == ({s.static, s.noise} \cup s.dynamic) \ {NoVariate}
-----------------------------------------------------------------------------
\* SeedManager::Derive32 for the stream "measurement": one seed per arguments.
Derive(experiment, sensor, axis) == <<experiment, sensor, axis>>

\* AxisNoisePipeline's constructor: a model per axis, each with its own seed.
Pipeline(axes, experiment, sensor) ==
  [a \in axes |-> Reseed(NewModel, Derive(experiment, sensor, a))]

PipelineApply(models, params) == [a \in DOMAIN models |-> Apply(models[a], params[a])]

PipelineReset(models) == [a \in DOMAIN models |-> Clear(models[a])]
=============================================================================
