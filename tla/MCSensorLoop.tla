---------------------------- MODULE MCSensorLoop ----------------------------
(***************************************************************************)
(* Three loops for TLC that differ in latency, link and queue: one with a  *)
(* fixed latency over a lossy link with dropping windows and DropNewest;   *)
(* one whose queue holds the longest latency plus the longest step, with   *)
(* jitter; and one whose queue holds no more than a single latency.        *)
(***************************************************************************)
EXTENDS SensorLoop

VARIABLE loop  \* which of the three this behaviour is of

\* An invalidating window listed before a dropping one that overlaps it, and
\* a disabled entry.
OverlappingFaults ==
  << [start |-> 1, end |-> 3, action |-> "invalidate"],
     [start |-> 3, end |-> 5, action |-> "drop"],
     [start |-> 7, end |-> 0, action |-> "drop"] >>
Invalidated == [w \in 1..2 |-> [OverlappingFaults[w] EXCEPT !.action = "invalidate"]]

NoJitter == {0}
Never == {FALSE}
Sometimes == {FALSE, TRUE}

Sized == INSTANCE SensorLoop WITH
  LatencyMean <- 1, Jitter <- {-3, 0, 2}, DropoutModel <- "none", QueueDepth <- 3,
  OverflowPolicy <- "drop_oldest", StaleAfter <- 2, Faults <- Invalidated,
  MaxTime <- 9, MaxAttempts <- 6

Short == INSTANCE SensorLoop WITH
  DropoutModel <- "none", QueueDepth <- 1, OverflowPolicy <- "drop_oldest", Faults <- <<>>,
  MaxTime <- 9, MaxAttempts <- 6

ASSUME Sized!PipelineAssumption /\ Short!PipelineAssumption

LoopsInit == loop \in {"lossy", "sized", "short"} /\ LoopInit

LoopsNext ==
  /\ \/ loop = "lossy" /\ LoopNext
     \/ loop = "sized" /\ Sized!LoopNext
     \/ loop = "short" /\ Short!LoopNext
  /\ UNCHANGED loop

loopsVars == <<loopVars, loop>>

\* The thread of the lossy loop keeps running (SensorLoop).
LossyRuns == loop = "lossy" /\ (PhysicsStep \/ Poll \/ Sample \/ Emit) /\ UNCHANGED loop

LoopsSpec == LoopsInit /\ [][LoopsNext]_loopsVars /\ WF_loopsVars(LossyRuns)

\* The long queue loses nothing and the short one delivers nothing (SensorLoop).
SizesRule ==
  /\ loop = "sized" => Sized!SizingRule
  /\ loop = "short" => Short!SizingRule

\* A single latency keeps the stream in sequence order, whatever is lost of it
\* (TimedSensorPipeline).
LossyKeepsOrder == loop = "lossy" => PublishedInSequenceOrder

\* A loss of the lossy link with something in flight behind it is announced
\* (SensorLoop).
LossyAnnounces == loop = "lossy" => LossEventuallyAnnounced
=============================================================================
