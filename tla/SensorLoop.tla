----------------------------- MODULE SensorLoop -----------------------------
(***************************************************************************)
(* A sensor on the simulation clock: SensorSchedule and                    *)
(* TimedSensorPipeline (timed_sensor_pipeline.hpp) driven by the loop of   *)
(* docs/physical_ai/common_core.md, "Integration boundary": on every       *)
(* physics step the loop asks the schedule for the instants that are due,  *)
(* enqueues one sample for each, and emits what PublishDue returns.  The   *)
(* loop is one thread, but its calls are separate steps, so that whatever  *)
(* is read between two of them is read in a state the program is in.       *)
(***************************************************************************)
EXTENDS TimedSensorPipeline

CONSTANTS
  Period,   \* period_ns_, 1e9 / rate_hz rounded; zero when the rate is not positive
  Phase,    \* phase_sec, in clock units
  MaxStep   \* bound: the longest physics step

ASSUME LoopAssumption ==
  /\ Period \in Nat
  /\ Phase \in Nat
  /\ MaxStep \in Nat \ {0}

VARIABLES
  nextSample,  \* next_sample_ns_
  due,         \* what Due returned and the loop has not sampled yet
  pc           \* where the loop is: "poll", "sample" or "idle"

loopVars == <<vars, nextSample, due, pc>>

\* How many grid instants the catch-up loop of Due passes.
DueCount ==
  IF Period > 0 /\ nextSample <= now THEN (now - nextSample) \div Period + 1 ELSE 0

\* A variant that takes a single sample and skips the instants it missed.
PollSkipping ==
  /\ pc = "poll"
  /\ due' = IF DueCount > 0 THEN <<nextSample>> ELSE <<>>
  /\ nextSample' = nextSample + DueCount * Period
  /\ pc' = "sample"
  /\ UNCHANGED vars

\* A variant that takes a single sample per step and lags behind.
PollOnce ==
  /\ pc = "poll"
  /\ due' = IF DueCount > 0 THEN <<nextSample>> ELSE <<>>
  /\ nextSample' = IF DueCount > 0 THEN nextSample + Period ELSE nextSample
  /\ pc' = "sample"
  /\ UNCHANGED vars

\* SensorSchedule::Due
Poll ==
  /\ pc = "poll"
  /\ due' = [i \in 1..DueCount |-> nextSample + (i - 1) * Period]
  /\ nextSample' = nextSample + DueCount * Period
  /\ pc' = "sample"
  /\ UNCHANGED vars

Sample ==
  /\ pc = "sample" /\ due # <<>>
  /\ Enqueue(Head(due))
  /\ due' = Tail(due)
  /\ UNCHANGED <<nextSample, pc>>

Emit ==
  /\ pc = "sample" /\ due = <<>>
  /\ PublishDue
  /\ pc' = "idle"
  /\ UNCHANGED <<nextSample, due>>

PhysicsStep ==
  /\ pc = "idle"
  /\ Advance /\ now' <= now + MaxStep
  /\ pc' = "poll"
  /\ UNCHANGED <<nextSample, due>>

\* SensorSchedule::Reset goes with the restart of the clock.
RestartEpisode ==
  /\ pc = "idle"
  /\ NewEpisode /\ RestartClock
  /\ nextSample' = Phase
  /\ pc' = "poll"
  /\ UNCHANGED due

\* An episode replay on a clock that runs on: the schedule runs on with it.
ContinueClock ==
  /\ pc = "idle"
  /\ NewEpisode
  /\ UNCHANGED <<now, sampled, nextSample, due, pc>>

LoopInit ==
  /\ Init
  /\ nextSample = Phase
  /\ due = <<>>
  /\ pc = "poll"

LoopNext ==
  \/ PhysicsStep
  \/ Poll
  \/ Sample
  \/ Emit
  \/ RestartEpisode
  \/ ContinueClock

LoopSpec == LoopInit /\ [][LoopNext]_loopVars

\* The thread keeps running: nothing blocks it inside a step, and physics goes on.
LoopFairSpec == LoopSpec /\ WF_loopVars(PhysicsStep \/ Poll \/ Sample \/ Emit)
-----------------------------------------------------------------------------
(***************************************************************************)
(* Catch-up: however long a physics step is, the samples of an episode are *)
(* taken at every instant of the grid, in order, none skipped and none     *)
(* taken twice.                                                            *)
(***************************************************************************)
GridNeverSkipped ==
  [][sampled' # sampled /\ sampled' # -1
       => sampled' = IF sampled = -1 THEN Phase ELSE sampled + Period]_loopVars

(***************************************************************************)
(* ... and nothing that is due has been left in the queue: a long latency  *)
(* at the front never blocks a short one acquired after it.                *)
(***************************************************************************)
NoDueLeftBehind == pc = "idle" => \A i \in DOMAIN queue : queue[i].scheduled > now

(***************************************************************************)
(* A sample is published less than one physics step after its release, the *)
(* samples taken late by a catch-up included.                              *)
(***************************************************************************)
ReleaseDelayBounded ==
  \A i \in DOMAIN log : log[i].publish - log[i].scheduled < MaxStep

(***************************************************************************)
(* Both: what is due is released, and in time.                             *)
(***************************************************************************)
ReleasedInTime == NoDueLeftBehind /\ ReleaseDelayBounded

(***************************************************************************)
(* A queue sized for the longest latency plus the longest physics step     *)
(* never overflows: with no dropout and no dropping window configured,     *)
(* nothing is ever lost.                                                   *)
(***************************************************************************)
NoLossWhenSized ==
  /\ DropoutModel = "none"
  /\ \A w \in DOMAIN Faults : Faults[w].action # "drop"
  /\ Period > 0
  /\ QueueDepth * Period >= LatencyMax + MaxStep
  => droppedCount = 0

(***************************************************************************)
(* The other end of the sizing rule: with DropOldest, a queue that holds   *)
(* no more than one latency's worth of samples evicts every sample before  *)
(* its release, and the consumer never receives anything.                  *)
(***************************************************************************)
StarvedByDropOldest ==
  /\ OverflowPolicy = "drop_oldest"
  /\ Jitter = {0} /\ DropoutModel = "none" /\ Faults = <<>>
  /\ Period > 0
  /\ QueueDepth * Period <= SampleLatency(0)
  => log = <<>>

(***************************************************************************)
(* The sizing rule at both ends: the queue that loses nothing, and the one *)
(* that delivers nothing.                                                  *)
(***************************************************************************)
SizingRule == NoLossWhenSized /\ StarvedByDropOldest

(***************************************************************************)
(* A loss is eventually announced: when something is in flight after a     *)
(* drop, and the simulation goes on for longer than a latency, a later     *)
(* publication carries the flag (or the episode is replayed).  It rests on *)
(* DropNewest, or on a queue that DropOldest does not starve.              *)
(***************************************************************************)
LossEventuallyAnnounced ==
  droppedSincePublish /\ queue # <<>> /\ now + LatencyMax + 2 * MaxStep <= MaxTime
    ~> ~droppedSincePublish
=============================================================================
