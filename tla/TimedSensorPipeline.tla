------------------------- MODULE TimedSensorPipeline -------------------------
(***************************************************************************)
(* One sensor stream of the common core: the latency queue, the loss       *)
(* accounting, the fault windows and the reset rules of                    *)
(* TimedSensorPipeline (include/sensors/common/timed_sensor_pipeline.hpp), *)
(* together with the health record a caller makes from every published     *)
(* envelope (include/sensors/common/sensor_contract.hpp).                  *)
(*                                                                         *)
(* The caller is any single thread that samples at increasing instants of  *)
(* the simulation clock, never in the future, and that publishes and       *)
(* resets whenever it likes; SensorLoop is the caller the documentation    *)
(* describes.  A payload is represented by the acquisition number it was   *)
(* taken under.  The two generators are nondeterministic: Jitter holds     *)
(* the deviations the normal distribution may return, the dropout          *)
(* constants the outcomes a Bernoulli trial of the configured probability  *)
(* may return ({FALSE} for 0, {TRUE} for 1, BOOLEAN in between).           *)
(***************************************************************************)
EXTENDS Integers, Sequences, SequencesExt

CONSTANTS
  LatencyMean,     \* latency.mean_ns
  Jitter,          \* deviations the normal distribution may return
  LatencyMin,      \* latency.min_ns
  LatencyMax,      \* latency.max_ns
  DropoutModel,    \* dropout.model
  DropOutcomes,    \* outcomes of a trial of dropout.probability
  GoodToBad,       \* outcomes of a trial of dropout.good_to_bad
  BadToGood,       \* outcomes of a trial of dropout.bad_to_good
  QueueDepth,      \* queue_depth
  OverflowPolicy,  \* overflow_policy
  StaleAfter,      \* stale_after_ns, zero disables the marking
  Faults,          \* the fault windows, in the order they are configured
  MaxTime,         \* bound: the last instant of the simulation clock
  MaxAttempts      \* bound: acquisitions per episode

FaultWindow == [start : Int, end : Int, action : {"drop", "invalidate"}]

ASSUME PipelineAssumption ==
  /\ LatencyMean \in Int
  /\ Jitter \subseteq Int /\ Jitter # {}
  /\ LatencyMin \in Nat /\ LatencyMax \in Int /\ LatencyMin <= LatencyMax
  /\ DropoutModel \in {"none", "bernoulli", "gilbert_elliott"}
  /\ DropOutcomes \subseteq BOOLEAN /\ DropOutcomes # {}
  /\ GoodToBad \subseteq BOOLEAN /\ GoodToBad # {}
  /\ BadToGood \subseteq BOOLEAN /\ BadToGood # {}
  /\ QueueDepth \in Nat
  /\ OverflowPolicy \in {"drop_oldest", "drop_newest"}
  /\ StaleAfter \in Nat
  /\ Faults \in Seq(FaultWindow)
  /\ MaxTime \in Nat /\ MaxAttempts \in Nat

VARIABLES
  now,                  \* the simulation clock, as the caller passes it
  sampled,              \* source time of the latest acquisition, -1 before any
  queue,                \* queue_: the envelopes in flight
  nextSequence,         \* next_sequence_
  droppedCount,         \* dropped_count_
  droppedSincePublish,  \* dropped_since_publish_
  geBad,                \* ge_bad_state_
  log                   \* what the consumer has been given in this episode

vars == <<now, sampled, queue, nextSequence, droppedCount,
          droppedSincePublish, geBad, log>>

Status == {"VALID", "STALE", "DROPPED_PREVIOUS", "FAULT_INJECTED"}

\* A SensorEnvelope that waits in the queue.
Envelope == [sequence : Nat, source : Nat, scheduled : Nat,
             status : SUBSET Status]

\* A published envelope joined with its SensorHealth record.
Published == [sequence : Nat, source : Nat, scheduled : Nat, publish : Nat,
              status : SUBSET Status, dropped : Nat, depth : Nat]
-----------------------------------------------------------------------------
Enabled(w) == w.start <= w.end

Covers(w, t) == Enabled(w) /\ w.start <= t /\ t <= w.end

\* A variant whose windows exclude their last instant.
ActiveFaultOpenEnd(t) ==
  LET M == {i \in DOMAIN Faults : Covers(Faults[i], t) /\ t < Faults[i].end}
  IN  IF M = {} THEN "none"
      ELSE Faults[CHOOSE i \in M : \A j \in M : i <= j].action

\* The action of the first configured window that covers the source time.
ActiveFault(t) ==
  LET M == {i \in DOMAIN Faults : Covers(Faults[i], t)}
  IN  IF M = {} THEN "none"
      ELSE Faults[CHOOSE i \in M : \A j \in M : i <= j].action

Clamp(v, lo, hi) == IF v < lo THEN lo ELSE IF hi < v THEN hi ELSE v

\* A variant that forgets the clamp at the minimum latency.
LatencyUnclamped(j) == IF LatencyMax < LatencyMean + j THEN LatencyMax ELSE LatencyMean + j

SampleLatency(j) == Clamp(LatencyMean + j, LatencyMin, LatencyMax)

\* What ShouldDrop may return, with the Gilbert-Elliott state it leaves behind.
ShouldDrop ==
  CASE DropoutModel = "none" -> {[drop |-> FALSE, bad |-> geBad]}
    [] DropoutModel = "bernoulli" ->
         {[drop |-> d, bad |-> geBad] : d \in DropOutcomes}
    [] OTHER ->
         {[drop |-> b, bad |-> b] :
            b \in IF geBad THEN {~r : r \in BadToGood} ELSE GoodToBad}

NewEnvelope(src, j) ==
  [sequence  |-> nextSequence,
   source    |-> src,
   scheduled |-> src + SampleLatency(j),
   status    |-> IF ActiveFault(src) = "invalidate" THEN {"FAULT_INJECTED"}
                                                    ELSE {"VALID"}]
-----------------------------------------------------------------------------
(***************************************************************************)
(* The position std::upper_bound returns: everything before it is due no   *)
(* later than t and the envelope at it is due later.                       *)
(***************************************************************************)
\* A variant with the comparison the wrong way round.
ReversedBound(q, t, k) ==
  /\ \A i \in 1..(k - 1) : t <= q[i].scheduled
  /\ k <= Len(q) => q[k].scheduled < t

UpperBound(q, t, k) ==
  /\ \A i \in 1..(k - 1) : q[i].scheduled <= t
  /\ k <= Len(q) => t < q[k].scheduled

InsertByRelease(q, item) ==
  \E k \in 1..(Len(q) + 1) :
    /\ UpperBound(q, item.scheduled, k)
    /\ queue' = InsertAt(q, k, item)

\* A variant that does not remember the loss for the next publication.
LoseSilently ==
  /\ droppedCount' = droppedCount + 1
  /\ UNCHANGED droppedSincePublish

Lose ==
  /\ droppedCount' = droppedCount + 1
  /\ droppedSincePublish' = TRUE

Admit(item) ==
  /\ Len(queue) < QueueDepth
  /\ InsertByRelease(queue, item)
  /\ UNCHANGED <<droppedCount, droppedSincePublish>>

Refuse ==
  /\ Len(queue) >= QueueDepth
  /\ QueueDepth = 0 \/ OverflowPolicy = "drop_newest"
  /\ Lose
  /\ UNCHANGED queue

\* A variant that evicts without accounting for the loss.
EvictSilently(item) ==
  /\ Len(queue) >= QueueDepth
  /\ QueueDepth > 0 /\ OverflowPolicy = "drop_oldest"
  /\ InsertByRelease(Tail(queue), item)
  /\ UNCHANGED <<droppedCount, droppedSincePublish>>

\* The head of the queue, the envelope due earliest, makes room.
Evict(item) ==
  /\ Len(queue) >= QueueDepth
  /\ QueueDepth > 0 /\ OverflowPolicy = "drop_oldest"
  /\ Lose
  /\ InsertByRelease(Tail(queue), item)

\* ShouldDrop is evaluated only outside a "drop" window.
Acquire(src) ==
  \/ /\ ActiveFault(src) = "drop"
     /\ Lose
     /\ UNCHANGED <<queue, geBad>>
  \/ /\ ActiveFault(src) # "drop"
     /\ \E trial \in ShouldDrop :
          /\ geBad' = trial.bad
          /\ \/ trial.drop /\ Lose /\ UNCHANGED queue
             \/ /\ ~trial.drop
                /\ \E j \in Jitter : LET item == NewEnvelope(src, j)
                                     IN  Admit(item) \/ Refuse \/ Evict(item)

Enqueue(src) ==
  /\ nextSequence < MaxAttempts
  /\ sampled' = src
  /\ nextSequence' = nextSequence + 1
  /\ Acquire(src)
  /\ UNCHANGED <<now, log>>
-----------------------------------------------------------------------------
IsDue(item) == item.scheduled <= now

\* The status an envelope leaves with, being the i-th of its batch.
PublishStatus(item, i) ==
  item.status
    \cup (IF StaleAfter > 0 /\ now - item.source > StaleAfter THEN {"STALE"} ELSE {})
    \cup (IF i = 1 /\ droppedSincePublish THEN {"DROPPED_PREVIOUS"} ELSE {})

\* The envelope and the health record made from it once the batch is out.
WithHealth(item, i, left) ==
  [sequence  |-> item.sequence,
   source    |-> item.source,
   scheduled |-> item.scheduled,
   publish   |-> now,
   status    |-> PublishStatus(item, i),
   dropped   |-> droppedCount,
   depth     |-> left]

\* A variant that keeps announcing a loss it has announced.
AnnounceForever(n) == UNCHANGED droppedSincePublish

\* The first envelope of the batch carries the flag, which is then cleared.
Announce(n) == droppedSincePublish' = (droppedSincePublish /\ n = 0)

\* A variant that publishes one envelope per call instead of draining.
DuePrefixOne(n) == n = IF queue # <<>> /\ IsDue(queue[1]) THEN 1 ELSE 0

\* The loop pops while the head is due: it takes the first n envelopes.
DuePrefix(n) ==
  /\ \A i \in 1..n : IsDue(queue[i])
  /\ n < Len(queue) => ~IsDue(queue[n + 1])

PublishDue ==
  \E n \in 0..Len(queue) :
    /\ DuePrefix(n)
    /\ queue' = SubSeq(queue, n + 1, Len(queue))
    /\ log' = log \o [i \in 1..n |-> WithHealth(queue[i], i, Len(queue) - n)]
    /\ Announce(n)
    /\ UNCHANGED <<now, sampled, nextSequence, droppedCount, geBad>>

\* A variant that forgets to clear the queue.
EpisodeReplayKeepsQueue ==
  /\ nextSequence' = 0
  /\ droppedCount' = 0
  /\ droppedSincePublish' = FALSE
  /\ geBad' = FALSE
  /\ UNCHANGED queue

EpisodeReplay ==
  /\ queue' = <<>>
  /\ nextSequence' = 0
  /\ droppedCount' = 0
  /\ droppedSincePublish' = FALSE
  /\ geBad' = FALSE

(***************************************************************************)
(* A new episode: the consumer starts a new log, and the simulation clock  *)
(* is either restarted with the episode or left running.                   *)
(* Reset(RuntimeContinue) returns at once and changes nothing: it is the   *)
(* stuttering step.                                                        *)
(***************************************************************************)
NewEpisode == EpisodeReplay /\ log' = <<>>

RestartClock == now' = 0 /\ sampled' = -1

Reset ==
  /\ NewEpisode
  /\ RestartClock \/ UNCHANGED <<now, sampled>>

\* The simulation advances by a step of any length.
Advance ==
  /\ \E t \in (now + 1)..MaxTime : now' = t
  /\ UNCHANGED <<sampled, queue, nextSequence, droppedCount,
                 droppedSincePublish, geBad, log>>

Init ==
  /\ now = 0
  /\ sampled = -1
  /\ queue = <<>>
  /\ nextSequence = 0
  /\ droppedCount = 0
  /\ droppedSincePublish = FALSE
  /\ geBad = FALSE
  /\ log = <<>>

Next ==
  \/ Advance
  \/ \E src \in (sampled + 1)..now : Enqueue(src)
  \/ PublishDue
  \/ Reset

Spec == Init /\ [][Next]_vars
-----------------------------------------------------------------------------
\* The types of queue, log, counters and clock, as the members of the class declare them.
TypeOK ==
  /\ now \in Nat
  /\ sampled \in Nat \cup {-1}
  /\ queue \in Seq(Envelope)
  /\ nextSequence \in Nat
  /\ droppedCount \in Nat
  /\ droppedSincePublish \in BOOLEAN
  /\ geBad \in BOOLEAN
  /\ log \in Seq(Published)

(***************************************************************************)
(* Every acquisition attempt of the episode is in exactly one place: with  *)
(* the consumer, in the queue, or in the loss counter.  Enqueue spreads    *)
(* the accounting over three early exits and one overflow branch that also *)
(* evicts.                                                                 *)
(***************************************************************************)
EveryAttemptAccounted ==
  nextSequence = Len(log) + Len(queue) + droppedCount

(***************************************************************************)
(* A sequence number names one attempt: no two envelopes, in flight or     *)
(* published, carry the same one, so the join key of the health sidecar    *)
(* is unique within an episode.                                            *)
(***************************************************************************)
JoinKeyUnique ==
  LET Seqs(s) == {s[i].sequence : i \in DOMAIN s}
  IN  /\ \A i, j \in DOMAIN queue : i # j => queue[i].sequence # queue[j].sequence
      /\ \A i, j \in DOMAIN log : i # j => log[i].sequence # log[j].sequence
      /\ Seqs(queue) \cap Seqs(log) = {}

(***************************************************************************)
(* DROPPED_PREVIOUS is exact: a published envelope carries it if and only  *)
(* if the cumulative count grew since the publication before it, and a     *)
(* loss nobody has been told of is always remembered for the next one.     *)
(***************************************************************************)
LossReportedByNextPublish ==
  LET Before(i) == IF i = 1 THEN 0 ELSE log[i - 1].dropped
  IN  /\ \A i \in DOMAIN log :
           "DROPPED_PREVIOUS" \in log[i].status <=> log[i].dropped > Before(i)
      /\ droppedSincePublish <=> droppedCount > Before(Len(log) + 1)

(***************************************************************************)
(* The queue is ordered by release time and, among equals, by acquisition: *)
(* jitter lets a late acquisition overtake, equal releases do not.         *)
(***************************************************************************)
QueueOrdered ==
  \A i, j \in DOMAIN queue : i < j =>
    \/ queue[i].scheduled < queue[j].scheduled
    \/ /\ queue[i].scheduled = queue[j].scheduled
       /\ queue[i].sequence < queue[j].sequence

(***************************************************************************)
(* The queue never outgrows its configured depth, whatever the policy.     *)
(***************************************************************************)
QueueBounded == Len(queue) <= QueueDepth

(***************************************************************************)
(* What the consumer can count on under jitter: a sample is overtaken only *)
(* by samples taken less than the latency spread after it.                 *)
(***************************************************************************)
ReorderBounded ==
  \A i, j \in DOMAIN log :
    i < j /\ log[j].sequence < log[i].sequence
      => log[i].source - log[j].source < LatencyMax - LatencyMin

(***************************************************************************)
(* docs/physical_ai/sensor_contract.md: within one sensor stream, published *)
(* envelopes preserve increasing sequence order.                           *)
(***************************************************************************)
PublishedInSequenceOrder ==
  \A i, j \in DOMAIN log : i < j => log[i].sequence < log[j].sequence

(***************************************************************************)
(* No sample taken inside any enabled fault window reaches the consumer    *)
(* marked VALID, even where windows overlap and the first one listed wins. *)
(***************************************************************************)
FaultyNeverValid ==
  \A i \in DOMAIN log : "VALID" \in log[i].status =>
    \A w \in DOMAIN Faults : ~Covers(Faults[w], log[i].source)

(***************************************************************************)
(* The pipeline keeps the contract of the stream: an attempt is in flight, *)
(* delivered or counted as lost, and the loss is announced once.           *)
(***************************************************************************)
Contract == INSTANCE ObservationContract WITH
  attempts   <- nextSequence,
  pending    <- {queue[i].sequence : i \in DOMAIN queue},
  lost       <- droppedCount,
  unreported <- droppedSincePublish,
  delivered  <- [i \in DOMAIN log |->
                   [sequence  |-> log[i].sequence,
                    afterLoss |-> "DROPPED_PREVIOUS" \in log[i].status]]

\* Every behaviour of the pipeline is one the stream contract allows.
KeepsContract == Contract!Spec
=============================================================================
