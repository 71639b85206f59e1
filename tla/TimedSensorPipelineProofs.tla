---------------------- MODULE TimedSensorPipelineProofs ----------------------
(***************************************************************************)
(* Machine-checked proofs about TimedSensorPipeline, for every latency,    *)
(* dropout, overflow and fault configuration and every bound.              *)
(***************************************************************************)
EXTENDS TimedSensorPipeline, SequenceTheorems, WellFoundedInduction, TLAPS

(***************************************************************************)
(* What an insertion does to the elements of a sequence.                   *)
(***************************************************************************)
LEMMA InsertAtElements ==
  ASSUME NEW S, NEW q \in Seq(S), NEW k \in 1..(Len(q) + 1), NEW e \in S
  PROVE  /\ InsertAt(q, k, e) \in Seq(S)
         /\ Len(InsertAt(q, k, e)) = Len(q) + 1
         /\ \A i \in 1..(Len(q) + 1) :
              InsertAt(q, k, e)[i] = IF i < k THEN q[i]
                                     ELSE IF i = k THEN e ELSE q[i - 1]
<1> DEFINE front == SubSeq(q, 1, k - 1)
           back  == SubSeq(q, k, Len(q))
<1>0. Len(q) \in Nat
  BY LenProperties
<1>1. front \in Seq(S) /\ Len(front) = k - 1 /\ \A i \in 1..(k - 1) : front[i] = q[i]
  BY <1>0, SubSeqProperties
<1>2. /\ back \in Seq(S) /\ Len(back) = Len(q) - k + 1
      /\ \A i \in 1..(Len(q) - k + 1) : back[i] = q[i + k - 1]
  BY <1>0, SubSeqProperties
<1>3. <<e>> \in Seq(S) /\ Len(<<e>>) = 1 /\ <<e>>[1] = e
  OBVIOUS
<1>4. /\ front \o <<e>> \in Seq(S)
      /\ Len(front \o <<e>>) = k
      /\ \A i \in 1..k : (front \o <<e>>)[i] = IF i < k THEN q[i] ELSE e
  BY <1>0, <1>1, <1>3, ConcatProperties
<1>5. \A i \in 1..(Len(q) + 1) : i > k => back[i - k] = q[i - 1]
  BY <1>0, <1>2
<1> DEFINE upto == front \o <<e>>
<1>6. InsertAt(q, k, e) = upto \o back
  BY DEF InsertAt
<1>7. /\ upto \in Seq(S) /\ Len(upto) = k
      /\ \A i \in 1..k : upto[i] = IF i < k THEN q[i] ELSE e
  BY <1>4
<1>8. back \in Seq(S) /\ Len(back) = Len(q) - k + 1
  BY <1>2
<1> HIDE DEF front, back, upto
<1>9. /\ upto \o back \in Seq(S)
      /\ Len(upto \o back) = Len(upto) + Len(back)
      /\ \A i \in 1..(Len(upto) + Len(back)) :
           (upto \o back)[i] = IF i <= Len(upto) THEN upto[i] ELSE back[i - Len(upto)]
  BY <1>7, <1>8, ConcatProperties
<1>10. Len(upto) + Len(back) = Len(q) + 1
  BY <1>0, <1>7, <1>8
<1>11. ASSUME NEW i \in 1..(Len(q) + 1)
       PROVE  (upto \o back)[i] = IF i < k THEN q[i]
                                   ELSE IF i = k THEN e ELSE q[i - 1]
  <2>1. CASE i <= k
    BY <2>1, <1>0, <1>7, <1>9, <1>10
  <2>2. CASE i > k
    BY <2>2, <1>0, <1>5, <1>7, <1>9, <1>10
  <2>3. i <= k \/ i > k
    BY <1>0
  <2> QED
    BY <2>1, <2>2, <2>3, Zenon
<1> QED
  BY <1>6, <1>9, <1>10, <1>11

-----------------------------------------------------------------------------
(***************************************************************************)
(* SampleLatencyNs never leaves the configured interval.                   *)
(***************************************************************************)
LEMMA LatencyInRange ==
  ASSUME NEW j \in Jitter
  PROVE  /\ SampleLatency(j) \in Nat
         /\ LatencyMin <= SampleLatency(j) /\ SampleLatency(j) <= LatencyMax
BY PipelineAssumption DEF SampleLatency, Clamp

\* What Enqueue makes is an envelope, for every draw of the latency.
LEMMA NewEnvelopeType ==
  ASSUME TypeOK, NEW src \in Nat, NEW j \in Jitter
  PROVE  NewEnvelope(src, j) \in Envelope
BY LatencyInRange DEF TypeOK, NewEnvelope, Envelope, Status

(***************************************************************************)
(* How the queue changes, element by element: r is q without its first n   *)
(* envelopes, r is q with item at position k.                              *)
(***************************************************************************)
Drops(q, r, n) ==
  /\ n \in 0..Len(q)
  /\ Len(r) = Len(q) - n
  /\ \A i \in 1..Len(r) : r[i] = q[i + n]

Inserts(q, r, k, item) ==
  /\ k \in 1..(Len(q) + 1)
  /\ Len(r) = Len(q) + 1
  /\ \A i \in 1..Len(r) : r[i] = IF i < k THEN q[i] ELSE IF i = k THEN item ELSE q[i - 1]
  /\ \A i \in 1..(k - 1) : q[i].scheduled <= item.scheduled
  /\ k <= Len(q) => item.scheduled < q[k].scheduled

(***************************************************************************)
(* An acquisition that is kept: it joins the queue, or the queue without   *)
(* its head.                                                               *)
(***************************************************************************)
Kept(src) ==
  /\ ActiveFault(src) # "drop"
  /\ queue' \in Seq(Envelope)
  /\ \E j \in Jitter, n \in {0, 1}, q \in Seq(Envelope), k \in Nat :
       /\ Drops(queue, q, n)
       /\ Inserts(q, queue', k, NewEnvelope(src, j))
       /\ \/ n = 0 /\ Len(queue) < QueueDepth
             /\ UNCHANGED <<droppedCount, droppedSincePublish>>
          \/ n = 1 /\ Len(queue) >= QueueDepth /\ Lose

\* Inserting by release adds one envelope and keeps all others where they were.
LEMMA InsertByReleaseElements ==
  ASSUME NEW q \in Seq(Envelope), NEW item \in Envelope,
         InsertByRelease(q, item)
  PROVE  queue' \in Seq(Envelope) /\ \E k \in Nat : Inserts(q, queue', k, item)
<1>1. PICK k \in 1..(Len(q) + 1) :
        UpperBound(q, item.scheduled, k) /\ queue' = InsertAt(q, k, item)
  BY DEF InsertByRelease
<1> DEFINE r == InsertAt(q, k, item)
<1> HIDE DEF r
<1>a. /\ r \in Seq(Envelope)
      /\ Len(r) = Len(q) + 1
      /\ \A i \in 1..(Len(q) + 1) :
           r[i] = IF i < k THEN q[i] ELSE IF i = k THEN item ELSE q[i - 1]
  BY InsertAtElements, SMTT(60) DEF r
<1>b. queue' = r
  BY <1>1 DEF r
<1>2. /\ queue' \in Seq(Envelope)
      /\ Len(queue') = Len(q) + 1
      /\ \A i \in 1..(Len(q) + 1) :
           queue'[i] = IF i < k THEN q[i] ELSE IF i = k THEN item ELSE q[i - 1]
  BY <1>a, <1>b
<1>3. Inserts(q, queue', k, item)
  BY <1>1, <1>2 DEF UpperBound, Inserts
<1>4. Len(q) \in Nat
  BY LenProperties
<1> QED
  BY <1>2, <1>3, <1>4

\* An envelope that is admitted, or for which the head is evicted, is kept.
LEMMA AdmitOrEvictKeeps ==
  ASSUME TypeOK, NEW src \in Nat, ActiveFault(src) # "drop", NEW j \in Jitter,
         Admit(NewEnvelope(src, j)) \/ Evict(NewEnvelope(src, j))
  PROVE  Kept(src)
<1>1. CASE Admit(NewEnvelope(src, j))
  <2>1. /\ NewEnvelope(src, j) \in Envelope /\ queue \in Seq(Envelope)
        /\ Len(queue) < QueueDepth /\ InsertByRelease(queue, NewEnvelope(src, j))
        /\ UNCHANGED <<droppedCount, droppedSincePublish>>
    BY <1>1, NewEnvelopeType DEF Admit, TypeOK
  <2>2. /\ queue' \in Seq(Envelope)
        /\ \E k \in Nat : Inserts(queue, queue', k, NewEnvelope(src, j))
    BY <2>1, InsertByReleaseElements
  <2>3. Len(queue) \in Nat
    BY <2>1, LenProperties
  <2>4. Drops(queue, queue, 0)
    BY <2>3 DEF Drops
  <2> QED
    BY <2>1, <2>2, <2>4 DEF Kept
<1>2. CASE Evict(NewEnvelope(src, j))
  <2>1. /\ NewEnvelope(src, j) \in Envelope /\ queue \in Seq(Envelope)
        /\ Len(queue) >= QueueDepth /\ QueueDepth > 0
        /\ InsertByRelease(Tail(queue), NewEnvelope(src, j)) /\ Lose
    BY <1>2, NewEnvelopeType DEF Evict, TypeOK
  <2>2. Len(queue) \in Nat /\ Len(queue) > 0 /\ queue # <<>>
    BY <2>1, LenProperties, EmptySeq, PipelineAssumption
  <2>3. /\ Tail(queue) \in Seq(Envelope)
        /\ Len(Tail(queue)) = Len(queue) - 1
        /\ \A i \in 1..Len(Tail(queue)) : Tail(queue)[i] = queue[i + 1]
    BY <2>1, <2>2, HeadTailProperties
  <2>4. Drops(queue, Tail(queue), 1)
    BY <2>2, <2>3 DEF Drops
  <2>5. /\ queue' \in Seq(Envelope)
        /\ \E k \in Nat : Inserts(Tail(queue), queue', k, NewEnvelope(src, j))
    BY <2>1, <2>3, InsertByReleaseElements
  <2> QED
    BY <2>1, <2>3, <2>4, <2>5 DEF Kept
<1> QED BY <1>1, <1>2

(***************************************************************************)
(* What Enqueue does: it numbers the attempt, and loses or keeps it.       *)
(***************************************************************************)
LEMMA EnqueueEffect ==
  ASSUME TypeOK, NEW src \in (sampled + 1)..now, Enqueue(src)
  PROVE  /\ src \in Nat
         /\ sampled' = src
         /\ nextSequence' = nextSequence + 1
         /\ geBad' \in BOOLEAN
         /\ UNCHANGED <<now, log>>
         /\ (Lose /\ UNCHANGED queue) \/ Kept(src)
<1>1. src \in Nat
  BY DEF TypeOK
<1>2. sampled' = src /\ nextSequence' = nextSequence + 1 /\ UNCHANGED <<now, log>>
  BY DEF Enqueue
<1>3. Acquire(src)
  BY DEF Enqueue
<1>4. \A trial \in ShouldDrop : trial.bad \in BOOLEAN
  <2>1. CASE DropoutModel = "none"
    BY <2>1 DEF ShouldDrop, TypeOK
  <2>2. CASE DropoutModel = "bernoulli"
    BY <2>2 DEF ShouldDrop, TypeOK
  <2>3. CASE DropoutModel = "gilbert_elliott"
    <3>1. GoodToBad \subseteq BOOLEAN /\ {~r : r \in BadToGood} \subseteq BOOLEAN
      BY PipelineAssumption
    <3>2. ShouldDrop = {[drop |-> b, bad |-> b] :
                          b \in IF geBad THEN {~r : r \in BadToGood} ELSE GoodToBad}
      BY <2>3 DEF ShouldDrop
    <3> QED
      BY <3>1, <3>2
  <2> QED
    BY <2>1, <2>2, <2>3, PipelineAssumption
<1>5. geBad' \in BOOLEAN
  BY <1>3, <1>4 DEF Acquire, TypeOK
<1>6. ASSUME ActiveFault(src) # "drop", NEW j \in Jitter,
             Admit(NewEnvelope(src, j)) \/ Evict(NewEnvelope(src, j))
      PROVE  Kept(src)
  BY <1>1, <1>6, AdmitOrEvictKeeps
<1>7. (Lose /\ UNCHANGED queue) \/ Kept(src)
  BY <1>3, <1>6 DEF Acquire, Refuse
<1> QED
  BY <1>1, <1>2, <1>5, <1>7

\* Without a dropout and outside a dropping window only a full queue loses an attempt.
LEMMA LossCause ==
  ASSUME TypeOK, NEW src \in Nat, Enqueue(src),
         DropoutModel = "none", ActiveFault(src) # "drop"
  PROVE  Refuse \/ Kept(src)
<1>1. \A trial \in ShouldDrop : ~trial.drop
  BY DEF ShouldDrop
<1>2. Acquire(src)
  BY DEF Enqueue
<1>3. PICK j \in Jitter : LET item == NewEnvelope(src, j)
                          IN  Admit(item) \/ Refuse \/ Evict(item)
  BY <1>1, <1>2 DEF Acquire
<1> QED BY <1>3, AdmitOrEvictKeeps

(***************************************************************************)
(* What PublishDue does: it hands the first n envelopes to the consumer.   *)
(***************************************************************************)
PublishedPrefix(n) ==
  /\ DuePrefix(n)
  /\ queue' \in Seq(Envelope)
  /\ Drops(queue, queue', n)
  /\ log' \in Seq(Published)
  /\ Len(log') = Len(log) + n
  /\ \A i \in 1..Len(log') :
       log'[i] = IF i <= Len(log) THEN log[i]
                 ELSE WithHealth(queue[i - Len(log)], i - Len(log), Len(queue) - n)
  /\ Announce(n)

\* What PublishDue makes of an envelope is a publication.
LEMMA WithHealthType ==
  ASSUME TypeOK, NEW item \in Envelope, NEW i, NEW left \in Nat
  PROVE  WithHealth(item, i, left) \in Published
<1>1. PublishStatus(item, i) \in SUBSET Status
  BY DEF PublishStatus, Envelope, Status
<1> QED
  BY <1>1 DEF WithHealth, Published, Envelope, TypeOK

\* PublishDue takes a prefix off the queue and puts it behind the log.
LEMMA PublishEffect ==
  ASSUME TypeOK, PublishDue
  PROVE  /\ UNCHANGED <<now, sampled, nextSequence, droppedCount, geBad>>
         /\ \E n \in 0..Len(queue) : PublishedPrefix(n)
<1>1. PICK n \in 0..Len(queue) :
        /\ DuePrefix(n)
        /\ queue' = SubSeq(queue, n + 1, Len(queue))
        /\ log' = log \o [i \in 1..n |-> WithHealth(queue[i], i, Len(queue) - n)]
        /\ Announce(n)
        /\ UNCHANGED <<now, sampled, nextSequence, droppedCount, geBad>>
  BY DEF PublishDue
<1>2. /\ queue \in Seq(Envelope) /\ Len(queue) \in Nat
      /\ \A i \in 1..Len(queue) : queue[i] \in Envelope
      /\ log \in Seq(Published) /\ Len(log) \in Nat
  BY LenProperties DEF TypeOK
<1>3. queue' \in Seq(Envelope) /\ Drops(queue, queue', n)
  BY <1>1, <1>2, SubSeqProperties DEF Drops
<1> DEFINE batch == [i \in 1..n |-> WithHealth(queue[i], i, Len(queue) - n)]
<1>4. /\ batch \in Seq(Published) /\ Len(batch) = n
      /\ \A i \in 1..n : batch[i] = WithHealth(queue[i], i, Len(queue) - n)
  <2>1. \A i \in 1..n : WithHealth(queue[i], i, Len(queue) - n) \in Published
    BY <1>2, WithHealthType
  <2> QED
    BY <1>2, <2>1
<1> HIDE DEF batch
<1>5. /\ log \o batch \in Seq(Published)
      /\ Len(log \o batch) = Len(log) + n
      /\ \A i \in 1..(Len(log) + n) :
           (log \o batch)[i] = IF i <= Len(log) THEN log[i] ELSE batch[i - Len(log)]
  BY <1>2, <1>4, ConcatProperties
<1>6. log' = log \o batch
  BY <1>1 DEF batch
<1>7. \A i \in 1..Len(log') :
        log'[i] = IF i <= Len(log) THEN log[i]
                  ELSE WithHealth(queue[i - Len(log)], i - Len(log), Len(queue) - n)
  BY <1>2, <1>4, <1>5, <1>6
<1>8. PublishedPrefix(n)
  BY <1>1, <1>3, <1>5, <1>6, <1>7 DEF PublishedPrefix
<1> QED
  BY <1>1, <1>8
-----------------------------------------------------------------------------
(***************************************************************************)
(* The variables of the pipeline keep their types.                         *)
(***************************************************************************)
LEMMA EmptyQueueAndLog == <<>> \in Seq(Envelope) /\ <<>> \in Seq(Published)
BY EmptySeq

\* The pipeline as constructed has its types.
LEMMA TypeInit == Init => TypeOK
<1> SUFFICES ASSUME Init PROVE TypeOK
  OBVIOUS
<1>1. now \in Nat /\ nextSequence \in Nat /\ droppedCount \in Nat
  BY DEF Init
<1>2. sampled \in Nat \cup {-1}
  BY DEF Init
<1>3. queue \in Seq(Envelope) /\ log \in Seq(Published)
  BY EmptyQueueAndLog DEF Init
<1>4. droppedSincePublish \in BOOLEAN /\ geBad \in BOOLEAN
  BY DEF Init
<1> QED
  BY <1>1, <1>2, <1>3, <1>4 DEF TypeOK

\* Every operation keeps the types.
LEMMA TypeNext == TypeOK /\ [Next]_vars => TypeOK'
<1> SUFFICES ASSUME TypeOK, [Next]_vars PROVE TypeOK'
  OBVIOUS
<1>1. CASE Advance
  BY <1>1, PipelineAssumption DEF Advance, TypeOK
<1>2. ASSUME NEW src \in (sampled + 1)..now, Enqueue(src) PROVE TypeOK'
  <2>1. /\ src \in Nat /\ sampled' = src /\ nextSequence' = nextSequence + 1
        /\ geBad' \in BOOLEAN /\ UNCHANGED <<now, log>>
        /\ (Lose /\ UNCHANGED queue) \/ Kept(src)
    BY <1>2, EnqueueEffect
  <2>2. CASE Lose /\ UNCHANGED queue
    BY <2>1, <2>2 DEF Lose, TypeOK
  <2>3. CASE Kept(src)
    <3>1. queue' \in Seq(Envelope)
      BY <2>3 DEF Kept
    <3>2. Lose \/ UNCHANGED <<droppedCount, droppedSincePublish>>
      BY <2>3 DEF Kept
    <3>3. droppedCount' \in Nat
      BY <3>2 DEF Lose, TypeOK
    <3>4. droppedSincePublish' \in BOOLEAN
      BY <3>2 DEF Lose, TypeOK
    <3> QED
      BY <2>1, <3>1, <3>3, <3>4 DEF TypeOK
  <2> QED
    BY <2>1, <2>2, <2>3
<1>3. CASE PublishDue
  BY <1>3, PublishEffect DEF PublishedPrefix, Announce, TypeOK
<1>4. CASE Reset
  <2>1. nextSequence' \in Nat /\ droppedCount' \in Nat
    BY <1>4 DEF Reset, NewEpisode, EpisodeReplay
  <2>2. now' \in Nat /\ sampled' \in Nat \cup {-1}
    BY <1>4 DEF Reset, RestartClock, TypeOK
  <2>3. queue' \in Seq(Envelope) /\ log' \in Seq(Published)
    BY <1>4, EmptyQueueAndLog DEF Reset, NewEpisode, EpisodeReplay
  <2>4. droppedSincePublish' \in BOOLEAN /\ geBad' \in BOOLEAN
    BY <1>4 DEF Reset, NewEpisode, EpisodeReplay
  <2> QED
    BY <2>1, <2>2, <2>3, <2>4 DEF TypeOK
<1>5. CASE UNCHANGED vars
  BY <1>5 DEF vars, TypeOK
<1> QED
  BY <1>1, <1>2, <1>3, <1>4, <1>5 DEF Next

\* Every queue, log, counter and clock has its type, whatever the configuration.
THEOREM TypeCorrect == Spec => []TypeOK
BY TypeInit, TypeNext, PTL DEF Spec
-----------------------------------------------------------------------------
(***************************************************************************)
(* The types of the fields the proofs below compute with.                  *)
(***************************************************************************)
LEMMA ElementTypes ==
  ASSUME TypeOK
  PROVE  /\ Len(queue) \in Nat /\ DOMAIN queue = 1..Len(queue)
         /\ \A i \in 1..Len(queue) : /\ queue[i].sequence \in Nat
                                     /\ queue[i].source \in Nat
                                     /\ queue[i].scheduled \in Nat
         /\ Len(log) \in Nat /\ DOMAIN log = 1..Len(log)
         /\ \A i \in 1..Len(log) : /\ log[i].sequence \in Nat
                                   /\ log[i].source \in Nat
                                   /\ log[i].scheduled \in Nat
                                   /\ log[i].dropped \in Nat
<1>1. queue \in [1..Len(queue) -> Envelope] /\ Len(queue) \in Nat
  BY LenProperties DEF TypeOK
<1>2. log \in [1..Len(log) -> Published] /\ Len(log) \in Nat
  BY LenProperties DEF TypeOK
<1> QED
  BY <1>1, <1>2 DEF Envelope, Published

(***************************************************************************)
(* The five kinds of step the invariants have to survive.                  *)
(***************************************************************************)
Idle ==
  UNCHANGED <<sampled, queue, nextSequence, droppedCount, droppedSincePublish, log>>

LosingStep ==
  /\ sampled < sampled'
  /\ nextSequence' = nextSequence + 1
  /\ Lose
  /\ UNCHANGED <<queue, log>>

KeepingStep(src) ==
  /\ sampled < src /\ sampled' = src
  /\ nextSequence' = nextSequence + 1
  /\ Kept(src)
  /\ UNCHANGED log

PublishingStep ==
  /\ \E n \in 0..Len(queue) : PublishedPrefix(n)
  /\ UNCHANGED <<sampled, nextSequence, droppedCount>>

FreshStart ==
  /\ queue' = <<>> /\ log' = <<>>
  /\ nextSequence' = 0 /\ droppedCount' = 0 /\ droppedSincePublish' = FALSE

\* What the operations do to queue and log: nothing, a loss, an arrival, a publication or a restart.
LEMMA StepKinds ==
  ASSUME TypeOK, [Next]_vars
  PROVE  \/ Idle
         \/ LosingStep
         \/ \E src \in Nat : KeepingStep(src)
         \/ PublishingStep
         \/ FreshStart
<1>1. CASE Advance
  BY <1>1 DEF Advance, Idle
<1>2. ASSUME NEW src \in (sampled + 1)..now, Enqueue(src)
      PROVE  LosingStep \/ \E s \in Nat : KeepingStep(s)
  <2>1. sampled < src
    BY DEF TypeOK
  <2> QED
    BY <1>2, <2>1, EnqueueEffect DEF LosingStep, KeepingStep
<1>3. CASE PublishDue
  BY <1>3, PublishEffect DEF PublishingStep
<1>4. CASE Reset
  BY <1>4 DEF Reset, NewEpisode, EpisodeReplay, FreshStart
<1>5. CASE UNCHANGED vars
  BY <1>5 DEF vars, Idle
<1> QED
  BY <1>1, <1>2, <1>3, <1>4, <1>5 DEF Next
-----------------------------------------------------------------------------
(***************************************************************************)
(* Every acquisition attempt is delivered, in flight, or counted as lost.  *)
(***************************************************************************)
LEMMA AccountedNext ==
  ASSUME TypeOK, EveryAttemptAccounted, [Next]_vars
  PROVE  EveryAttemptAccounted'
<1> USE DEF EveryAttemptAccounted
<1>1. /\ Len(queue) \in Nat /\ Len(log) \in Nat
      /\ droppedCount \in Nat /\ nextSequence \in Nat
  BY ElementTypes DEF TypeOK
<1>2. CASE Idle
  BY <1>2 DEF Idle
<1>3. CASE LosingStep
  BY <1>1, <1>3 DEF LosingStep, Lose
<1>4. ASSUME NEW src \in Nat, KeepingStep(src) PROVE EveryAttemptAccounted'
  <2>1. PICK n \in {0, 1}, q \in Seq(Envelope), k \in Nat, item \in Envelope :
          /\ Drops(queue, q, n)
          /\ Inserts(q, queue', k, item)
          /\ \/ n = 0 /\ UNCHANGED droppedCount
             \/ n = 1 /\ Lose
    BY <1>4, NewEnvelopeType DEF KeepingStep, Kept
  <2>2. Len(queue') = Len(queue) - n + 1
    BY <1>1, <2>1 DEF Drops, Inserts
  <2>3. droppedCount' = droppedCount + n
    BY <1>1, <2>1 DEF Lose
  <2> QED
    BY <1>1, <1>4, <2>2, <2>3 DEF KeepingStep
<1>5. CASE PublishingStep
  <2>1. PICK n \in 0..Len(queue) :
          Len(queue') = Len(queue) - n /\ Len(log') = Len(log) + n
    BY <1>5 DEF PublishingStep, PublishedPrefix, Drops
  <2> QED
    BY <1>1, <1>5, <2>1 DEF PublishingStep
<1>6. CASE FreshStart
  BY <1>6, EmptySeq DEF FreshStart
<1> QED
  BY <1>2, <1>3, <1>4, <1>5, <1>6, StepKinds

\* No attempt is ever unaccounted for: published, in flight or counted as dropped.
THEOREM Accounted == Spec => []EveryAttemptAccounted
<1>1. Init => EveryAttemptAccounted
  BY EmptySeq DEF Init, EveryAttemptAccounted
<1>2. TypeOK /\ EveryAttemptAccounted /\ [Next]_vars => EveryAttemptAccounted'
  BY AccountedNext
<1> QED
  BY <1>1, <1>2, TypeCorrect, PTL DEF Spec

(***************************************************************************)
(* The queue never holds more than queue_depth envelopes.                  *)
(***************************************************************************)
THEOREM Bounded == Spec => []QueueBounded
<1>1. Init => QueueBounded
  BY PipelineAssumption, EmptySeq DEF Init, QueueBounded
<1>2. TypeOK /\ QueueBounded /\ [Next]_vars => QueueBounded'
  <2> SUFFICES ASSUME TypeOK, QueueBounded, [Next]_vars PROVE QueueBounded'
    OBVIOUS
  <2> USE PipelineAssumption, ElementTypes DEF QueueBounded
  <2>1. CASE Idle \/ LosingStep
    BY <2>1 DEF Idle, LosingStep
  <2>2. ASSUME NEW src \in Nat, KeepingStep(src) PROVE QueueBounded'
    BY <2>2 DEF KeepingStep, Kept, Drops, Inserts
  <2>3. CASE PublishingStep
    BY <2>3 DEF PublishingStep, PublishedPrefix, Drops
  <2>4. CASE FreshStart
    BY <2>4, EmptySeq DEF FreshStart
  <2> QED
    BY <2>1, <2>2, <2>3, <2>4, StepKinds
<1> QED
  BY <1>1, <1>2, TypeCorrect, PTL DEF Spec
-----------------------------------------------------------------------------
\* Whatever is in the queue after an acquisition was there before, but for the newcomer.
LEMMA KeptElements ==
  ASSUME TypeOK, NEW src \in Nat, Kept(src)
  PROVE  \E j \in Jitter : \A i \in 1..Len(queue') :
           \/ queue'[i] = NewEnvelope(src, j)
           \/ \E m \in 1..Len(queue) : queue'[i] = queue[m]
<1>1. PICK j \in Jitter, n \in {0, 1}, q \in Seq(Envelope), k \in Nat :
        Drops(queue, q, n) /\ Inserts(q, queue', k, NewEnvelope(src, j))
  BY DEF Kept
<1> DEFINE item == NewEnvelope(src, j)
<1>2. Len(q) \in Nat /\ Len(queue) \in Nat
  BY LenProperties, ElementTypes
<1>3. /\ k \in 1..(Len(q) + 1) /\ Len(queue') = Len(q) + 1
      /\ \A i \in 1..Len(queue') :
           queue'[i] = IF i < k THEN q[i] ELSE IF i = k THEN item ELSE q[i - 1]
  BY <1>1 DEF Inserts
<1>4. \A m \in 1..Len(q) : m + n \in 1..Len(queue) /\ q[m] = queue[m + n]
  BY <1>1, <1>2 DEF Drops
<1> HIDE DEF item
<1>5. ASSUME NEW i \in 1..Len(queue')
      PROVE  \/ queue'[i] = item
             \/ i \in 1..Len(q) /\ queue'[i] = q[i]
             \/ i - 1 \in 1..Len(q) /\ queue'[i] = q[i - 1]
  BY <1>2, <1>3
<1>6. \A i \in 1..Len(queue') :
        queue'[i] = item \/ \E m \in 1..Len(queue) : queue'[i] = queue[m]
  BY <1>4, <1>5
<1> QED BY <1>6 DEF item

(***************************************************************************)
(* Fault windows.  No action but "none" is found exactly where no enabled  *)
(* window covers the instant, so an envelope that was marked VALID when it *)
(* was made is of no faulty instant, and nothing adds VALID to it later.   *)
(***************************************************************************)
Healthy(t) == \A w \in DOMAIN Faults : ~Covers(Faults[w], t)

SoundInv ==
  /\ \A i \in 1..Len(queue) : "VALID" \in queue[i].status => Healthy(queue[i].source)
  /\ \A i \in 1..Len(log) : "VALID" \in log[i].status => Healthy(log[i].source)

\* A set of naturals that is not empty has a least element.
LEMMA LeastElement ==
  ASSUME NEW S \in SUBSET Nat, S # {}
  PROVE  \E n \in S : \A j \in S : n <= j
<1> DEFINE Less == {ss \in Nat \X Nat : ss[1] < ss[2]}
<1>1. IsWellFoundedOn(Less, Nat)
  BY NatLessThanWellFounded DEF OpToRel
<1>2. \A x, y \in Nat : <<y, x>> \notin Less => x <= y
  OBVIOUS
<1> HIDE DEF Less
<1>3. \E x \in S : \A y \in S : <<y, x>> \notin Less
  BY <1>1, WFMin
<1> QED
  BY <1>2, <1>3

\* The action that is found is that of a window that covers the instant.
LEMMA FoundInWindow ==
  ASSUME NEW t \in Nat
  PROVE  \/ ActiveFault(t) = "none" /\ Healthy(t)
         \/ \E w \in DOMAIN Faults :
              Covers(Faults[w], t) /\ ActiveFault(t) = Faults[w].action
<1> DEFINE M == {i \in DOMAIN Faults : Covers(Faults[i], t)}
<1>1. CASE M = {}
  BY <1>1 DEF ActiveFault, Healthy
<1>2. CASE M # {}
  <2>1. M \in SUBSET Nat
    <3>1. Faults \in Seq(FaultWindow)
      BY PipelineAssumption
    <3>2. DOMAIN Faults \subseteq Nat
      BY <3>1, LenProperties
    <3> QED BY <3>2
  <2>2. \E n \in M : \A j \in M : n <= j
    <3> HIDE DEF M
    <3> QED BY <1>2, <2>1, LeastElement
  <2>3. (CHOOSE i \in M : \A j \in M : i <= j) \in M
    BY <2>2
  <2> QED BY <1>2, <2>3 DEF ActiveFault
<1> QED BY <1>1, <1>2

\* An instant whose action is neither of the two is of no window.
LEMMA FaultFound ==
  ASSUME NEW t \in Nat, ActiveFault(t) \notin {"drop", "invalidate"}
  PROVE  Healthy(t)
<1>1. Faults \in Seq(FaultWindow)
  BY PipelineAssumption
<1>2. Faults \in [1..Len(Faults) -> FaultWindow]
  BY <1>1, LenProperties
<1>3. \A w \in DOMAIN Faults : Faults[w].action \in {"drop", "invalidate"}
  BY <1>2 DEF FaultWindow
<1> QED BY <1>3, FoundInWindow

\* An acquisition that is kept is VALID only when no window covers it; a publication adds no VALID.
LEMMA SoundNext ==
  ASSUME TypeOK, SoundInv, [Next]_vars
  PROVE  SoundInv'
<1> USE DEF SoundInv
<1>1. Len(queue) \in Nat /\ Len(log) \in Nat
  BY ElementTypes
<1>2. CASE Idle \/ LosingStep
  BY <1>2 DEF Idle, LosingStep
<1>3. ASSUME NEW src \in Nat, KeepingStep(src) PROVE SoundInv'
  <2>1. PICK j \in Jitter : \A i \in 1..Len(queue') :
          \/ queue'[i] = NewEnvelope(src, j)
          \/ \E m \in 1..Len(queue) : queue'[i] = queue[m]
    BY <1>3, KeptElements DEF KeepingStep
  <2> DEFINE item == NewEnvelope(src, j)
  <2>2. "VALID" \in item.status => Healthy(item.source)
    <3>1. item.source = src /\ ActiveFault(src) # "drop"
      BY <1>3 DEF NewEnvelope, KeepingStep, Kept
    <3>2. "VALID" \in item.status => ActiveFault(src) # "invalidate"
      BY DEF NewEnvelope
    <3> QED BY <3>1, <3>2, FaultFound
  <2>3. log' = log
    BY <1>3 DEF KeepingStep
  <2> HIDE DEF item
  <2>4. \A i \in 1..Len(queue') :
          queue'[i] = item \/ \E m \in 1..Len(queue) : queue'[i] = queue[m]
    BY <2>1 DEF item
  <2> QED BY <2>2, <2>3, <2>4
<1>4. CASE PublishingStep
  <2>1. PICK n \in 0..Len(queue) : PublishedPrefix(n)
    BY <1>4 DEF PublishingStep
  <2>2. \A i \in 1..Len(queue') : i + n \in 1..Len(queue) /\ queue'[i] = queue[i + n]
    BY <1>1, <2>1 DEF PublishedPrefix, Drops
  <2>3. ASSUME NEW i \in 1..Len(log'), "VALID" \in log'[i].status
        PROVE  Healthy(log'[i].source)
    <3>1. CASE i <= Len(log)
      BY <1>1, <2>1, <2>3, <3>1 DEF PublishedPrefix
    <3>2. CASE i > Len(log)
      <4> DEFINE item == queue[i - Len(log)]
      <4>1. /\ i - Len(log) \in 1..Len(queue)
            /\ log'[i] = WithHealth(item, i - Len(log), Len(queue) - n)
        BY <1>1, <2>1, <3>2 DEF PublishedPrefix
      <4>2. log'[i].source = item.source /\ "VALID" \in item.status
        BY <2>3, <4>1 DEF WithHealth, PublishStatus
      <4> QED BY <4>1, <4>2
    <3> QED BY <1>1, <3>1, <3>2
  <2> QED BY <2>2, <2>3
<1>5. CASE FreshStart
  BY <1>5, EmptySeq DEF FreshStart
<1> QED
  BY <1>2, <1>3, <1>4, <1>5, StepKinds

(***************************************************************************)
(* No sample of a faulty instant is ever delivered as VALID, whatever the  *)
(* windows, their order and their overlaps, and whatever the latency.      *)
(***************************************************************************)
THEOREM FaultsAreMarked == Spec => []FaultyNeverValid
<1>1. Init => SoundInv
  BY EmptySeq DEF Init, SoundInv
<1>2. TypeOK /\ SoundInv /\ [Next]_vars => SoundInv'
  BY SoundNext
<1>3. TypeOK /\ SoundInv => FaultyNeverValid
  BY ElementTypes DEF SoundInv, Healthy, FaultyNeverValid
<1> QED
  BY <1>1, <1>2, <1>3, TypeCorrect, PTL DEF Spec
-----------------------------------------------------------------------------
(***************************************************************************)
(* Losses.  The count in the health record of the publication before the   *)
(* i-th one, and none before the first.                                    *)
(***************************************************************************)
CountBefore(published, i) == IF i = 1 THEN 0 ELSE published[i - 1].dropped

\* The flag is set at publication only, and no record is ahead of the counter.
LossInv ==
  /\ \A i \in 1..Len(queue) : "DROPPED_PREVIOUS" \notin queue[i].status
  /\ CountBefore(log, Len(log) + 1) <= droppedCount
  /\ droppedSincePublish <=> droppedCount > CountBefore(log, Len(log) + 1)
  /\ \A i \in 1..Len(log) :
       "DROPPED_PREVIOUS" \in log[i].status <=> log[i].dropped > CountBefore(log, i)

\* What a batch of n publications does to the counts in the log.
LEMMA LossPublished ==
  ASSUME TypeOK, LossInv, NEW n \in 0..Len(queue), PublishedPrefix(n),
         UNCHANGED droppedCount
  PROVE  /\ CountBefore(log', Len(log') + 1) <= droppedCount'
         /\ droppedSincePublish' <=> droppedCount' > CountBefore(log', Len(log') + 1)
         /\ \A i \in 1..Len(log') :
              "DROPPED_PREVIOUS" \in log'[i].status <=> log'[i].dropped > CountBefore(log', i)
<1>1. /\ Len(queue) \in Nat /\ Len(log) \in Nat /\ n \in Nat
      /\ droppedCount \in Nat /\ droppedSincePublish \in BOOLEAN
      /\ \A i \in 1..Len(log) : log[i].dropped \in Nat
  BY ElementTypes DEF TypeOK
<1>2. Len(log') = Len(log) + n
  BY DEF PublishedPrefix
<1>3. \A i \in 1..Len(log) : log'[i] = log[i]
  BY <1>1, <1>2 DEF PublishedPrefix
<1>4. ASSUME NEW i \in 1..Len(log'), i > Len(log)
      PROVE  /\ i - Len(log) \in 1..n
             /\ log'[i].dropped = droppedCount
             /\ "DROPPED_PREVIOUS" \in log'[i].status
                  <=> i = Len(log) + 1 /\ droppedSincePublish
  <2> DEFINE item == queue[i - Len(log)]
  <2>1. /\ i - Len(log) \in 1..n /\ i - Len(log) \in 1..Len(queue)
        /\ log'[i] = WithHealth(item, i - Len(log), Len(queue) - n)
    BY <1>1, <1>2, <1>4 DEF PublishedPrefix
  <2>2. "DROPPED_PREVIOUS" \notin item.status
    BY <2>1 DEF LossInv
  <2>3. /\ log'[i].dropped = droppedCount
        /\ log'[i].status = PublishStatus(item, i - Len(log))
    BY <2>1 DEF WithHealth
  <2>4. "DROPPED_PREVIOUS" \in PublishStatus(item, i - Len(log))
          <=> i - Len(log) = 1 /\ droppedSincePublish
    BY <2>2 DEF PublishStatus
  <2> QED BY <1>1, <1>2, <2>1, <2>3, <2>4
<1>5. ASSUME NEW i \in 1..(Len(log) + 1)
      PROVE  CountBefore(log', i) = CountBefore(log, i)
  <2>1. i = 1 \/ i - 1 \in 1..Len(log)
    BY <1>1
  <2> QED BY <1>3, <2>1 DEF CountBefore
<1>6. ASSUME NEW i \in 1..Len(log')
      PROVE  "DROPPED_PREVIOUS" \in log'[i].status <=> log'[i].dropped > CountBefore(log', i)
  <2>1. CASE i <= Len(log)
    BY <1>1, <1>3, <1>5, <2>1 DEF LossInv
  <2>2. CASE i = Len(log) + 1
    BY <1>1, <1>4, <1>5, <2>2 DEF LossInv
  <2>3. CASE i > Len(log) + 1
    <3>1. i - 1 \in 1..Len(log') /\ i - 1 > Len(log) /\ i # 1
      BY <1>1, <1>2, <2>3
    <3>2. CountBefore(log', i) = droppedCount
      BY <1>4, <3>1 DEF CountBefore
    <3> QED BY <1>1, <1>2, <1>4, <2>3, <3>2
  <2> QED BY <1>1, <1>2, <2>1, <2>2, <2>3
<1>7. CASE n = 0
  <2>1. droppedSincePublish' = droppedSincePublish /\ Len(log') = Len(log)
    BY <1>1, <1>2, <1>7 DEF PublishedPrefix, Announce
  <2>2. CountBefore(log', Len(log') + 1) = CountBefore(log, Len(log) + 1)
    BY <1>1, <1>5, <2>1
  <2> QED BY <1>6, <2>1, <2>2 DEF LossInv
<1>8. CASE n > 0
  <2>1. droppedSincePublish' = FALSE
    <3>1. droppedSincePublish' = (droppedSincePublish /\ n = 0) /\ n # 0
      BY <1>1, <1>8 DEF PublishedPrefix, Announce
    <3> QED BY Zenon, <3>1
  <2>2. CountBefore(log', Len(log') + 1) = droppedCount
    <3>1. Len(log') \in 1..Len(log') /\ Len(log') > Len(log) /\ Len(log') \in Nat
      BY <1>1, <1>2, <1>8
    <3> QED BY <1>4, <3>1 DEF CountBefore
  <2> QED BY <1>1, <1>6, <2>1, <2>2
<1> QED BY <1>1, <1>7, <1>8
\* Every loss is remembered until the next publication, which is the one to carry it.
LEMMA LossNext ==
  ASSUME TypeOK, LossInv, [Next]_vars
  PROVE  LossInv'
<1>1. /\ Len(queue) \in Nat /\ Len(log) \in Nat
      /\ droppedCount \in Nat /\ droppedSincePublish \in BOOLEAN
      /\ CountBefore(log, Len(log) + 1) \in Nat
  BY ElementTypes DEF TypeOK, CountBefore
<1>2. CASE Idle
  BY <1>2 DEF Idle, LossInv, CountBefore
<1>3. ASSUME Lose, log' = log
      PROVE  /\ CountBefore(log', Len(log') + 1) <= droppedCount'
             /\ droppedSincePublish' <=> droppedCount' > CountBefore(log', Len(log') + 1)
  <2>1. /\ droppedCount' = droppedCount + 1 /\ droppedSincePublish' = TRUE
        /\ CountBefore(log', Len(log') + 1) = CountBefore(log, Len(log) + 1)
    BY <1>3 DEF Lose, CountBefore
  <2>2. CountBefore(log, Len(log) + 1) < droppedCount + 1
    BY <1>1 DEF LossInv
  <2> QED BY <1>1, <2>1, <2>2
<1>4. ASSUME log' = log
      PROVE  \A i \in 1..Len(log') :
               "DROPPED_PREVIOUS" \in log'[i].status <=> log'[i].dropped > CountBefore(log', i)
  BY <1>4 DEF LossInv, CountBefore
<1>5. CASE LosingStep
  BY <1>3, <1>4, <1>5 DEF LosingStep, LossInv
<1>6. ASSUME NEW src \in Nat, KeepingStep(src) PROVE LossInv'
  <2>1. Lose \/ UNCHANGED <<droppedCount, droppedSincePublish>>
    BY <1>6 DEF KeepingStep, Kept
  <2>2. log' = log
    BY <1>6 DEF KeepingStep
  <2>3. \A i \in 1..Len(queue') : "DROPPED_PREVIOUS" \notin queue'[i].status
    <3>1. \A j \in Jitter : "DROPPED_PREVIOUS" \notin NewEnvelope(src, j).status
      BY DEF NewEnvelope
    <3>2. PICK j \in Jitter : \A i \in 1..Len(queue') :
            \/ queue'[i] = NewEnvelope(src, j)
            \/ \E m \in 1..Len(queue) : queue'[i] = queue[m]
      BY <1>6, KeptElements DEF KeepingStep
    <3> QED BY <3>1, <3>2 DEF LossInv
  <2>4. CASE Lose
    BY <1>3, <1>4, <2>2, <2>3, <2>4 DEF LossInv
  <2>5. CASE UNCHANGED <<droppedCount, droppedSincePublish>>
    BY <1>4, <2>2, <2>3, <2>5 DEF LossInv, CountBefore
  <2> QED BY <2>1, <2>4, <2>5
<1>7. CASE PublishingStep
  <2>1. PICK n \in 0..Len(queue) : PublishedPrefix(n)
    BY <1>7 DEF PublishingStep
  <2>2. \A i \in 1..Len(queue') : "DROPPED_PREVIOUS" \notin queue'[i].status
    <3>1. \A i \in 1..Len(queue') : i + n \in 1..Len(queue) /\ queue'[i] = queue[i + n]
      BY <1>1, <2>1 DEF PublishedPrefix, Drops
    <3> QED BY <3>1 DEF LossInv
  <2>3. UNCHANGED droppedCount
    BY <1>7 DEF PublishingStep
  <2> QED BY <2>1, <2>2, <2>3, LossPublished DEF LossInv
<1>8. CASE FreshStart
  BY <1>8, EmptySeq DEF FreshStart, LossInv, CountBefore
<1> QED
  BY <1>2, <1>5, <1>6, <1>7, <1>8, StepKinds

(***************************************************************************)
(* Losses are reported exactly: whatever the policy, the dropouts and the  *)
(* depth, a publication carries DROPPED_PREVIOUS if and only if attempts   *)
(* were lost since the publication before it.                              *)
(***************************************************************************)
THEOREM LossesAreReported == Spec => []LossReportedByNextPublish
<1>1. Init => LossInv
  BY EmptySeq DEF Init, LossInv, CountBefore
<1>2. TypeOK /\ LossInv /\ [Next]_vars => LossInv'
  BY LossNext
<1>3. TypeOK /\ LossInv => LossReportedByNextPublish
  BY ElementTypes DEF LossInv, CountBefore, LossReportedByNextPublish
<1> QED
  BY <1>1, <1>2, <1>3, TypeCorrect, PTL DEF Spec

-----------------------------------------------------------------------------
(***************************************************************************)
(* What the release-ordered queue of TimedSensorPipeline means for the     *)
(* order of the stream: theorems about QueueOrdered, JoinKeyUnique,        *)
(* ReorderBounded and, for one fixed latency,                              *)
(* PublishedInSequenceOrder; and the contract the whole keeps.             *)
(***************************************************************************)

(***************************************************************************)
(* Properties of a queue as a plain sequence, so that dropping a prefix    *)
(* and inserting an envelope are argued about once.                        *)
(***************************************************************************)
Elems(s) == {s[i] : i \in 1..Len(s)}

Typed(s) ==
  /\ Len(s) \in Nat
  /\ \A x \in Elems(s) : x.sequence \in Nat /\ x.source \in Nat /\ x.scheduled \in Nat

Before(x, y) ==
  /\ x.sequence # y.sequence
  /\ \/ x.scheduled < y.scheduled
     \/ x.scheduled = y.scheduled /\ x.sequence < y.sequence

OrderedSeq(s) == \A i, j \in 1..Len(s) : i < j => Before(s[i], s[j])

\* The queue and the log hold envelopes with a sequence number, a source and a release.
LEMMA SeqsTyped ==
  ASSUME TypeOK
  PROVE  Typed(queue) /\ Typed(log)
BY ElementTypes DEF Typed, Elems

\* A sequence that loses elements at its front stays ordered by release.
LEMMA DropsKeepsOrder ==
  ASSUME NEW q, NEW r, NEW n, Typed(q), Drops(q, r, n)
  PROVE  /\ Typed(r)
         /\ Elems(r) \subseteq Elems(q)
         /\ OrderedSeq(q) => OrderedSeq(r)
<1>1. Len(r) \in Nat /\ n \in Nat /\ Len(r) = Len(q) - n /\ Len(q) \in Nat
  BY DEF Drops, Typed
<1>2. \A i \in 1..Len(r) : i + n \in 1..Len(q) /\ r[i] = q[i + n]
  BY <1>1 DEF Drops
<1>3. Elems(r) \subseteq Elems(q)
  BY <1>2 DEF Elems
<1>4. ASSUME OrderedSeq(q), NEW i \in 1..Len(r), NEW j \in 1..Len(r), i < j
      PROVE  Before(r[i], r[j])
  <2>1. i + n < j + n
    BY <1>1, <1>4
  <2>2. Before(q[i + n], q[j + n])
    BY <2>1, <1>2, <1>4 DEF OrderedSeq
  <2> QED
    BY <2>2, <1>2
<1>5. OrderedSeq(q) => OrderedSeq(r)
  BY <1>4 DEF OrderedSeq
<1> QED
  BY <1>1, <1>3, <1>5 DEF Typed

\* An envelope put behind all that are released no later keeps the order.
LEMMA InsertsKeepsOrder ==
  ASSUME NEW q, NEW r, NEW k, NEW item, Typed(q), Inserts(q, r, k, item),
         item.scheduled \in Nat, item.sequence \in Nat, item.source \in Nat,
         \A x \in Elems(q) : x.sequence < item.sequence
  PROVE  /\ Typed(r)
         /\ Elems(r) \subseteq Elems(q) \cup {item}
         /\ OrderedSeq(q) => OrderedSeq(r)
<1>1. Len(q) \in Nat /\ Len(r) = Len(q) + 1 /\ k \in 1..(Len(q) + 1)
  BY DEF Inserts, Typed
<1>2. \A i \in 1..Len(r) :
        \/ i < k /\ i \in 1..Len(q) /\ r[i] = q[i]
        \/ i = k /\ r[i] = item
        \/ i > k /\ i - 1 \in 1..Len(q) /\ r[i] = q[i - 1]
  <2> TAKE i \in 1..Len(r)
  <2>1. \A m \in 1..(Len(q) + 1) :
          r[m] = IF m < k THEN q[m] ELSE IF m = k THEN item ELSE q[m - 1]
    BY DEF Inserts
  <2>2. r[i] = IF i < k THEN q[i] ELSE IF i = k THEN item ELSE q[i - 1]
    BY <1>1, <2>1
  <2> QED
    BY <1>1, <2>2
<1>3. Elems(r) \subseteq Elems(q) \cup {item}
  BY <1>2 DEF Elems
<1>4. \A i \in 1..Len(q) : q[i] \in Elems(q)
  BY DEF Elems
<1>5. ASSUME OrderedSeq(q), NEW m \in 1..Len(q), m < k PROVE Before(q[m], item)
  <2>1. q[m].scheduled <= item.scheduled
    BY <1>1, <1>5 DEF Inserts
  <2>2. q[m].scheduled \in Nat /\ q[m].sequence < item.sequence
    BY <1>4 DEF Typed
  <2> QED
    BY <2>1, <2>2 DEF Before
<1>6. ASSUME OrderedSeq(q), NEW m \in 1..Len(q), m >= k PROVE Before(item, q[m])
  <2>1. k \in 1..Len(q) /\ item.scheduled < q[k].scheduled
    BY <1>1, <1>6 DEF Inserts
  <2>2. k = m \/ Before(q[k], q[m])
    BY <1>1, <1>6, <2>1 DEF OrderedSeq
  <2>3. q[k].scheduled \in Nat /\ q[m].scheduled \in Nat /\ q[m].sequence \in Nat
    BY <1>4, <2>1 DEF Typed
  <2>4. q[m].sequence < item.sequence
    BY <1>4
  <2>5. q[k].scheduled <= q[m].scheduled
    BY <2>2, <2>3 DEF Before
  <2> QED
    BY <2>1, <2>3, <2>4, <2>5 DEF Before
<1>7. ASSUME OrderedSeq(q), NEW i \in 1..Len(r), NEW j \in 1..Len(r), i < j
      PROVE  Before(r[i], r[j])
  <2>1. CASE i = k
    <3>1. j - 1 \in 1..Len(q) /\ j - 1 >= k /\ r[j] = q[j - 1] /\ r[i] = item
      BY <2>1, <1>1, <1>2, <1>7
    <3> QED
      BY <3>1, <1>6, <1>7
  <2>2. CASE j = k
    <3>1. i \in 1..Len(q) /\ i < k /\ r[i] = q[i] /\ r[j] = item
      BY <2>2, <1>1, <1>2, <1>7
    <3> QED
      BY <3>1, <1>5, <1>7
  <2>3. CASE i < k /\ j < k
    BY <2>3, <1>1, <1>2, <1>7 DEF OrderedSeq
  <2>4. CASE i < k /\ j > k
    <3>1. i \in 1..Len(q) /\ j - 1 \in 1..Len(q) /\ i < j - 1
          /\ r[i] = q[i] /\ r[j] = q[j - 1]
      BY <2>4, <1>1, <1>2, <1>7
    <3> QED
      BY <3>1, <1>7 DEF OrderedSeq
  <2>5. CASE i > k
    <3>1. i - 1 \in 1..Len(q) /\ j - 1 \in 1..Len(q) /\ i - 1 < j - 1
          /\ r[i] = q[i - 1] /\ r[j] = q[j - 1]
      BY <2>5, <1>1, <1>2, <1>7
    <3> QED
      BY <3>1, <1>7 DEF OrderedSeq
  <2> QED
    BY <2>1, <2>2, <2>3, <2>4, <2>5, <1>1
<1>8. OrderedSeq(q) => OrderedSeq(r)
  BY <1>7 DEF OrderedSeq
<1> QED
  BY <1>1, <1>3, <1>8 DEF Typed

-----------------------------------------------------------------------------
(***************************************************************************)
(* x reached the consumer before y: y is another envelope and, if it is    *)
(* the older one, it was released strictly later.                          *)
(***************************************************************************)
Overtakes(x, y) ==
  /\ x.sequence # y.sequence
  /\ y.sequence < x.sequence => x.scheduled < y.scheduled

\* The release lies within the latency interval after the capture.
InTime(x) ==
  /\ x.source + LatencyMin <= x.scheduled
  /\ x.scheduled <= x.source + LatencyMax

Numbered(s) == \A x \in Elems(s) : x.sequence < nextSequence

StreamOrdered(s) == \A i, j \in 1..Len(s) : i < j => Overtakes(s[i], s[j])

OrderInv ==
  /\ Numbered(queue) /\ Numbered(log)
  /\ OrderedSeq(queue)
  /\ \A x \in Elems(queue) \cup Elems(log) : InTime(x)
  /\ \A x \in Elems(log), y \in Elems(queue) : Overtakes(x, y)
  /\ StreamOrdered(log)

\* Leaving the queue in its order is one way for x to reach the consumer before y.
LEMMA BeforeOvertakes ==
  ASSUME NEW x, NEW y, Before(x, y),
         x.sequence \in Nat, y.sequence \in Nat,
         x.scheduled \in Nat, y.scheduled \in Nat
  PROVE  Overtakes(x, y)
BY DEF Before, Overtakes

\* The empty queue and the empty log are ordered.
LEMMA OrderInit == Init => OrderInv
<1> SUFFICES ASSUME Init PROVE OrderInv
  OBVIOUS
<1>1. Len(queue) = 0 /\ Len(log) = 0
  BY EmptySeq DEF Init
<1>2. Elems(queue) = {} /\ Elems(log) = {}
  BY <1>1 DEF Elems
<1> QED
  BY <1>1, <1>2 DEF OrderInv, Numbered, OrderedSeq, StreamOrdered

(***************************************************************************)
(* A newcomer carries the largest sequence number so far.                  *)
(***************************************************************************)
LEMMA OrderKeeping ==
  ASSUME TypeOK, OrderInv, NEW src \in Nat, KeepingStep(src)
  PROVE  OrderInv'
<1>1. PICK j \in Jitter, n \in {0, 1}, q \in Seq(Envelope), k \in Nat :
        /\ Drops(queue, q, n)
        /\ Inserts(q, queue', k, NewEnvelope(src, j))
  BY DEF KeepingStep, Kept
<1> DEFINE item == NewEnvelope(src, j)
<1>2. /\ item.sequence = nextSequence /\ item.source = src
      /\ item.scheduled = src + SampleLatency(j)
  BY DEF NewEnvelope
<1>3. SampleLatency(j) \in Nat /\ nextSequence \in Nat
  BY LatencyInRange DEF TypeOK
<1>4. item.sequence \in Nat /\ item.source \in Nat /\ item.scheduled \in Nat
  BY <1>2, <1>3
<1>5. InTime(item)
  BY <1>2, <1>3, LatencyInRange, PipelineAssumption DEF InTime
<1>6. Inserts(q, queue', k, item)
  BY <1>1
<1> HIDE DEF item
<1>7. Typed(queue) /\ Typed(log)
  BY SeqsTyped
<1>8. Typed(q) /\ Elems(q) \subseteq Elems(queue) /\ OrderedSeq(q)
  BY <1>1, <1>7, DropsKeepsOrder DEF OrderInv
<1>9. \A x \in Elems(q) : x.sequence < item.sequence
  BY <1>2, <1>8 DEF OrderInv, Numbered
<1>10. OrderedSeq(queue') /\ Elems(queue') \subseteq Elems(queue) \cup {item}
  BY <1>4, <1>6, <1>8, <1>9, InsertsKeepsOrder
<1>11. nextSequence' = nextSequence + 1 /\ log' = log
  BY DEF KeepingStep
<1>12. \A x \in Elems(queue') \cup Elems(log') : x.sequence < nextSequence'
  <2>1. \A x \in Elems(queue) \cup Elems(log) :
          x.sequence \in Nat /\ x.sequence < nextSequence
    BY <1>7 DEF OrderInv, Numbered, Typed
  <2> QED
    BY <2>1, <1>2, <1>3, <1>10, <1>11
<1>13. \A x \in Elems(queue') \cup Elems(log') : InTime(x)
  BY <1>5, <1>10, <1>11 DEF OrderInv
<1>14. \A x \in Elems(log) : Overtakes(x, item)
  BY <1>2, <1>3, <1>7 DEF OrderInv, Numbered, Overtakes, Typed
<1>15. \A x \in Elems(log'), y \in Elems(queue') : Overtakes(x, y)
  BY <1>10, <1>11, <1>14 DEF OrderInv
<1>16. StreamOrdered(log')
  BY <1>11 DEF OrderInv
<1>17. (\A x \in Elems(queue) \cup Elems(log) : InTime(x))'
  BY <1>13 DEF Elems, InTime
<1>19. Numbered(queue)' /\ Numbered(log)'
  BY <1>12 DEF Elems, Numbered
<1>18. (\A x \in Elems(log), y \in Elems(queue) : Overtakes(x, y))'
  BY <1>15 DEF Elems, Overtakes
<1> QED
  BY <1>10, <1>16, <1>17, <1>18, <1>19 DEF OrderInv, OrderedSeq, StreamOrdered

(***************************************************************************)
(* What is published keeps its number and its times.                       *)
(***************************************************************************)
Same(x, y) ==
  x.sequence = y.sequence /\ x.source = y.source /\ x.scheduled = y.scheduled

\* PublishDue moves a prefix of the ordered queue behind what has been published.
LEMMA OrderPublishing ==
  ASSUME TypeOK, OrderInv, NEW n \in 0..Len(queue), PublishedPrefix(n),
         UNCHANGED nextSequence
  PROVE  OrderInv'
<1>1. Typed(queue) /\ Typed(log)
  BY SeqsTyped
<1>2. Len(log) \in Nat /\ Len(queue) \in Nat
  BY ElementTypes
<1>3. Drops(queue, queue', n)
  BY DEF PublishedPrefix
<1>4. Elems(queue') \subseteq Elems(queue) /\ OrderedSeq(queue')
  BY <1>1, <1>3, DropsKeepsOrder DEF OrderInv
<1>5. \A x \in 1..Len(queue) : queue[x] \in Elems(queue)
  BY DEF Elems
<1>6. \A x \in 1..Len(log) : log[x] \in Elems(log)
  BY DEF Elems
<1>7. ASSUME NEW i \in 1..Len(log')
      PROVE  \/ i \in 1..Len(log) /\ log'[i] = log[i]
             \/ /\ i > Len(log) /\ i - Len(log) \in 1..n
                /\ i - Len(log) \in 1..Len(queue)
                /\ Same(log'[i], queue[i - Len(log)])
  <2>1. Len(log') = Len(log) + n
    BY DEF PublishedPrefix
  <2>2. log'[i] = IF i <= Len(log) THEN log[i]
                  ELSE WithHealth(queue[i - Len(log)], i - Len(log), Len(queue) - n)
    BY DEF PublishedPrefix
  <2>3. CASE i <= Len(log)
    BY <2>2, <2>3, <1>2
  <2>4. CASE i > Len(log)
    <3> DEFINE m == i - Len(log)
    <3>1. m \in 1..n /\ m \in 1..Len(queue)
      BY <2>1, <2>4, <1>2
    <3>2. log'[i] = WithHealth(queue[m], m, Len(queue) - n)
      BY <2>2, <2>4, <1>2
    <3>3. Same(log'[i], queue[m])
      BY <3>2 DEF WithHealth, Same
    <3> QED
      BY <3>1, <3>3, <2>4
  <2> QED
    BY <2>3, <2>4, <1>2
<1>8. ASSUME NEW i \in 1..Len(queue'), NEW m \in 1..n
      PROVE  Before(queue[m], queue'[i])
  <2>1. i + n \in 1..Len(queue) /\ queue'[i] = queue[i + n] /\ m < i + n
        /\ m \in 1..Len(queue)
    BY <1>2, <1>3 DEF Drops
  <2> QED
    BY <2>1 DEF OrderInv, OrderedSeq
<1>9. ASSUME NEW i \in 1..Len(log')
      PROVE  InTime(log'[i]) /\ log'[i].sequence < nextSequence
  <2>1. PICK x \in Elems(queue) \cup Elems(log) : Same(log'[i], x)
    BY <1>5, <1>6, <1>7 DEF Same
  <2>2. InTime(x) /\ x.sequence < nextSequence
    BY DEF OrderInv, Numbered
  <2> QED
    BY <2>1, <2>2 DEF Same, InTime
<1>10. ASSUME NEW i \in 1..Len(log'), NEW y \in Elems(queue')
       PROVE  Overtakes(log'[i], y)
  <2>1. CASE i \in 1..Len(log) /\ log'[i] = log[i]
    BY <2>1, <1>4, <1>6 DEF OrderInv
  <2>2. ASSUME NEW m \in 1..n, Same(log'[i], queue[m]), m \in 1..Len(queue)
        PROVE  Overtakes(log'[i], y)
    <3>1. Before(queue[m], y)
      BY <1>8 DEF Elems
    <3>2. queue[m] \in Elems(queue) /\ y \in Elems(queue)
      BY <2>2, <1>4, <1>5
    <3>3. Overtakes(queue[m], y)
      BY <3>1, <3>2, <1>1, BeforeOvertakes DEF Typed
    <3> QED
      BY <3>3, <2>2 DEF Same, Overtakes
  <2> QED
    BY <2>1, <2>2, <1>7
<1>11. ASSUME NEW i \in 1..Len(log'), NEW j \in 1..Len(log'), i < j
       PROVE  Overtakes(log'[i], log'[j])
  <2>1. CASE j \in 1..Len(log) /\ log'[j] = log[j]
    <3>1. i \in 1..Len(log) /\ log'[i] = log[i]
      BY <2>1, <1>2, <1>7, <1>11
    <3> QED
      BY <2>1, <3>1, <1>11 DEF OrderInv, StreamOrdered
  <2>2. ASSUME j > Len(log), NEW m \in 1..Len(queue), m = j - Len(log),
               Same(log'[j], queue[m])
        PROVE  Overtakes(log'[i], log'[j])
    <3>1. CASE i \in 1..Len(log) /\ log'[i] = log[i]
      <4>1. Overtakes(log[i], queue[m])
        BY <3>1, <2>2, <1>5, <1>6 DEF OrderInv
      <4> QED
        BY <4>1, <3>1, <2>2 DEF Same, Overtakes
    <3>2. ASSUME NEW p \in 1..Len(queue), p = i - Len(log), i > Len(log),
                 Same(log'[i], queue[p])
          PROVE  Overtakes(log'[i], log'[j])
      <4>1. p < m
        BY <3>2, <2>2, <1>2, <1>11
      <4>2. Before(queue[p], queue[m])
        BY <4>1 DEF OrderInv, OrderedSeq
      <4>3. Overtakes(queue[p], queue[m])
        BY <4>2, <1>1, <1>5, BeforeOvertakes DEF Typed
      <4> QED
        BY <4>3, <3>2, <2>2 DEF Same, Overtakes
    <3> QED
      BY <3>1, <3>2, <1>7
  <2> QED
    BY <2>1, <2>2, <1>7
<1>12. \A x \in Elems(queue') : InTime(x) /\ x.sequence < nextSequence
  BY <1>4 DEF OrderInv, Numbered
<1>13. Numbered(queue)' /\ Numbered(log)'
  BY <1>9, <1>12 DEF Numbered, Elems
<1>14. (\A x \in Elems(queue) \cup Elems(log) : InTime(x))'
  BY <1>9, <1>12 DEF InTime, Elems
<1>15. (\A x \in Elems(log), y \in Elems(queue) : Overtakes(x, y))'
  BY <1>10 DEF Overtakes, Elems
<1>16. StreamOrdered(log)'
  BY <1>11 DEF StreamOrdered, Overtakes
<1> QED
  BY <1>4, <1>13, <1>14, <1>15, <1>16 DEF OrderInv, OrderedSeq

\* Every operation of the pipeline keeps the queue ordered.
LEMMA OrderNext == TypeOK /\ OrderInv /\ [Next]_vars => OrderInv'
<1> SUFFICES ASSUME TypeOK, OrderInv, [Next]_vars PROVE OrderInv'
  OBVIOUS
<1>1. CASE Idle
  BY <1>1 DEF Idle, OrderInv, Numbered, OrderedSeq, StreamOrdered, Elems, InTime
<1>2. CASE LosingStep
  <2>1. queue' = queue /\ log' = log /\ nextSequence' = nextSequence + 1
    BY <1>2 DEF LosingStep
  <2>2. \A x \in Elems(queue) \cup Elems(log) :
          x.sequence \in Nat /\ x.sequence < nextSequence
    BY SeqsTyped DEF Typed, OrderInv, Numbered
  <2>3. Numbered(queue)' /\ Numbered(log)'
    BY <2>1, <2>2 DEF Numbered, Elems, TypeOK
  <2> QED
    BY <2>1, <2>3 DEF OrderInv, OrderedSeq, StreamOrdered, Elems, InTime
<1>3. ASSUME NEW src \in Nat, KeepingStep(src) PROVE OrderInv'
  BY <1>3, OrderKeeping
<1>4. CASE PublishingStep
  BY <1>4, OrderPublishing DEF PublishingStep
<1>5. CASE FreshStart
  <2>1. Len(queue') = 0 /\ Len(log') = 0
    BY <1>5, EmptySeq DEF FreshStart
  <2>2. Elems(queue') = {} /\ Elems(log') = {}
    BY <2>1 DEF Elems
  <2> QED
    BY <2>1, <2>2 DEF OrderInv, Numbered, OrderedSeq, StreamOrdered
<1> QED
  BY <1>1, <1>2, <1>3, <1>4, <1>5, StepKinds

\* The invariant the theorems on order rest on.
LEMMA AlwaysOrdered == Spec => [](TypeOK /\ OrderInv)
<1>1. Init => TypeOK /\ OrderInv
  BY TypeInit, OrderInit
<1>2. TypeOK /\ OrderInv /\ [Next]_vars => (TypeOK /\ OrderInv)'
  BY TypeNext, OrderNext
<1> QED
  BY <1>1, <1>2, PTL DEF Spec

(***************************************************************************)
(* The queue is always in release order, ties in acquisition order.        *)
(***************************************************************************)
THEOREM QueueStaysOrdered == Spec => []QueueOrdered
<1>1. TypeOK /\ OrderInv => QueueOrdered
  <2> SUFFICES ASSUME TypeOK, OrderInv PROVE QueueOrdered
    OBVIOUS
  <2> QED
    BY ElementTypes DEF OrderInv, OrderedSeq, Before, QueueOrdered
<1> QED
  BY <1>1, AlwaysOrdered, PTL

(***************************************************************************)
(* A sequence number is a join key: no two envelopes share one.            *)
(***************************************************************************)
THEOREM KeysAreUnique == Spec => []JoinKeyUnique
<1>1. TypeOK /\ OrderInv => JoinKeyUnique
  <2> SUFFICES ASSUME TypeOK, OrderInv PROVE JoinKeyUnique
    OBVIOUS
  <2>1. \A i, j \in DOMAIN queue : i # j => queue[i].sequence # queue[j].sequence
    BY ElementTypes DEF OrderInv, OrderedSeq, Before
  <2>2. \A i, j \in DOMAIN log : i # j => log[i].sequence # log[j].sequence
    BY ElementTypes DEF OrderInv, StreamOrdered, Overtakes
  <2>3. \A i \in DOMAIN log, j \in DOMAIN queue : log[i].sequence # queue[j].sequence
    BY ElementTypes DEF OrderInv, Overtakes, Elems
  <2> QED
    BY <2>1, <2>2, <2>3 DEF JoinKeyUnique
<1> QED
  BY <1>1, AlwaysOrdered, PTL

(***************************************************************************)
(* Whatever the jitter, a sample is overtaken only by samples taken less   *)
(* than LatencyMax - LatencyMin after it.                                  *)
(***************************************************************************)
THEOREM ReorderIsBounded == Spec => []ReorderBounded
<1>1. TypeOK /\ OrderInv => ReorderBounded
  <2> SUFFICES ASSUME TypeOK, OrderInv,
                      NEW i \in DOMAIN log, NEW j \in DOMAIN log,
                      i < j, log[j].sequence < log[i].sequence
               PROVE  log[i].source - log[j].source < LatencyMax - LatencyMin
    BY DEF ReorderBounded
  <2>1. /\ log[i].source \in Nat /\ log[i].scheduled \in Nat
        /\ log[j].source \in Nat /\ log[j].scheduled \in Nat
        /\ i \in 1..Len(log) /\ j \in 1..Len(log)
    BY ElementTypes
  <2>2. log[i].scheduled < log[j].scheduled
    BY <2>1 DEF OrderInv, StreamOrdered, Overtakes
  <2>3. InTime(log[i]) /\ InTime(log[j])
    BY <2>1 DEF OrderInv, Elems
  <2>4. /\ log[i].source + LatencyMin <= log[i].scheduled
        /\ log[j].scheduled <= log[j].source + LatencyMax
    BY <2>3 DEF InTime
  <2>5. LatencyMin \in Int /\ LatencyMax \in Int
    BY PipelineAssumption
  <2> QED
    BY <2>1, <2>2, <2>4, <2>5
<1> QED
  BY <1>1, AlwaysOrdered, PTL
-----------------------------------------------------------------------------
(***************************************************************************)
(* Where the envelopes come from: a step keeps the ones there were, or     *)
(* adds the newcomer.                                                      *)
(***************************************************************************)
Stock == Elems(queue) \cup Elems(log)

\* Publishing makes no envelope: each one was in the queue or in the log.
LEMMA PublishedOrigin ==
  ASSUME TypeOK, NEW n \in 0..Len(queue), PublishedPrefix(n), NEW x \in Stock'
  PROVE  \E y \in Stock : Same(x, y)
<1>1. Len(log) \in Nat /\ Len(queue) \in Nat
  BY ElementTypes
<1>2. CASE x \in Elems(queue')
  <2>1. x \in Elems(queue)
    BY <1>2, SeqsTyped, DropsKeepsOrder DEF PublishedPrefix
  <2> QED
    BY <2>1 DEF Stock, Same
<1>3. CASE x \in Elems(log')
  <2>1. PICK i \in 1..Len(log') : x = log'[i]
    BY <1>3 DEF Elems
  <2>2. /\ Len(log') = Len(log) + n
        /\ x = IF i <= Len(log) THEN log[i]
               ELSE WithHealth(queue[i - Len(log)], i - Len(log), Len(queue) - n)
    BY <2>1 DEF PublishedPrefix
  <2>3. CASE i <= Len(log)
    BY <2>2, <2>3, <1>1 DEF Stock, Elems, Same
  <2>4. CASE i > Len(log)
    <3> DEFINE m == i - Len(log)
    <3>1. m \in 1..Len(queue)
      BY <2>2, <2>4, <1>1
    <3>2. Same(x, queue[m])
      BY <2>2, <2>4, <1>1 DEF WithHealth, Same
    <3> QED
      BY <3>1, <3>2 DEF Stock, Elems
  <2> QED
    BY <2>3, <2>4, <1>1
<1>4. x \in Elems(queue') \/ x \in Elems(log')
  BY DEF Stock, Elems
<1> QED
  BY <1>2, <1>3, <1>4

\* Every envelope was there before the step or is the one the step has acquired.
LEMMA Origin ==
  ASSUME TypeOK, [Next]_vars, NEW x \in Stock'
  PROVE  \/ /\ sampled <= sampled'
            /\ \E y \in Stock : Same(x, y)
         \/ \E src \in Nat, j \in Jitter :
              /\ sampled < src /\ sampled' = src
              /\ Same(x, NewEnvelope(src, j))
<1>0. sampled \in Int
  BY DEF TypeOK
<1>1. CASE Idle
  BY <1>0, <1>1 DEF Idle, Stock, Elems, Same
<1>2. CASE LosingStep
  <2>1. sampled <= sampled' /\ x \in Stock
    BY <1>0, <1>2, TypeNext DEF LosingStep, Stock, Elems, TypeOK
  <2> QED
    BY <2>1 DEF Same
<1>3. ASSUME NEW src \in Nat, KeepingStep(src)
      PROVE  \/ x \in Stock /\ sampled <= sampled'
             \/ \E j \in Jitter : x = NewEnvelope(src, j)
  <2>1. PICK j \in Jitter, n \in {0, 1}, q \in Seq(Envelope), k \in Nat :
          /\ Drops(queue, q, n)
          /\ Inserts(q, queue', k, NewEnvelope(src, j))
    BY <1>3 DEF KeepingStep, Kept
  <2> DEFINE item == NewEnvelope(src, j)
  <2>2. Inserts(q, queue', k, item)
    BY <2>1
  <2> HIDE DEF item
  <2>3. Len(q) \in Nat /\ Len(queue) \in Nat
    BY ElementTypes, LenProperties
  <2>4. \A i \in 1..Len(q) : q[i] \in Elems(queue)
    BY <2>1, <2>3 DEF Drops, Elems
  <2>5. ASSUME NEW i \in 1..Len(queue') PROVE queue'[i] \in Elems(queue) \cup {item}
    <3>1. queue'[i] = IF i < k THEN q[i] ELSE IF i = k THEN item ELSE q[i - 1]
      BY <2>2 DEF Inserts
    <3>2. i < k \/ i = k \/ (i > k /\ i - 1 \in 1..Len(q))
      BY <2>2, <2>3 DEF Inserts
    <3>3. i < k => i \in 1..Len(q)
      BY <2>2, <2>3 DEF Inserts
    <3> QED
      BY <3>1, <3>2, <3>3, <2>4
  <2>6. Elems(queue') \subseteq Elems(queue) \cup {item} /\ Elems(log') = Elems(log)
    BY <2>5, <1>3 DEF Elems, KeepingStep
  <2>7. x \in Stock \cup {item}
    BY <2>6 DEF Stock, Elems
  <2>8. sampled <= sampled'
    BY <1>0, <1>3 DEF KeepingStep
  <2> QED
    BY <2>7, <2>8 DEF item
<1>4. CASE PublishingStep
  BY <1>0, <1>4, PublishedOrigin DEF PublishingStep
<1>5. CASE FreshStart
  <2>1. Len(queue') = 0 /\ Len(log') = 0
    BY <1>5, EmptySeq DEF FreshStart
  <2>2. Stock' = {}
    BY <2>1 DEF Stock, Elems
  <2> QED
    BY <2>2
<1>6. ASSUME NEW src \in Nat, KeepingStep(src)
      PROVE  sampled < src /\ sampled' = src
  BY <1>6 DEF KeepingStep
<1>7. \A y : Same(y, y)
  BY DEF Same
<1> QED
  BY <1>1, <1>2, <1>3, <1>4, <1>5, <1>6, <1>7, StepKinds, Zenon

(***************************************************************************)
(* Acquisition order is source order.                                      *)
(***************************************************************************)
SourceInv ==
  /\ \A x \in Stock : x.source <= sampled
  /\ \A x, y \in Stock : x.sequence < y.sequence => x.source <= y.source

\* The same of all envelopes, queued or published.
LEMMA StockTyped ==
  ASSUME TypeOK
  PROVE  \A x \in Stock : x.sequence \in Nat /\ x.source \in Nat /\ x.scheduled \in Nat
BY SeqsTyped DEF Stock, Typed

\* A later sequence number never has an earlier source time.
LEMMA SourceNext ==
  ASSUME TypeOK, OrderInv, SourceInv, [Next]_vars
  PROVE  SourceInv'
<1>1. sampled \in Int /\ sampled' \in Int /\ nextSequence \in Nat
  BY TypeNext DEF TypeOK
<1>2. \A x \in Stock : x.sequence < nextSequence
  BY DEF OrderInv, Numbered, Stock
<1>3. \A x \in Stock' :
        \/ sampled <= sampled' /\ \E y \in Stock : Same(x, y)
        \/ sampled < sampled' /\ x.source = sampled' /\ x.sequence = nextSequence
  BY Origin DEF Same, NewEnvelope
<1>4. \A x \in Stock' : x.source <= sampled'
  BY <1>1, <1>3, StockTyped DEF SourceInv, Same
<1>5. ASSUME NEW x \in Stock', NEW y \in Stock', x.sequence < y.sequence
      PROVE  x.source <= y.source
  <2>1. CASE \E u, v \in Stock : Same(x, u) /\ Same(y, v)
    BY <2>1, <1>5 DEF SourceInv, Same
  <2>2. ASSUME NEW u \in Stock, Same(x, u), sampled < sampled', y.source = sampled'
        PROVE  x.source <= y.source
    BY <2>2, <1>1, StockTyped DEF SourceInv, Same
  <2>3. ASSUME x.sequence = nextSequence PROVE y.sequence > nextSequence
    BY <2>3, <1>5, <1>1
  <2>4. ~(y.sequence > nextSequence)
    BY <1>1, <1>2, <1>3, StockTyped DEF Same
  <2> QED
    BY <2>1, <2>2, <2>3, <2>4, <1>3, Zenon
<1> QED
  BY <1>4, <1>5 DEF SourceInv

(***************************************************************************)
(* One fixed latency, which jitter_stddev_ns = 0 gives.                    *)
(***************************************************************************)
Delayed(L) == \A x \in Stock : x.scheduled = x.source + L

\* With one latency for all, later sources have later releases: the order is the sequence.
LEMMA FixedLatencyOrder ==
  ASSUME TypeOK, OrderInv, SourceInv, NEW L \in Nat, Delayed(L)
  PROVE  PublishedInSequenceOrder
<1> SUFFICES ASSUME NEW i \in DOMAIN log, NEW j \in DOMAIN log, i < j
             PROVE  log[i].sequence < log[j].sequence
  BY DEF PublishedInSequenceOrder
<1>1. i \in 1..Len(log) /\ j \in 1..Len(log) /\ log[i] \in Stock /\ log[j] \in Stock
  BY ElementTypes DEF Stock, Elems
<1>2. Overtakes(log[i], log[j])
  BY <1>1 DEF OrderInv, StreamOrdered
<1>3. CASE log[j].sequence < log[i].sequence
  <2>1. log[i].scheduled < log[j].scheduled /\ log[j].source <= log[i].source
    BY <1>1, <1>2, <1>3 DEF Overtakes, SourceInv
  <2>2. log[i].scheduled = log[i].source + L /\ log[j].scheduled = log[j].source + L
    BY <1>1 DEF Delayed
  <2>3. log[i].source \in Nat /\ log[j].source \in Nat
    BY <1>1, StockTyped
  <2> QED
    BY <2>1, <2>2, <2>3
<1> QED
  BY <1>1, <1>2, <1>3, StockTyped DEF Overtakes

(***************************************************************************)
(* With one fixed latency the consumer sees the stream in sequence order.  *)
(***************************************************************************)
THEOREM FixedLatencyKeepsOrder ==
  ASSUME NEW L \in Nat, \A j \in Jitter : SampleLatency(j) = L
  PROVE  Spec => []PublishedInSequenceOrder
<1>1. Init => TypeOK /\ OrderInv /\ SourceInv /\ Delayed(L)
  <2> SUFFICES ASSUME Init PROVE SourceInv /\ Delayed(L)
    BY TypeInit, OrderInit
  <2>1. Stock = {}
    BY EmptySeq DEF Init, Stock, Elems
  <2> QED
    BY <2>1 DEF SourceInv, Delayed
<1>2. TypeOK /\ OrderInv /\ SourceInv /\ Delayed(L) /\ [Next]_vars
        => (TypeOK /\ OrderInv /\ SourceInv /\ Delayed(L))'
  <2> SUFFICES ASSUME TypeOK, OrderInv, SourceInv, Delayed(L), [Next]_vars
               PROVE  Delayed(L)'
    BY TypeNext, OrderNext, SourceNext
  <2>1. \A x \in Stock' : x.scheduled = x.source + L
    BY Origin DEF Delayed, Same, NewEnvelope
  <2> QED
    BY <2>1 DEF Delayed, Stock, Elems
<1>3. TypeOK /\ OrderInv /\ SourceInv /\ Delayed(L) => PublishedInSequenceOrder
  BY FixedLatencyOrder
<1> QED
  BY <1>1, <1>2, <1>3, PTL DEF Spec
-----------------------------------------------------------------------------
(***************************************************************************)
(* The pipeline implements the contract of an observation stream.          *)
(***************************************************************************)
Pending(q) == {q[i].sequence : i \in DOMAIN q}

Delivery == [sequence : Nat, afterLoss : BOOLEAN]

Delivered(l) == [i \in DOMAIN l |->
                   [sequence  |-> l[i].sequence,
                    afterLoss |-> "DROPPED_PREVIOUS" \in l[i].status]]

\* What the step to the contract needs of the state it starts from.
ContractInv == TypeOK /\ OrderInv /\ LossInv /\ EveryAttemptAccounted

\* The steps of the pipeline preserve all of it.
LEMMA AlwaysContractInv == Spec => []ContractInv
<1>1. Init => LossInv
  BY EmptySeq DEF Init, LossInv, CountBefore
<1>2. TypeOK /\ LossInv /\ [Next]_vars => LossInv'
  BY LossNext
<1> QED
  BY <1>1, <1>2, AlwaysOrdered, Accounted, TypeCorrect, PTL DEF Spec, ContractInv

\* The queue as the contract sees it: distinct numbers, none of them yet to be given.
LEMMA QueueView ==
  ASSUME ContractInv
  PROVE  /\ Len(queue) \in Nat /\ DOMAIN queue = 1..Len(queue)
         /\ nextSequence \in Nat /\ nextSequence \notin Pending(queue)
         /\ \A i, j \in 1..Len(queue) : i # j => queue[i].sequence # queue[j].sequence
         /\ droppedSincePublish \in BOOLEAN
<1>1. /\ Len(queue) \in Nat /\ DOMAIN queue = 1..Len(queue)
      /\ nextSequence \in Nat /\ droppedSincePublish \in BOOLEAN
      /\ \A i \in 1..Len(queue) : queue[i].sequence \in Nat
  BY ElementTypes DEF ContractInv, TypeOK
<1>2. nextSequence \notin Pending(queue)
  BY <1>1 DEF ContractInv, OrderInv, Numbered, Elems, Pending
<1>3. \A i, j \in 1..Len(queue) : i # j => queue[i].sequence # queue[j].sequence
  BY <1>1 DEF ContractInv, OrderInv, OrderedSeq, Before
<1> QED BY <1>1, <1>2, <1>3

\* The log as the contract sees it: a sequence of deliveries, one for each publication.
LEMMA LogView ==
  ASSUME NEW l \in Seq(Published)
  PROVE  /\ Len(l) \in Nat /\ DOMAIN l = 1..Len(l)
         /\ Delivered(l) \in Seq(Delivery) /\ Len(Delivered(l)) = Len(l)
         /\ \A i \in 1..Len(l) :
              Delivered(l)[i] = [sequence  |-> l[i].sequence,
                                 afterLoss |-> "DROPPED_PREVIOUS" \in l[i].status]
<1>1. Len(l) \in Nat /\ DOMAIN l = 1..Len(l) /\ l \in [1..Len(l) -> Published]
  BY LenProperties
<1>2. \A i \in 1..Len(l) : l[i].sequence \in Nat
  BY <1>1 DEF Published
<1>3. \A i \in 1..Len(l) : ("DROPPED_PREVIOUS" \in l[i].status) \in BOOLEAN
  OBVIOUS
<1>4. Delivered(l) \in [1..Len(l) -> Delivery]
  BY <1>1, <1>2, <1>3 DEF Delivered, Delivery
<1>5. Delivered(l) \in Seq(Delivery) /\ Len(Delivered(l)) = Len(l)
  BY <1>1, <1>4
<1>6. \A i \in 1..Len(l) :
        Delivered(l)[i] = [sequence  |-> l[i].sequence,
                           afterLoss |-> "DROPPED_PREVIOUS" \in l[i].status]
  BY <1>1 DEF Delivered
<1> QED BY <1>1, <1>5, <1>6

\* The numbers that are still pending after the first n have left.
LEMMA PendingAfter ==
  ASSUME NEW q, NEW r, NEW n \in Nat, Len(q) \in Nat, DOMAIN q = 1..Len(q),
         DOMAIN r = 1..Len(r), Drops(q, r, n),
         \A i, j \in 1..Len(q) : i # j => q[i].sequence # q[j].sequence
  PROVE  Pending(r) = Pending(q) \ {q[i].sequence : i \in 1..n}
<1>1. Len(r) = Len(q) - n /\ \A i \in 1..Len(r) : r[i] = q[i + n]
  BY DEF Drops
<1>2. ASSUME NEW i \in 1..Len(r)
      PROVE  r[i].sequence \in Pending(q) \ {q[m].sequence : m \in 1..n}
  <2>1. i + n \in 1..Len(q) /\ \A m \in 1..n : m \in 1..Len(q) /\ m # i + n
    BY <1>1 DEF Drops
  <2> QED BY <1>1, <2>1 DEF Pending
<1>3. ASSUME NEW i \in 1..Len(q), q[i].sequence \notin {q[m].sequence : m \in 1..n}
      PROVE  q[i].sequence \in Pending(r)
  <2>1. i - n \in 1..Len(r) /\ (i - n) + n = i
    BY <1>1, <1>3
  <2> QED BY <1>1, <2>1 DEF Pending
<1> QED BY <1>2, <1>3 DEF Pending

\* A publication of n envelopes is a delivery of their numbers, in the same order.
LEMMA PublishingDelivers ==
  ASSUME ContractInv, TypeOK', NEW n \in 1..Len(queue), PublishedPrefix(n),
         UNCHANGED <<nextSequence, droppedCount>>
  PROVE  Contract!Deliver
<1> DEFINE batch == [i \in 1..n |-> queue[i].sequence]
           entries == [i \in 1..n |-> [sequence  |-> batch[i],
                                       afterLoss |-> i = 1 /\ droppedSincePublish]]
<1>1. /\ Len(queue) \in Nat /\ DOMAIN queue = 1..Len(queue) /\ nextSequence \in Nat
      /\ \A i, j \in 1..Len(queue) : i # j => queue[i].sequence # queue[j].sequence
      /\ \A i \in 1..Len(queue) : queue[i].sequence \in Nat
      /\ droppedSincePublish \in BOOLEAN
      /\ n \in Nat /\ n >= 1 /\ n <= Len(queue)
  BY QueueView, ElementTypes DEF ContractInv
<1>2. log \in Seq(Published) /\ log' \in Seq(Published) /\ queue' \in Seq(Envelope)
  BY DEF ContractInv, TypeOK
<1>3. n \in 1..nextSequence
  <2>1. nextSequence = Len(log) + Len(queue) + droppedCount
        /\ Len(log) \in Nat /\ droppedCount \in Nat
    BY <1>2, LogView DEF ContractInv, TypeOK, EveryAttemptAccounted
  <2> QED BY <1>1, <2>1
<1>4. /\ batch \in [1..n -> Pending(queue)]
      /\ \A i, j \in 1..n : i # j => batch[i] # batch[j]
  BY <1>1 DEF Pending
<1>5. Pending(queue') = Pending(queue) \ {batch[i] : i \in 1..n}
  <2>1. DOMAIN queue' = 1..Len(queue')
    BY <1>2, LenProperties
  <2>2. Drops(queue, queue', n)
    BY DEF PublishedPrefix
  <2>3. Pending(queue') = Pending(queue) \ {queue[i].sequence : i \in 1..n}
    BY <1>1, <2>1, <2>2, PendingAfter
  <2> QED BY <2>3
<1>6. Delivered(log') = Delivered(log) \o entries
  <2>1. /\ Delivered(log) \in Seq(Delivery) /\ Len(Delivered(log)) = Len(log)
        /\ Delivered(log') \in Seq(Delivery) /\ Len(Delivered(log')) = Len(log')
        /\ Len(log) \in Nat /\ Len(log') = Len(log) + n
    BY <1>2, LogView DEF PublishedPrefix
  <2>2. entries \in Seq(Delivery) /\ Len(entries) = n
    <3>1. \A i \in 1..n : (i = 1 /\ droppedSincePublish) \in BOOLEAN
      OBVIOUS
    <3>2. entries \in [1..n -> Delivery]
      BY <1>1, <3>1 DEF Delivery
    <3> QED BY <1>1, <3>2
  <2>3. /\ Delivered(log) \o entries \in Seq(Delivery)
        /\ Len(Delivered(log) \o entries) = Len(log) + n
        /\ \A i \in 1..(Len(log) + n) :
             (Delivered(log) \o entries)[i] =
               IF i <= Len(log) THEN Delivered(log)[i] ELSE entries[i - Len(log)]
    <3> HIDE DEF entries
    <3> QED BY <2>1, <2>2, ConcatProperties
  <2>4. ASSUME NEW i \in 1..(Len(log) + n)
        PROVE  Delivered(log')[i] = (Delivered(log) \o entries)[i]
    <3>1. CASE i <= Len(log)
      <4>1. log'[i] = log[i] /\ i \in 1..Len(log)
        BY <2>1, <3>1 DEF PublishedPrefix
      <4>2. Delivered(log')[i] = Delivered(log)[i]
        BY <1>2, <2>1, <4>1, LogView
      <4> QED BY <2>3, <3>1, <4>2
    <3>2. CASE i > Len(log)
      <4> DEFINE item == queue[i - Len(log)]
      <4>1. /\ i - Len(log) \in 1..n
            /\ log'[i] = WithHealth(item, i - Len(log), Len(queue) - n)
        BY <2>1, <3>2 DEF PublishedPrefix
      <4>2. "DROPPED_PREVIOUS" \notin item.status
        BY <1>1, <4>1 DEF ContractInv, LossInv
      <4>3. /\ log'[i].sequence = item.sequence
            /\ log'[i].status = PublishStatus(item, i - Len(log))
        BY <4>1 DEF WithHealth
      <4>4. ("DROPPED_PREVIOUS" \in log'[i].status)
              = (i - Len(log) = 1 /\ droppedSincePublish)
        BY <4>2, <4>3 DEF PublishStatus
      <4>5. Delivered(log')[i] = [sequence  |-> log'[i].sequence,
                                  afterLoss |-> "DROPPED_PREVIOUS" \in log'[i].status]
        BY <1>2, <2>1, LogView
      <4>6. entries[i - Len(log)] = [sequence  |-> item.sequence,
                                     afterLoss |-> i - Len(log) = 1 /\ droppedSincePublish]
        BY <4>1
      <4>7. (Delivered(log) \o entries)[i] = entries[i - Len(log)]
        BY <2>1, <2>3, <3>2
      <4> QED BY Zenon, <4>3, <4>4, <4>5, <4>6, <4>7
    <3> QED BY <2>1, <3>1, <3>2
  <2> HIDE DEF entries
  <2> QED BY <2>1, <2>3, <2>4, SeqEqual
<1>7. droppedSincePublish' = FALSE
  <2>1. droppedSincePublish' = (droppedSincePublish /\ n = 0) /\ n # 0
    BY <1>1 DEF PublishedPrefix, Announce
  <2> QED BY Zenon, <2>1
<1> QED
  BY <1>3, <1>4, <1>5, <1>6, <1>7, Zenon DEF Contract!Deliver, Pending, Delivered
\* The numbers that are pending once an envelope has been put among the others.
LEMMA PendingWith ==
  ASSUME NEW q, NEW r, NEW k, NEW item, Len(q) \in Nat, DOMAIN q = 1..Len(q),
         DOMAIN r = 1..Len(r), Inserts(q, r, k, item)
  PROVE  Pending(r) = Pending(q) \cup {item.sequence}
<1>1. /\ k \in 1..(Len(q) + 1) /\ Len(r) = Len(q) + 1
      /\ \A i \in 1..Len(r) :
           r[i] = IF i < k THEN q[i] ELSE IF i = k THEN item ELSE q[i - 1]
  BY DEF Inserts
<1>2. ASSUME NEW i \in 1..Len(r)
      PROVE  r[i].sequence \in Pending(q) \cup {item.sequence}
  <2>1. \/ i \in 1..Len(q) /\ r[i] = q[i]
        \/ r[i] = item
        \/ i - 1 \in 1..Len(q) /\ r[i] = q[i - 1]
    BY <1>1
  <2> QED BY <2>1 DEF Pending
<1>3. item.sequence \in Pending(r)
  <2>1. k \in 1..Len(r) /\ r[k] = item
    BY <1>1
  <2> QED BY <2>1 DEF Pending
<1>4. ASSUME NEW i \in 1..Len(q)
      PROVE  q[i].sequence \in Pending(r)
  <2>1. CASE i < k
    <3>1. i \in 1..Len(r) /\ r[i] = q[i]
      BY <1>1, <2>1
    <3> QED BY <3>1 DEF Pending
  <2>2. CASE i >= k
    <3>1. i + 1 \in 1..Len(r) /\ r[i + 1] = q[i]
      BY <1>1, <2>2
    <3> QED BY <3>1 DEF Pending
  <2> QED BY <1>1, <2>1, <2>2
<1> QED BY <1>2, <1>3, <1>4 DEF Pending

\* An acquisition is an attempt: kept, lost, or kept at the cost of the one that was due first.
LEMMA AcquiringAttempts ==
  ASSUME ContractInv, TypeOK', nextSequence' = nextSequence + 1, log' = log,
         NEW src \in Nat, (Lose /\ UNCHANGED queue) \/ Kept(src)
  PROVE  Contract!Attempt
<1>1. /\ Len(queue) \in Nat /\ DOMAIN queue = 1..Len(queue)
      /\ nextSequence \in Nat /\ nextSequence \notin Pending(queue)
      /\ \A i, j \in 1..Len(queue) : i # j => queue[i].sequence # queue[j].sequence
  BY QueueView
<1>2. UNCHANGED Delivered(log)
  BY DEF Delivered
<1> DEFINE all == Pending(queue) \cup {nextSequence}
<1>3. CASE Lose /\ UNCHANGED queue
  <2>1. Pending(queue') = all \ {nextSequence}
    BY <1>1, <1>3
  <2>2. nextSequence \in Pending(queue) \cup {nextSequence}
    OBVIOUS
  <2> QED
    BY <1>2, <1>3, <2>1, <2>2, Zenon
    DEF Contract!Attempt, Contract!Lose, Lose, Pending, Delivered
<1>4. CASE Kept(src)
  <2>1. PICK j \in Jitter, n \in {0, 1}, q \in Seq(Envelope), k \in Nat :
          /\ Drops(queue, q, n)
          /\ Inserts(q, queue', k, NewEnvelope(src, j))
          /\ \/ n = 0 /\ UNCHANGED <<droppedCount, droppedSincePublish>>
             \/ n = 1 /\ Lose
    BY <1>4 DEF Kept
  <2>2. Len(q) \in Nat /\ DOMAIN q = 1..Len(q) /\ DOMAIN queue' = 1..Len(queue')
    BY LenProperties DEF TypeOK
  <2>3. Pending(q) = Pending(queue) \ {queue[i].sequence : i \in 1..n}
    <3>1. n \in Nat
      OBVIOUS
    <3> QED BY <1>1, <2>1, <2>2, <3>1, PendingAfter
  <2>4. Pending(queue') = Pending(q) \cup {nextSequence}
    <3>1. NewEnvelope(src, j).sequence = nextSequence
      BY DEF NewEnvelope
    <3>2. Inserts(q, queue', k, NewEnvelope(src, j))
      BY <2>1
    <3> HIDE DEF all
    <3> QED BY <2>2, <3>1, <3>2, PendingWith
  <2>5. CASE n = 0 /\ UNCHANGED <<droppedCount, droppedSincePublish>>
    <3>1. Pending(queue') = all
      BY <2>3, <2>4, <2>5
    <3> QED
      BY <1>2, <2>5, <3>1, Zenon
      DEF Contract!Attempt, Contract!Keep, Pending, Delivered
  <2>6. CASE n = 1 /\ Lose
    <3>1. 1 \in 1..Len(queue) /\ {queue[i].sequence : i \in 1..n} = {queue[1].sequence}
      BY <1>1, <2>1, <2>6 DEF Drops
    <3>2. queue[1].sequence \in Pending(queue)
      BY <1>1, <3>1 DEF Pending
    <3>3. Pending(queue') = all \ {queue[1].sequence}
      BY <1>1, <2>3, <2>4, <3>1, <3>2
    <3>4. queue[1].sequence \in all
      BY <3>2
    <3> QED
      BY <1>2, <2>6, <3>3, <3>4, Zenon
      DEF Contract!Attempt, Contract!Lose, Lose, Pending, Delivered
  <2> QED BY <2>1, <2>5, <2>6
<1> QED BY <1>3, <1>4

(***************************************************************************)
(* Every step of the pipeline is one the contract of the stream allows, or *)
(* one its consumer does not notice: no attempt is delivered twice, or     *)
(* after it was lost, and a loss is announced once, by the next delivery.  *)
(***************************************************************************)
THEOREM ImplementsContract == Spec => KeepsContract
<1>1. Init => Contract!Init
  <2> SUFFICES ASSUME Init PROVE Contract!Init
    OBVIOUS
  <2>1. DOMAIN queue = {} /\ log = <<>> /\ DOMAIN log = {}
    BY DEF Init
  <2>2. Pending(queue) = {} /\ Delivered(log) = <<>>
    BY <2>1 DEF Pending, Delivered
  <2> QED
    BY <2>2 DEF Init, Contract!Init, Pending, Delivered
<1>2. ContractInv /\ [Next]_vars => [Contract!Next]_(Contract!cvars)
  <2> SUFFICES ASSUME ContractInv, [Next]_vars
               PROVE  Contract!Next \/ UNCHANGED Contract!cvars
    OBVIOUS
  <2> USE DEF Contract!Next
  <2>1. TypeOK /\ TypeOK'
    BY TypeNext DEF ContractInv
  <2>2. CASE Advance \/ UNCHANGED vars
    <3>1. UNCHANGED <<queue, nextSequence, droppedCount, droppedSincePublish, log>>
      BY <2>2 DEF Advance, vars
    <3> QED BY <3>1 DEF Contract!cvars
  <2>3. ASSUME NEW src \in (sampled + 1)..now, Enqueue(src) PROVE Contract!Attempt
    <3>1. /\ src \in Nat /\ nextSequence' = nextSequence + 1 /\ log' = log
          /\ (Lose /\ UNCHANGED queue) \/ Kept(src)
      BY <2>1, <2>3, EnqueueEffect
    <3> QED BY <2>1, <3>1, AcquiringAttempts
  <2>4. CASE PublishDue
    <3>1. PICK n \in 0..Len(queue) : PublishedPrefix(n)
      BY <2>1, <2>4, PublishEffect
    <3>2. UNCHANGED <<nextSequence, droppedCount>>
      BY <2>1, <2>4, PublishEffect
    <3>3. CASE n = 0
      <4>1. queue' = queue /\ log' = log
        <5>1. /\ queue \in Seq(Envelope) /\ queue' \in Seq(Envelope)
              /\ log \in Seq(Published) /\ log' \in Seq(Published)
          BY <2>1 DEF TypeOK
        <5>2. /\ Len(queue) \in Nat /\ Len(queue') = Len(queue)
              /\ \A i \in 1..Len(queue') : queue'[i] = queue[i]
              /\ Len(log) \in Nat /\ Len(log') = Len(log)
              /\ \A i \in 1..Len(log') : log'[i] = log[i]
          BY <3>1, <3>3, <5>1, LenProperties DEF PublishedPrefix, Drops
        <5> QED BY <5>1, <5>2, SeqEqual
      <4>2. droppedSincePublish' = (droppedSincePublish /\ n = 0)
        BY <3>1 DEF PublishedPrefix, Announce
      <4>3. droppedSincePublish \in BOOLEAN
        BY <2>1 DEF TypeOK
      <4>4. droppedSincePublish' = droppedSincePublish
        BY Zenon, <3>3, <4>2, <4>3
      <4> QED BY <3>2, <4>1, <4>4 DEF Contract!cvars
    <3>4. CASE n # 0
      <4>1. n \in 1..Len(queue)
        BY <2>1, <3>4, ElementTypes
      <4> QED BY <2>1, <3>1, <3>2, <4>1, PublishingDelivers
    <3> QED BY <3>3, <3>4
  <2>5. CASE Reset
    <3>1. /\ queue' = <<>> /\ log' = <<>> /\ nextSequence' = 0
          /\ droppedCount' = 0 /\ droppedSincePublish' = FALSE
      BY <2>5 DEF Reset, NewEpisode, EpisodeReplay
    <3>2. Pending(queue') = {} /\ Delivered(log') = <<>>
      BY <3>1 DEF Pending, Delivered
    <3> QED BY <3>1, <3>2 DEF Contract!Restart, Pending, Delivered
  <2> QED BY <2>2, <2>3, <2>4, <2>5 DEF Next
<1> QED
  BY <1>1, <1>2, AlwaysContractInv, PTL DEF Spec, KeepsContract, Contract!Spec
=============================================================================
