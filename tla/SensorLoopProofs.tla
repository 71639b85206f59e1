-------------------------- MODULE SensorLoopProofs --------------------------
(***************************************************************************)
(* The documented loop, for every period, phase, latency and length of the *)
(* physics steps: it is a caller the pipeline allows, so that everything   *)
(* proved of the pipeline holds of it; it samples on its grid and skips    *)
(* nothing; and it releases what is due, in time.                          *)
(***************************************************************************)
EXTENDS SensorLoop, TimedSensorPipelineProofs, FiniteSetTheorems

\* The instant the next sample is to be taken at.
Expected == IF sampled = -1 THEN Phase ELSE sampled + Period

(***************************************************************************)
(* What Due has returned runs along the grid up to next_sample_ns_, and    *)
(* all of it has come but nothing after it.                                *)
(***************************************************************************)
GridInv ==
  /\ pc \in {"poll", "sample", "idle"}
  /\ nextSample \in Nat
  /\ due \in Seq(Nat)
  /\ pc # "sample" => due = <<>>
  /\ due = <<>> => nextSample = Expected
  /\ due # <<>> =>
       /\ Period > 0
       /\ due[1] = Expected
       /\ \A i \in 1..(Len(due) - 1) : due[i + 1] = due[i] + Period
       /\ due[Len(due)] + Period = nextSample
       /\ \A i \in 1..Len(due) : due[i] <= now

\* How far Due runs: to the last instant of the grid that has come.
LEMMA DueReaches ==
  ASSUME NEW a \in Nat, NEW t \in Nat, a <= t, Period > 0
  PROVE  LET n == (t - a) \div Period + 1
         IN  /\ n \in Nat /\ n >= 1
             /\ a + (n - 1) * Period <= t
             /\ t < a + n * Period
<1> USE LoopAssumption
<1> DEFINE d == (t - a) \div Period
<1>1. d \in Nat /\ d * Period <= t - a /\ t - a < (d + 1) * Period
  OBVIOUS
<1> QED BY <1>1

\* Two neighbours of the grid are a period apart.
LEMMA Neighbours ==
  ASSUME NEW i \in Int
  PROVE  i * Period \in Int /\ (i + 1) * Period = i * Period + Period
BY LoopAssumption

\* More periods are a longer time.
LEMMA PeriodsGrow ==
  ASSUME NEW a \in Nat, NEW b \in Nat, a <= b
  PROVE  a * Period \in Nat /\ a * Period <= b * Period
<1> USE LoopAssumption
<1>1. PICK c \in Nat : b = a + c
  <2>1. b - a \in Nat /\ b = a + (b - a)
    OBVIOUS
  <2> QED BY <2>1
<1>2. (a + c) * Period = a * Period + c * Period
  OBVIOUS
<1>3. a * Period \in Nat /\ c * Period \in Nat
  OBVIOUS
<1> QED BY <1>1, <1>2, <1>3
-----------------------------------------------------------------------------
\* The first of the due instants is after the latest sample and not in the future.
LEMMA HeadIsLegal ==
  ASSUME TypeOK, GridInv, due # <<>>
  PROVE  /\ Head(due) = due[1] /\ Head(due) = Expected
         /\ Head(due) \in (sampled + 1)..now
<1>1. due \in Seq(Nat) /\ Len(due) \in Nat /\ Len(due) >= 1 /\ Head(due) = due[1]
  BY EmptySeq, LenProperties DEF GridInv
<1>2. due[1] = Expected /\ due[1] <= now /\ Period > 0 /\ due[1] \in Nat
  BY <1>1 DEF GridInv
<1> QED BY <1>1, <1>2, LoopAssumption DEF Expected, TypeOK

\* Every call the loop makes is one the pipeline expects.
LEMMA LoopCalls ==
  ASSUME TypeOK, GridInv, [LoopNext]_loopVars
  PROVE  [Next]_vars
<1>1. CASE PhysicsStep
  BY <1>1 DEF PhysicsStep, Next
<1>2. CASE Poll \/ UNCHANGED loopVars
  BY <1>2 DEF Poll, loopVars
<1>3. CASE Sample
  BY <1>3, HeadIsLegal DEF Sample, Next
<1>4. CASE Emit
  BY <1>4 DEF Emit, Next
<1>5. CASE RestartEpisode \/ ContinueClock
  BY <1>5 DEF RestartEpisode, ContinueClock, Reset, Next
<1> QED BY <1>1, <1>2, <1>3, <1>4, <1>5 DEF LoopNext

\* Due continues the grid where it stood, and leaves next_sample_ns_ in the future.
LEMMA PollKeepsGrid ==
  ASSUME TypeOK, GridInv, Poll
  PROVE  GridInv' /\ (Period > 0 => now < nextSample')
<1> USE LoopAssumption
<1>1. /\ due = <<>> /\ nextSample = Expected /\ nextSample \in Nat /\ now \in Nat
      /\ pc' = "sample" /\ sampled' = sampled /\ now' = now
      /\ due' = [i \in 1..DueCount |-> nextSample + (i - 1) * Period]
      /\ nextSample' = nextSample + DueCount * Period
  BY DEF Poll, GridInv, TypeOK, vars
<1>2. CASE Period > 0 /\ nextSample <= now
  <2> DEFINE n == DueCount
  <2>1. DueCount = (now - nextSample) \div Period + 1
    BY <1>2 DEF DueCount
  <2>2. /\ n \in Nat /\ n >= 1
        /\ nextSample + (n - 1) * Period <= now
        /\ now < nextSample + n * Period
    BY <1>1, <1>2, <2>1, DueReaches
  <2> HIDE DEF n
  <2>3. /\ due' = [i \in 1..n |-> nextSample + (i - 1) * Period]
        /\ nextSample' = nextSample + n * Period
    BY <1>1 DEF n
  <2>4. \A i \in 1..n : (i - 1) * Period \in Nat /\ (i - 1) * Period <= (n - 1) * Period
    <3> SUFFICES ASSUME NEW i \in 1..n
                 PROVE  (i - 1) * Period \in Nat /\ (i - 1) * Period <= (n - 1) * Period
      OBVIOUS
    <3>1. i - 1 \in Nat /\ n - 1 \in Nat /\ i - 1 <= n - 1
      BY <2>2
    <3> HIDE LoopAssumption
    <3> QED BY <3>1, PeriodsGrow
  <2>5. due' \in Seq(Nat) /\ Len(due') = n
    <3>1. due' \in [1..n -> Nat]
      BY <1>1, <2>3, <2>4
    <3> QED BY <2>2, <3>1
  <2>6. due'[1] = nextSample
    <3>1. due'[1] = nextSample + 0 * Period /\ 0 * Period = 0
      BY <2>2, <2>3
    <3> QED BY <1>1, <3>1
  <2>7. \A i \in 1..(n - 1) : due'[i + 1] = due'[i] + Period
    <3> SUFFICES ASSUME NEW i \in 1..(n - 1) PROVE due'[i + 1] = due'[i] + Period
      OBVIOUS
    <3>1. due'[i + 1] = nextSample + i * Period /\ due'[i] = nextSample + (i - 1) * Period
      BY <2>2, <2>3
    <3>2. i * Period = (i - 1) * Period + Period /\ (i - 1) * Period \in Int
      BY Neighbours
    <3> QED BY <1>1, <3>1, <3>2
  <2>8. due'[n] + Period = nextSample'
    <3>1. due'[n] = nextSample + (n - 1) * Period
      BY <2>2, <2>3
    <3>2. n * Period = (n - 1) * Period + Period /\ (n - 1) * Period \in Int
      BY <2>2, Neighbours
    <3> QED BY <1>1, <2>3, <3>1, <3>2
  <2>9. ASSUME NEW i \in 1..n PROVE due'[i] <= now
    <3>1. due'[i] = nextSample + (i - 1) * Period
      BY <2>3
    <3>2. (n - 1) * Period \in Int
      BY <2>2
    <3> QED BY <1>1, <2>2, <2>4, <3>1, <3>2
  <2>10. nextSample' \in Nat /\ now < nextSample'
    BY <1>1, <2>2, <2>3
  <2>11. due' # <<>>
    BY <2>2, <2>5
  <2> QED
    BY <1>1, <1>2, <2>5, <2>6, <2>7, <2>8, <2>9, <2>10, <2>11 DEF GridInv, Expected
<1>3. CASE ~(Period > 0 /\ nextSample <= now)
  <2>1. DueCount = 0
    BY <1>3 DEF DueCount
  <2>2. due' = <<>> /\ nextSample' = nextSample
    BY <1>1, <2>1
  <2>3. Period > 0 => now < nextSample'
    BY <1>1, <1>3, <2>2
  <2> QED BY <1>1, <2>2, <2>3, EmptySeq DEF GridInv, Expected
<1> QED BY <1>2, <1>3

\* Every step of the loop stays on the grid.
LEMMA GridNext ==
  ASSUME TypeOK, GridInv, [LoopNext]_loopVars
  PROVE  GridInv'
<1> USE LoopAssumption
<1>1. CASE PhysicsStep
  BY <1>1 DEF PhysicsStep, Advance, GridInv, Expected, TypeOK
<1>2. CASE Poll
  BY <1>2, PollKeepsGrid
<1>3. CASE Sample
  <2>1. /\ due # <<>> /\ due \in Seq(Nat) /\ Len(due) \in Nat /\ Len(due) >= 1
        /\ due' = Tail(due) /\ nextSample' = nextSample /\ pc' = pc /\ pc = "sample"
    BY <1>3, EmptySeq, LenProperties DEF Sample, GridInv
  <2>2. sampled' = due[1] /\ due[1] \in Nat /\ now' = now
    BY <1>3, <2>1, HeadIsLegal DEF Sample, Enqueue
  <2>3. /\ due' \in Seq(Nat) /\ Len(due') = Len(due) - 1
        /\ \A i \in 1..Len(due') : due'[i] = due[i + 1]
    BY <2>1, HeadTailProperties
  <2>4. CASE Len(due) = 1
    <3>1. due' = <<>>
      BY <2>3, <2>4, EmptySeq
    <3>2. nextSample' = due[1] + Period
      BY <2>1, <2>4 DEF GridInv
    <3> QED BY <2>1, <2>2, <2>3, <3>1, <3>2 DEF GridInv, Expected
  <2>5. CASE Len(due) > 1
    <3>1. due' # <<>> /\ due'[1] = due[1] + Period
      <4>1. 1 \in 1..(Len(due) - 1) /\ 1 \in 1..Len(due')
        BY <2>1, <2>3, <2>5
      <4>2. due[1 + 1] = due[1] + Period
        BY <2>1, <4>1 DEF GridInv
      <4>3. due'[1] = due[1 + 1]
        BY <2>3, <4>1
      <4> QED BY <2>3, <4>1, <4>2, <4>3
    <3>2. due'[Len(due')] = due[Len(due)]
      BY <2>1, <2>3, <2>5
    <3>3. \A i \in 1..(Len(due') - 1) : due'[i + 1] = due'[i] + Period
      BY <2>1, <2>3 DEF GridInv
    <3>4. \A i \in 1..Len(due') : due'[i] <= now'
      BY <2>1, <2>2, <2>3 DEF GridInv
    <3>5. /\ Period > 0 /\ due'[1] = Expected' /\ nextSample' \in Nat
          /\ due'[Len(due')] + Period = nextSample'
      <4>1. Period > 0 /\ due[Len(due)] + Period = nextSample /\ nextSample \in Nat
        BY <2>1 DEF GridInv
      <4>2. Expected' = due[1] + Period
        BY <2>2 DEF Expected
      <4> QED BY <2>1, <3>1, <3>2, <4>1, <4>2
    <3>6. pc' = "sample"
      BY <2>1
    <3> QED BY Zenon, <2>3, <3>1, <3>3, <3>4, <3>5, <3>6 DEF GridInv
  <2>6. Len(due) = 1 \/ Len(due) > 1
    <3>1. Len(due) \in Nat /\ Len(due) >= 1
      BY <2>1
    <3>2. \A m \in Nat : m >= 1 => m = 1 \/ m > 1
      OBVIOUS
    <3> QED BY Zenon, <3>1, <3>2
  <2> QED BY Zenon, <2>4, <2>5, <2>6
<1>4. CASE Emit
  <2>1. UNCHANGED <<sampled, now>>
    BY <1>4 DEF Emit, PublishDue
  <2> QED BY <1>4, <2>1 DEF Emit, GridInv, Expected
<1>5. CASE RestartEpisode
  BY <1>5 DEF RestartEpisode, RestartClock, GridInv, Expected
<1>6. CASE ContinueClock
  BY <1>6 DEF ContinueClock, GridInv, Expected
<1>7. CASE UNCHANGED loopVars
  BY <1>7 DEF loopVars, vars, GridInv, Expected
<1> QED BY <1>1, <1>2, <1>3, <1>4, <1>5, <1>6, <1>7 DEF LoopNext

\* A loop that has just started.
LEMMA GridInit == LoopInit => TypeOK /\ GridInv
BY TypeInit, EmptySeq, LoopAssumption DEF LoopInit, Init, GridInv, Expected

\* The loop's clock is on the grid in every state of every behaviour.
LEMMA AlwaysOnGrid == LoopSpec => [](TypeOK /\ GridInv)
<1>1. TypeOK /\ GridInv /\ [LoopNext]_loopVars => (TypeOK /\ GridInv)'
  BY LoopCalls, TypeNext, GridNext
<1> QED BY <1>1, GridInit, PTL DEF LoopSpec

(***************************************************************************)
(* The documented loop is one of the callers of the pipeline: it samples   *)
(* at increasing instants, never in the future.  Whatever is proved of the *)
(* pipeline, the contract of its stream included, holds of the loop.       *)
(***************************************************************************)
THEOREM LoopUsesPipeline == LoopSpec => Spec /\ KeepsContract
<1>1. LoopInit => Init
  BY DEF LoopInit
<1>2. TypeOK /\ GridInv /\ [LoopNext]_loopVars => [Next]_vars
  BY LoopCalls
<1>3. LoopSpec => Spec
  BY <1>1, <1>2, AlwaysOnGrid, PTL DEF LoopSpec, Spec
<1> QED BY <1>3, ImplementsContract, PTL

(***************************************************************************)
(* However long the physics steps are, an episode is sampled at every      *)
(* instant of its grid, in order, none of them twice.                      *)
(***************************************************************************)
THEOREM GridIsKept == LoopSpec => GridNeverSkipped
<1> DEFINE OnGrid == sampled' # sampled /\ sampled' # -1 => sampled' = Expected
<1>1. TypeOK /\ GridInv /\ [LoopNext]_loopVars => [OnGrid]_loopVars
  <2> SUFFICES ASSUME TypeOK, GridInv, LoopNext, sampled' # sampled, sampled' # -1
               PROVE  sampled' = Expected
    OBVIOUS
  <2>1. CASE Sample
    <3>1. Enqueue(Head(due)) /\ due # <<>>
      BY <2>1 DEF Sample
    <3>2. sampled' = Head(due)
      BY <3>1 DEF Enqueue
    <3> QED BY <3>1, <3>2, HeadIsLegal
  <2>2. ~(PhysicsStep \/ Poll \/ Emit \/ RestartEpisode \/ ContinueClock)
    BY DEF PhysicsStep, Advance, Poll, vars, Emit, PublishDue,
           RestartEpisode, RestartClock, ContinueClock
  <2> QED BY <2>1, <2>2 DEF LoopNext
<1> QED
  BY <1>1, AlwaysOnGrid, PTL DEF LoopSpec, GridNeverSkipped, Expected
-----------------------------------------------------------------------------
(***************************************************************************)
(* Release.  What is queued, and what is still to be sampled, was not due  *)
(* when the loop last came past: at most one physics step ago.             *)
(***************************************************************************)
ReleaseInv ==
  /\ pc = "idle" => \A i \in 1..Len(queue) : queue[i].scheduled > now
  /\ \A i \in 1..Len(queue) : queue[i].scheduled > now - MaxStep
  /\ \A i \in 1..Len(due) : due[i] > now - MaxStep
  /\ Period > 0 /\ pc = "poll" => nextSample > now - MaxStep
  /\ Period > 0 /\ pc # "poll" => nextSample > now
  /\ \A i \in 1..Len(log) : log[i].publish - log[i].scheduled < MaxStep

\* What is left in an ordered queue once its due prefix is gone is not due.
LEMMA RestIsNotDue ==
  ASSUME TypeOK, OrderInv, NEW n \in 0..Len(queue), DuePrefix(n),
         NEW i \in 1..Len(queue), i > n
  PROVE  queue[i].scheduled > now
<1>1. /\ Len(queue) \in Nat /\ n + 1 \in 1..Len(queue) /\ now \in Nat
      /\ queue[n + 1].scheduled \in Nat /\ queue[i].scheduled \in Nat
  BY ElementTypes DEF TypeOK
<1>2. queue[n + 1].scheduled > now
  BY <1>1 DEF DuePrefix, IsDue
<1>3. i = n + 1 \/ Before(queue[n + 1], queue[i])
  BY <1>1 DEF OrderInv, OrderedSeq
<1> QED BY <1>1, <1>2, <1>3 DEF Before

\* No step lets anything wait for longer than a physics step.
LEMMA ReleaseNext ==
  ASSUME TypeOK, OrderInv, GridInv, ReleaseInv, [LoopNext]_loopVars
  PROVE  ReleaseInv'
<1>1. /\ Len(queue) \in Nat /\ Len(log) \in Nat /\ now \in Nat
      /\ MaxStep \in Nat /\ MaxStep > 0 /\ Period \in Nat /\ Phase \in Nat
      /\ nextSample \in Nat /\ pc \in {"poll", "sample", "idle"}
      /\ \A i \in 1..Len(queue) : queue[i].scheduled \in Nat
  BY ElementTypes, LoopAssumption DEF TypeOK, GridInv
<1>2. CASE PhysicsStep
  <2>1. /\ pc = "idle" /\ pc' = "poll" /\ now' \in Int /\ now' <= now + MaxStep
        /\ due = <<>> /\ UNCHANGED <<queue, log, due, nextSample>>
    BY <1>1, <1>2, PipelineAssumption DEF PhysicsStep, Advance, GridInv
  <2> QED BY <1>1, <2>1 DEF ReleaseInv
<1>3. CASE Poll
  <2>1. /\ pc = "poll" /\ pc' = "sample" /\ UNCHANGED <<now, queue, log>>
        /\ due' = [i \in 1..DueCount |-> nextSample + (i - 1) * Period]
    BY <1>3 DEF Poll, vars
  <2>2. Period > 0 => now' < nextSample'
    BY <1>3, <2>1, PollKeepsGrid
  <2>3. \A i \in 1..Len(due') : due'[i] > now - MaxStep
    <3>1. CASE Period > 0 /\ nextSample <= now
      <4>1. DueCount \in Nat
        BY <1>1, <3>1, DueReaches DEF DueCount
      <4>2. Len(due') = DueCount
        BY <2>1, <4>1
      <4>3. ASSUME NEW i \in 1..DueCount PROVE due'[i] > now - MaxStep
        <5>1. i - 1 \in Nat
          BY <4>1
        <5>2. (i - 1) * Period \in Nat
          BY <1>1, <5>1
        <5>3. due'[i] = nextSample + (i - 1) * Period
          BY <2>1
        <5> QED BY <1>1, <2>1, <3>1, <5>2, <5>3 DEF ReleaseInv
      <4> QED BY <4>2, <4>3
    <3>2. CASE ~(Period > 0 /\ nextSample <= now)
      <4>1. due' = <<>>
        BY <2>1, <3>2 DEF DueCount
      <4> QED BY <4>1
    <3> QED BY <3>1, <3>2
  <2> QED BY <1>1, <2>1, <2>2, <2>3 DEF ReleaseInv
<1>4. CASE Sample
  <2>1. /\ pc = "sample" /\ due # <<>> /\ Enqueue(Head(due)) /\ due' = Tail(due)
        /\ UNCHANGED <<nextSample, pc>>
        /\ Head(due) = due[1] /\ Head(due) \in (sampled + 1)..now
    BY <1>4, HeadIsLegal DEF Sample
  <2>2. /\ Head(due) \in Nat /\ UNCHANGED <<now, log>>
        /\ (Lose /\ UNCHANGED queue) \/ Kept(Head(due))
    BY <2>1, EnqueueEffect
  <2>3. /\ due \in Seq(Nat) /\ Len(due) \in Nat /\ Len(due) >= 1
    BY <2>1, EmptySeq, LenProperties DEF GridInv
  <2>4. /\ Len(due') = Len(due) - 1
        /\ \A i \in 1..Len(due') : due'[i] = due[i + 1] /\ i + 1 \in 1..Len(due)
    BY <2>1, <2>3, HeadTailProperties
  <2>5. Head(due) > now - MaxStep
    BY <2>1, <2>3 DEF ReleaseInv
  <2>6. \A i \in 1..Len(queue') : queue'[i].scheduled > now - MaxStep
    <3>1. CASE UNCHANGED queue
      BY <3>1 DEF ReleaseInv
    <3>2. CASE Kept(Head(due))
      <4>1. PICK j \in Jitter : \A i \in 1..Len(queue') :
              \/ queue'[i] = NewEnvelope(Head(due), j)
              \/ \E m \in 1..Len(queue) : queue'[i] = queue[m]
        BY <2>2, <3>2, KeptElements
      <4>2. /\ NewEnvelope(Head(due), j).scheduled = Head(due) + SampleLatency(j)
            /\ SampleLatency(j) \in Nat
        BY LatencyInRange DEF NewEnvelope
      <4>3. NewEnvelope(Head(due), j).scheduled > now - MaxStep
        BY <1>1, <2>2, <2>5, <4>2
      <4> QED BY <4>1, <4>3 DEF ReleaseInv
    <3> QED BY <2>2, <3>1, <3>2
  <2>7. \A i \in 1..Len(due') : due'[i] > now - MaxStep
    BY <2>4 DEF ReleaseInv
  <2> QED BY <2>1, <2>2, <2>6, <2>7 DEF ReleaseInv
<1>5. CASE Emit
  <2>1. pc = "sample" /\ due = <<>> /\ pc' = "idle" /\ UNCHANGED <<nextSample, due>> /\ PublishDue
    BY <1>5 DEF Emit
  <2>2. PICK n \in 0..Len(queue) : PublishedPrefix(n)
    BY <2>1, PublishEffect
  <2>3. now' = now
    BY <2>1, PublishEffect
  <2>4. /\ DuePrefix(n) /\ n \in Nat
        /\ Len(queue') = Len(queue) - n
        /\ \A i \in 1..Len(queue') : queue'[i] = queue[i + n]
        /\ Len(log') = Len(log) + n
        /\ \A i \in 1..Len(log') :
             log'[i] = IF i <= Len(log) THEN log[i]
                       ELSE WithHealth(queue[i - Len(log)], i - Len(log), Len(queue) - n)
    BY <2>2 DEF PublishedPrefix, Drops
  <2>5. Len(queue) \in Nat /\ Len(log) \in Nat /\ n <= Len(queue)
    BY <1>1
  <2>6. ASSUME NEW i \in 1..Len(queue')
        PROVE  i + n \in 1..Len(queue) /\ i + n > n /\ queue'[i] = queue[i + n]
    BY <2>4, <2>5
  <2>7. ASSUME NEW i \in 1..Len(queue')
        PROVE  queue'[i].scheduled > now /\ queue'[i].scheduled > now - MaxStep
    <3>1. queue[i + n].scheduled > now
      BY <2>4, <2>6, RestIsNotDue
    <3>2. queue[i + n].scheduled > now - MaxStep
      BY <2>6 DEF ReleaseInv
    <3> QED BY <2>6, <3>1, <3>2
  <2>8. ASSUME NEW i \in 1..Len(log')
        PROVE  log'[i].publish - log'[i].scheduled < MaxStep
    <3>1. CASE i <= Len(log)
      <4>1. log'[i] = log[i] /\ i \in 1..Len(log)
        BY <2>4, <2>5, <3>1
      <4> QED BY <4>1 DEF ReleaseInv
    <3>2. CASE i > Len(log)
      <4> DEFINE m == i - Len(log)
      <4>1. m \in 1..Len(queue)
        BY <2>4, <2>5, <3>2
      <4>2. log'[i] = WithHealth(queue[m], m, Len(queue) - n)
        BY <2>4, <2>5, <3>2
      <4> HIDE DEF m
      <4>3. log'[i].publish = now /\ log'[i].scheduled = queue[m].scheduled
        BY <4>2 DEF WithHealth
      <4>4. queue[m].scheduled > now - MaxStep /\ queue[m].scheduled \in Nat
        BY <1>1, <4>1 DEF ReleaseInv
      <4> QED BY <1>1, <4>3, <4>4
    <3> QED BY <2>4, <2>5, <3>1, <3>2
  <2> QED BY <2>1, <2>3, <2>7, <2>8 DEF ReleaseInv
<1>6. CASE RestartEpisode
  <2>1. /\ queue' = <<>> /\ log' = <<>> /\ now' = 0 /\ due' = <<>> /\ pc' = "poll"
        /\ nextSample' = Phase
    BY <1>6 DEF RestartEpisode, NewEpisode, EpisodeReplay, RestartClock, GridInv
  <2> QED BY <1>1, <2>1, EmptySeq DEF ReleaseInv
<1>7. CASE ContinueClock
  <2>1. queue' = <<>> /\ log' = <<>> /\ UNCHANGED <<now, due, pc, nextSample>>
    BY <1>7 DEF ContinueClock, NewEpisode, EpisodeReplay
  <2> QED BY <1>1, <2>1, EmptySeq DEF ReleaseInv
<1>8. CASE UNCHANGED loopVars
  BY <1>8 DEF loopVars, vars, ReleaseInv
<1> QED BY <1>2, <1>3, <1>4, <1>5, <1>6, <1>7, <1>8 DEF LoopNext

\* The invariant the theorems on release and size rest on.
LEMMA AlwaysInTime == LoopSpec => [](TypeOK /\ OrderInv /\ GridInv /\ ReleaseInv)
<1>1. LoopInit => ReleaseInv
  BY EmptySeq, LoopAssumption DEF LoopInit, Init, ReleaseInv
<1>2. TypeOK /\ OrderInv /\ GridInv /\ ReleaseInv /\ [LoopNext]_loopVars => ReleaseInv'
  BY ReleaseNext
<1> QED
  BY <1>1, <1>2, LoopUsesPipeline, AlwaysOnGrid, AlwaysOrdered, PTL DEF LoopSpec

(***************************************************************************)
(* Between two steps nothing that is due waits in the queue, and nothing   *)
(* is published a whole physics step late, catch-up samples included.      *)
(***************************************************************************)
THEOREM LoopReleasesInTime == LoopSpec => []ReleasedInTime
<1>1. TypeOK /\ ReleaseInv => ReleasedInTime
  BY ElementTypes DEF ReleaseInv, ReleasedInTime, NoDueLeftBehind, ReleaseDelayBounded
<1> QED BY <1>1, AlwaysInTime, PTL
-----------------------------------------------------------------------------
(***************************************************************************)
(* Size.  Numbers and source times run together: an envelope m attempts    *)
(* back was taken m periods before the next sample.                        *)
(***************************************************************************)
NumberInv ==
  \A i \in 1..Len(queue) :
    /\ queue[i].sequence < nextSequence
    /\ (nextSequence - queue[i].sequence) * Period = Expected - queue[i].source

\* Every acquisition moves both on by one.
LEMMA NumberNext ==
  ASSUME TypeOK, GridInv, NumberInv, [LoopNext]_loopVars
  PROVE  NumberInv'
<1>1. /\ Len(queue) \in Nat /\ nextSequence \in Nat
      /\ Expected \in Nat /\ Period \in Nat
      /\ \A i \in 1..Len(queue) : queue[i].sequence \in Nat /\ queue[i].source \in Nat
  BY ElementTypes, LoopAssumption DEF TypeOK, Expected
<1>2. CASE UNCHANGED <<queue, nextSequence, sampled>>
  BY <1>2 DEF NumberInv, Expected
<1>3. CASE Sample
  <2> DEFINE src == Head(due)
  <2>1. due # <<>> /\ Enqueue(src) /\ src \in (sampled + 1)..now /\ src = Expected
    BY <1>3, HeadIsLegal DEF Sample
  <2>2. /\ src \in Nat /\ sampled' = src /\ nextSequence' = nextSequence + 1
        /\ (Lose /\ UNCHANGED queue) \/ Kept(src)
    BY <2>1, EnqueueEffect
  <2>3. Expected' = Expected + Period
    BY <2>1, <2>2 DEF Expected
  <2>4. ASSUME NEW i \in 1..Len(queue)
        PROVE  /\ queue[i].sequence < nextSequence'
               /\ (nextSequence' - queue[i].sequence) * Period = Expected' - queue[i].source
    <3> DEFINE m == nextSequence - queue[i].sequence
    <3>1. m \in Int /\ m * Period = Expected - queue[i].source /\ queue[i].sequence < nextSequence
      BY <1>1 DEF NumberInv
    <3>2. nextSequence' - queue[i].sequence = m + 1
      <4>1. \A a, b \in Int : (a + 1) - b = (a - b) + 1
        OBVIOUS
      <4>2. nextSequence \in Int /\ queue[i].sequence \in Int /\ nextSequence' = nextSequence + 1
        BY <1>1, <2>2
      <4> QED BY <4>1, <4>2
    <3> HIDE DEF m
    <3>3. (m + 1) * Period = m * Period + Period
      BY <3>1, Neighbours
    <3>4. (nextSequence' - queue[i].sequence) * Period = Expected' - queue[i].source
      <4>1. (m + 1) * Period = (Expected - queue[i].source) + Period
        BY <3>1, <3>3
      <4>2. (Expected - queue[i].source) + Period = Expected' - queue[i].source
        BY <1>1, <2>3
      <4> QED BY <3>2, <4>1, <4>2
    <3>5. queue[i].sequence < nextSequence'
      BY <1>1, <2>2, <3>1
    <3> QED BY <3>4, <3>5
  <2>5. CASE UNCHANGED queue
    BY <2>4, <2>5 DEF NumberInv
  <2>6. CASE Kept(src)
    <3>1. PICK j \in Jitter : \A i \in 1..Len(queue') :
            \/ queue'[i] = NewEnvelope(src, j)
            \/ \E m \in 1..Len(queue) : queue'[i] = queue[m]
      BY <2>2, <2>6, KeptElements
    <3> DEFINE item == NewEnvelope(src, j)
    <3>2. item.sequence = nextSequence /\ item.source = Expected
      BY <2>1 DEF NewEnvelope
    <3>3. /\ item.sequence < nextSequence'
          /\ (nextSequence' - item.sequence) * Period = Expected' - item.source
      <4>1. nextSequence' - item.sequence = 1 /\ Expected' - item.source = Period
        BY <1>1, <2>2, <2>3, <3>2
      <4> QED BY <1>1, <2>2, <3>2, <4>1
    <3> HIDE DEF item
    <3>4. \A i \in 1..Len(queue') :
            queue'[i] = item \/ \E m \in 1..Len(queue) : queue'[i] = queue[m]
      BY <3>1 DEF item
    <3> QED BY <2>4, <3>3, <3>4 DEF NumberInv
  <2> QED BY <2>2, <2>5, <2>6
<1>4. CASE Emit
  <2>1. UNCHANGED <<sampled, nextSequence>> /\ \E n \in 0..Len(queue) : PublishedPrefix(n)
    BY <1>4, PublishEffect DEF Emit
  <2>2. PICK n \in 0..Len(queue) : Drops(queue, queue', n)
    BY <2>1 DEF PublishedPrefix
  <2>3. \A i \in 1..Len(queue') : i + n \in 1..Len(queue) /\ queue'[i] = queue[i + n]
    BY <1>1, <2>2 DEF Drops
  <2>4. Expected' = Expected
    BY <2>1 DEF Expected
  <2> QED BY <2>1, <2>3, <2>4 DEF NumberInv
<1>5. CASE RestartEpisode \/ ContinueClock
  <2>1. queue' = <<>>
    BY <1>5 DEF RestartEpisode, ContinueClock, NewEpisode, EpisodeReplay
  <2> QED BY <2>1, EmptySeq DEF NumberInv
<1>6. CASE PhysicsStep \/ Poll \/ UNCHANGED loopVars
  <2>1. UNCHANGED <<queue, nextSequence, sampled>>
    BY <1>6 DEF PhysicsStep, Advance, Poll, loopVars, vars
  <2> QED BY <1>2, <2>1
<1> QED BY <1>3, <1>4, <1>5, <1>6 DEF LoopNext

\* Distinct numbers of 1..b are no more than b.
LEMMA Pigeonhole ==
  ASSUME NEW m \in Nat, NEW b \in Nat, NEW f \in [1..m -> 1..b],
         \A i, j \in 1..m : i # j => f[i] # f[j]
  PROVE  m <= b
<1>1. /\ IsFiniteSet(1..m) /\ Cardinality(1..m) = m
      /\ IsFiniteSet(1..b) /\ Cardinality(1..b) = b
  BY FS_Interval
<1>2. CASE b < m
  <2>1. \E x, y \in 1..m : x # y /\ f[x] = f[y]
    BY <1>1, <1>2, FS_PigeonHole
  <2> QED BY <2>1
<1> QED BY <1>2

\* The condition of the rule for a queue that loses nothing.
Sized ==
  /\ DropoutModel = "none"
  /\ \A w \in DOMAIN Faults : Faults[w].action # "drop"
  /\ Period > 0
  /\ QueueDepth * Period >= LatencyMax + MaxStep

\* What such a queue holds was taken less than its depth ago: there is room.
LEMMA SizedFits ==
  ASSUME TypeOK, OrderInv, GridInv, ReleaseInv, NumberInv, Sized, due # <<>>
  PROVE  Len(queue) < QueueDepth
<1>1. /\ Len(queue) \in Nat /\ nextSequence \in Nat /\ now \in Nat
      /\ \A i \in 1..Len(queue) : /\ queue[i].sequence \in Nat
                                  /\ queue[i].source \in Nat
                                  /\ queue[i].scheduled \in Nat
  BY ElementTypes DEF TypeOK
<1>2. /\ QueueDepth \in Nat /\ LatencyMax \in Nat /\ MaxStep \in Nat /\ MaxStep > 0
      /\ Period \in Nat /\ QueueDepth * Period \in Nat
      /\ QueueDepth * Period >= LatencyMax + MaxStep
  BY PipelineAssumption, LoopAssumption DEF Sized
<1>3. Expected \in Nat /\ Expected <= now
  BY <1>1, HeadIsLegal, LoopAssumption DEF TypeOK
<1>4. QueueDepth > 0
  <2> SUFFICES ASSUME QueueDepth = 0 PROVE FALSE
    BY <1>2
  <2>1. 0 * Period = 0
    BY <1>2
  <2> QED BY <1>2, <2>1
<1>5. ASSUME NEW i \in 1..Len(queue)
      PROVE  nextSequence - queue[i].sequence \in 1..(QueueDepth - 1)
  <2> DEFINE m == nextSequence - queue[i].sequence
  <2>1. m \in Nat /\ m >= 1 /\ m * Period = Expected - queue[i].source
    BY <1>1 DEF NumberInv
  <2>2. queue[i].scheduled > now - MaxStep /\ queue[i].scheduled <= queue[i].source + LatencyMax
    BY DEF ReleaseInv, OrderInv, InTime, Elems
  <2>3. Expected - queue[i].source < LatencyMax + MaxStep
    <3>1. \A e, t, s, r, l, d \in Int :
            e <= t /\ s > t - d /\ s <= r + l => e - r < l + d
      OBVIOUS
    <3>2. /\ Expected \in Int /\ now \in Int /\ LatencyMax \in Int /\ MaxStep \in Int
          /\ queue[i].scheduled \in Int /\ queue[i].source \in Int
      BY <1>1, <1>2, <1>3
    <3> QED BY <1>3, <2>2, <3>1, <3>2
  <2> HIDE DEF m
  <2>4. ASSUME QueueDepth <= m PROVE FALSE
    <3>1. m * Period >= QueueDepth * Period /\ m * Period \in Int
      BY <1>2, <2>1, <2>4, PeriodsGrow
    <3>2. m * Period < LatencyMax + MaxStep
      BY <2>1, <2>3
    <3>3. LatencyMax + MaxStep \in Int /\ LatencyMax + MaxStep <= QueueDepth * Period
      BY <1>2
    <3>4. \A a, b, c \in Int : a < b /\ b <= c => ~(a >= c)
      OBVIOUS
    <3> QED BY <1>2, <3>1, <3>2, <3>3, <3>4
  <2>5. m \in 1..(QueueDepth - 1)
    BY <1>2, <2>1, <2>4
  <2> QED BY <2>5 DEF m
<1> DEFINE f == [i \in 1..Len(queue) |-> nextSequence - queue[i].sequence]
<1>6. f \in [1..Len(queue) -> 1..(QueueDepth - 1)]
  BY <1>5
<1>7. \A i, j \in 1..Len(queue) : i # j => f[i] # f[j]
  <2>1. \A i, j \in 1..Len(queue) : i # j => queue[i].sequence # queue[j].sequence
    BY <1>1 DEF OrderInv, OrderedSeq, Before
  <2> QED BY <1>1, <2>1
<1>8. QueueDepth - 1 \in Nat
  BY <1>2, <1>4
<1> HIDE DEF f
<1>9. Len(queue) <= QueueDepth - 1
  BY <1>1, <1>6, <1>7, <1>8, Pigeonhole
<1> QED BY <1>1, <1>2, <1>9

\* A queue of that size loses nothing.
LEMMA SizedNext ==
  ASSUME TypeOK, OrderInv, GridInv, ReleaseInv, NumberInv, Sized, droppedCount = 0,
         [LoopNext]_loopVars
  PROVE  droppedCount' = 0
<1>1. CASE Sample
  <2>1. /\ due # <<>> /\ Enqueue(Head(due)) /\ Head(due) \in Nat
    BY <1>1, HeadIsLegal DEF Sample, TypeOK
  <2>2. ActiveFault(Head(due)) # "drop"
    BY <2>1, FoundInWindow DEF Sized
  <2>3. Refuse \/ Kept(Head(due))
    BY <2>1, <2>2, LossCause DEF Sized
  <2>4. Len(queue) < QueueDepth /\ Len(queue) \in Nat /\ QueueDepth \in Nat
    BY <2>1, SizedFits, ElementTypes, PipelineAssumption
  <2>5. ~(Len(queue) >= QueueDepth)
    BY <2>4
  <2> QED BY <2>3, <2>5 DEF Refuse, Kept
<1>2. CASE RestartEpisode \/ ContinueClock
  BY <1>2 DEF RestartEpisode, ContinueClock, NewEpisode, EpisodeReplay
<1>3. CASE PhysicsStep \/ Poll \/ Emit \/ UNCHANGED loopVars
  BY <1>3 DEF PhysicsStep, Advance, Poll, Emit, PublishDue, loopVars, vars
<1> QED BY <1>1, <1>2, <1>3 DEF LoopNext
\* The condition of the rule for a queue that delivers nothing.
Starving ==
  /\ OverflowPolicy = "drop_oldest"
  /\ Jitter = {0} /\ DropoutModel = "none" /\ Faults = <<>>
  /\ Period > 0
  /\ QueueDepth * Period <= SampleLatency(0)

(***************************************************************************)
(* Such a queue holds the latest attempts, in order, each due one latency  *)
(* after it was taken: the head is evicted before that.                    *)
(***************************************************************************)
StarveInv ==
  /\ log = <<>>
  /\ \A i \in 1..Len(queue) :
       /\ nextSequence - queue[i].sequence = Len(queue) + 1 - i
       /\ queue[i].scheduled = queue[i].source + SampleLatency(0)

\* With one latency, and numbers and source times in step, a newcomer goes to the end.
LEMMA StarveKeeps ==
  ASSUME TypeOK, NumberInv, StarveInv, Starving,
         NEW src \in Nat, src = Expected, Kept(src), nextSequence' = nextSequence + 1
  PROVE  \A i \in 1..Len(queue') :
           /\ nextSequence' - queue'[i].sequence = Len(queue') + 1 - i
           /\ queue'[i].scheduled = queue'[i].source + SampleLatency(0)
<1>1. /\ Len(queue) \in Nat /\ nextSequence \in Nat /\ Period \in Nat /\ Period > 0
      /\ \A i \in 1..Len(queue) : /\ queue[i].sequence \in Nat
                                  /\ queue[i].source \in Nat
      /\ SampleLatency(0) \in Nat
  BY ElementTypes, LoopAssumption, LatencyInRange DEF TypeOK, Starving
<1>2. PICK n \in {0, 1}, q \in Seq(Envelope), k \in Nat :
        Drops(queue, q, n) /\ Inserts(q, queue', k, NewEnvelope(src, 0))
  BY DEF Kept, Starving
<1> DEFINE item == NewEnvelope(src, 0)
<1>3. /\ item.sequence = nextSequence /\ item.source = src
      /\ item.scheduled = src + SampleLatency(0)
  BY DEF NewEnvelope
<1>4. /\ Len(q) \in Nat /\ Len(q) = Len(queue) - n
      /\ \A i \in 1..Len(q) : q[i] = queue[i + n] /\ i + n \in 1..Len(queue)
  BY <1>1, <1>2, LenProperties DEF Drops
<1>5. ASSUME NEW i \in 1..Len(q)
      PROVE  /\ nextSequence - q[i].sequence = Len(q) + 1 - i
             /\ q[i].scheduled = q[i].source + SampleLatency(0)
             /\ q[i].source < src /\ q[i].source \in Nat /\ q[i].sequence \in Nat
  <2> DEFINE m == nextSequence - q[i].sequence
  <2>1. i + n \in 1..Len(queue) /\ q[i] = queue[i + n]
    BY <1>4
  <2>2. /\ m = Len(queue) + 1 - (i + n)
        /\ q[i].scheduled = q[i].source + SampleLatency(0)
        /\ m * Period = Expected - q[i].source
        /\ q[i].source \in Nat /\ q[i].sequence \in Nat
    BY <1>1, <2>1 DEF StarveInv, NumberInv
  <2>3. m = Len(q) + 1 - i /\ m \in Nat /\ 1 <= m
    BY <1>4, <2>2
  <2> HIDE DEF m
  <2>4. 1 * Period <= m * Period /\ 1 * Period = Period
    BY <1>1, <2>3, PeriodsGrow
  <2>5. src - q[i].source >= Period
    BY <1>1, <2>2, <2>4
  <2>6. q[i].source < src
    BY <1>1, <2>2, <2>5
  <2> QED BY <2>2, <2>3, <2>6 DEF m
<1> HIDE DEF item
<1>6. /\ k \in 1..(Len(q) + 1) /\ Len(queue') = Len(q) + 1
      /\ \A i \in 1..Len(queue') :
           queue'[i] = IF i < k THEN q[i] ELSE IF i = k THEN item ELSE q[i - 1]
      /\ k <= Len(q) => item.scheduled < q[k].scheduled
  BY <1>2 DEF Inserts, item
<1>7. k = Len(q) + 1
  <2> SUFFICES ASSUME k \in 1..Len(q) PROVE FALSE
    BY <1>4, <1>6
  <2>1. q[k].scheduled = q[k].source + SampleLatency(0) /\ q[k].source < src /\ q[k].source \in Nat
    BY <1>5
  <2>2. item.scheduled < q[k].scheduled
    BY <1>6
  <2> QED BY <1>1, <1>3, <2>1, <2>2
<1>8. ASSUME NEW i \in 1..Len(queue')
      PROVE  /\ nextSequence' - queue'[i].sequence = Len(queue') + 1 - i
             /\ queue'[i].scheduled = queue'[i].source + SampleLatency(0)
  <2>1. CASE i \in 1..Len(q)
    <3>1. queue'[i] = q[i]
      BY <1>6, <1>7, <2>1
    <3>2. /\ nextSequence - q[i].sequence = Len(q) + 1 - i /\ q[i].sequence \in Nat
          /\ q[i].scheduled = q[i].source + SampleLatency(0)
      BY <1>5, <2>1
    <3>3. nextSequence' - q[i].sequence = Len(queue') + 1 - i
      <4>1. Len(queue') = Len(q) + 1
        BY <1>6
      <4>2. \A a, b, c, d \in Int : a - b = c + 1 - d => (a + 1) - b = (c + 1) + 1 - d
        OBVIOUS
      <4>3. /\ nextSequence \in Int /\ q[i].sequence \in Int
            /\ Len(q) \in Int /\ i \in Int
        BY <1>1, <1>4, <2>1, <3>2
      <4> QED BY <3>2, <4>1, <4>2, <4>3
    <3> QED BY <3>1, <3>2, <3>3
  <2>2. CASE i = Len(q) + 1
    <3>1. queue'[i] = item
      BY <1>4, <1>6, <1>7, <2>2
    <3>2. /\ Len(queue') = Len(q) + 1
          /\ nextSequence' - item.sequence = 1
          /\ item.scheduled = item.source + SampleLatency(0)
      BY <1>1, <1>3, <1>4, <1>6
    <3>3. Len(queue') + 1 - i = 1
      BY <1>4, <2>2, <3>2
    <3> QED BY <3>1, <3>2, <3>3
  <2> QED BY <1>4, <1>6, <2>1, <2>2
<1> QED BY <1>8

\* The head of such a queue is not due while the next sample is not.
LEMMA StarvedHead ==
  ASSUME TypeOK, QueueBounded, NumberInv, StarveInv, Starving, now < Expected,
         NEW n \in 0..Len(queue), DuePrefix(n)
  PROVE  n = 0
<1>1. /\ Len(queue) \in Nat /\ nextSequence \in Nat /\ now \in Nat /\ QueueDepth \in Nat
      /\ \A i \in 1..Len(queue) : queue[i].sequence \in Nat /\ queue[i].source \in Nat
      /\ SampleLatency(0) \in Nat /\ Expected \in Nat
      /\ Len(queue) <= QueueDepth
  BY ElementTypes, LoopAssumption, PipelineAssumption, LatencyInRange
  DEF TypeOK, Starving, Expected, QueueBounded
<1> SUFFICES ASSUME n >= 1 PROVE FALSE
  BY <1>1
<1>2. 1 \in 1..Len(queue) /\ 1 \in 1..n
  BY <1>1
<1>3. /\ nextSequence - queue[1].sequence = Len(queue)
      /\ queue[1].scheduled = queue[1].source + SampleLatency(0)
  BY <1>1, <1>2 DEF StarveInv
<1>4. Len(queue) * Period = Expected - queue[1].source
  BY <1>2, <1>3 DEF NumberInv
<1>5. Len(queue) * Period <= QueueDepth * Period
  BY <1>1, PeriodsGrow
<1>6. QueueDepth * Period <= SampleLatency(0)
  BY DEF Starving
<1>7. QueueDepth * Period \in Int
  BY <1>1, LoopAssumption
<1>8. Expected - queue[1].source <= SampleLatency(0)
  BY <1>1, <1>2, <1>4, <1>5, <1>6, <1>7
<1>9. queue[1].scheduled <= now
  BY <1>2 DEF DuePrefix, IsDue
<1> QED BY <1>1, <1>2, <1>3, <1>8, <1>9
\* Nothing comes out of such a queue.
LEMMA StarveNext ==
  ASSUME TypeOK, QueueBounded, GridInv, ReleaseInv, NumberInv, StarveInv, Starving,
         [LoopNext]_loopVars
  PROVE  StarveInv'
<1>1. Len(queue) \in Nat /\ QueueDepth \in Nat
  BY ElementTypes, PipelineAssumption
<1>2. CASE Sample
  <2> DEFINE src == Head(due)
  <2>1. due # <<>> /\ Enqueue(src) /\ src \in (sampled + 1)..now /\ src = Expected
    BY <1>2, HeadIsLegal DEF Sample
  <2>2. src \in Nat /\ nextSequence' = nextSequence + 1 /\ log' = log
    BY <2>1, EnqueueEffect
  <2>3. ActiveFault(src) # "drop"
    <3>1. DOMAIN Faults = {}
      BY DEF Starving
    <3> QED BY <2>2, <3>1, FoundInWindow
  <2>4. Refuse \/ Kept(src)
    BY <2>1, <2>2, <2>3, LossCause DEF Starving
  <2>5. CASE Refuse
    <3>1. QueueDepth = 0 /\ queue' = queue
      BY <2>5 DEF Refuse, Starving
    <3>2. Len(queue') = 0
      BY <1>1, <3>1 DEF QueueBounded
    <3> QED BY <2>2, <3>2 DEF StarveInv
  <2>6. CASE Kept(src)
    <3> HIDE DEF src
    <3> QED BY <2>1, <2>2, <2>6, StarveKeeps DEF StarveInv
  <2> QED BY <2>4, <2>5, <2>6
<1>3. CASE Emit
  <2>1. pc = "sample" /\ due = <<>> /\ PublishDue
    BY <1>3 DEF Emit
  <2>2. /\ nextSequence' = nextSequence /\ \E n \in 0..Len(queue) : PublishedPrefix(n)
    BY <2>1, PublishEffect
  <2>3. PICK n \in 0..Len(queue) : PublishedPrefix(n)
    BY <2>2
  <2>4. now < Expected
    <3>1. Period > 0 /\ pc # "poll" /\ nextSample = Expected
      BY <2>1 DEF Starving, GridInv
    <3> QED BY <3>1 DEF ReleaseInv
  <2>5. n = 0
    BY <2>3, <2>4, StarvedHead DEF PublishedPrefix
  <2>6. /\ Len(queue') = Len(queue)
        /\ \A i \in 1..Len(queue') : queue'[i] = queue[i]
    BY <1>1, <2>3, <2>5 DEF PublishedPrefix, Drops
  <2>7. log' = <<>>
    <3>1. Len(log) = 0
      BY EmptySeq DEF StarveInv
    <3>2. log' \in Seq(Published) /\ Len(log') = 0
      BY <2>3, <2>5, <3>1 DEF PublishedPrefix
    <3> QED BY <3>2, EmptySeq
  <2> QED BY <2>2, <2>6, <2>7 DEF StarveInv
<1>4. CASE RestartEpisode \/ ContinueClock
  <2>1. queue' = <<>> /\ log' = <<>>
    BY <1>4 DEF RestartEpisode, ContinueClock, NewEpisode, EpisodeReplay
  <2> QED BY <2>1, EmptySeq DEF StarveInv
<1>5. CASE PhysicsStep \/ Poll \/ UNCHANGED loopVars
  <2>1. UNCHANGED <<queue, nextSequence, log>>
    BY <1>5 DEF PhysicsStep, Advance, Poll, loopVars, vars
  <2> QED BY <2>1 DEF StarveInv
<1> QED BY <1>2, <1>3, <1>4, <1>5 DEF LoopNext

(***************************************************************************)
(* The sizing rule at both ends, for every period, latency, step and       *)
(* depth: a queue as long as the longest latency plus the longest step     *)
(* loses nothing, and under DropOldest one no longer than a single latency *)
(* delivers nothing.                                                       *)
(***************************************************************************)
THEOREM SizingIsRight == LoopSpec => []SizingRule
<1> DEFINE Known == TypeOK /\ OrderInv /\ GridInv /\ ReleaseInv /\ QueueBounded
           Both == /\ NumberInv
                   /\ Sized => droppedCount = 0
                   /\ Starving => StarveInv
<1>1. LoopInit => Both
  BY EmptySeq DEF LoopInit, Init, NumberInv, StarveInv
<1>2. Known /\ Both /\ [LoopNext]_loopVars => Both'
  <2> SUFFICES ASSUME Known, Both, [LoopNext]_loopVars PROVE Both'
    OBVIOUS
  <2>1. NumberInv'
    BY NumberNext
  <2>2. Sized => droppedCount' = 0
    BY SizedNext
  <2>3. Starving => StarveInv'
    BY StarveNext
  <2>4. Sized' = Sized /\ Starving' = Starving
    BY DEF Sized, Starving, SampleLatency
  <2> QED BY <2>1, <2>2, <2>3, <2>4
<1>3. Both => SizingRule
  BY DEF SizingRule, NoLossWhenSized, StarvedByDropOldest, Sized, Starving, StarveInv
<1>4. LoopSpec => []Known
  BY AlwaysInTime, LoopUsesPipeline, Bounded, PTL
<1> QED BY <1>1, <1>2, <1>3, <1>4, PTL DEF LoopSpec
=============================================================================
