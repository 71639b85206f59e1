------------------------ MODULE DetectAndAvoidProofs ------------------------
(***************************************************************************)
(* Proofs about the parts of daa_common.py, for any number of radars:      *)
(*   - RadarWatch: the two sides of the staleness verdict, how long it     *)
(*     may take and that it is never invented;                             *)
(*   - FlightCommand: what an acknowledged cancel means;                   *)
(*   - RadarPicture: that the picture is complete where the fit looks, and *)
(*     holds only what moves; and how much of a turn the fit looks at.     *)
(* They share no state; each keeps its own specification.                  *)
(***************************************************************************)
EXTENDS RadarWatch, FlightCommand, RadarPicture, SequenceTheorems,
        FiniteSetTheorems, WellFoundedInduction, TLAPS

(***************************************************************************)
(* The watch                                                               *)
(***************************************************************************)
\* The types, and what is read when.
WatchTypes ==
  /\ now \in Nat
  /\ alive \subseteq Units
  /\ scans \in [Units -> Nat] /\ channel \in [Units -> Nat]
  /\ published \in [Units -> Nat] /\ started \in [Units -> Nat]
  /\ pollTime \in Nat \cup {Never}
  /\ unread \subseteq Units
  /\ lastHash \in [Units -> Nat] /\ lastChange \in [Units -> Nat \cup {Never}]
  /\ isStale \in [Units -> BOOLEAN]
  /\ unreadable \subseteq Units /\ gaveUp \in Nat \cup {Never}
  /\ pc \in {"sleep", "read", "store", "note"}
  /\ pc # "read" => unread = {}

\* Nothing has happened later than now, a sensor that runs is not late, and the
\* polls follow one another.
OnTime(u) ==
  /\ published[u] <= now /\ started[u] <= now /\ lastChange[u] <= pollTime
  /\ u \in alive => now <= published[u] + Period \/ now <= started[u] + Period

PollsInTime ==
  /\ pollTime <= now /\ now <= pollTime + PollGap
  /\ gaveUp <= pollTime /\ (pc = "read" => gaveUp < pollTime)

ClockInv == WatchTypes /\ PollsInTime /\ \A u \in Units : OnTime(u)

(***************************************************************************)
(* Silence                                                                 *)
(***************************************************************************)
\* Since when a radar is silent and the watch undisturbed.
Since(u) == Later(published[u], gaveUp)

\* A frame the watch has not seen yet is younger than the poll that is to read
\* it by a poll at most; one it has seen was seen within a poll.
SeenSoon(u) ==
  u \notin unreadable /\ channel[u] # 0 =>
    /\ channel[u] = lastHash[u] => lastChange[u] <= Since(u) + PollGap
    /\ channel[u] # lastHash[u] =>
         pollTime <= Since(u) + IF u \in unread THEN PollGap ELSE 0

\* How long ago, in polls, the latest frame must be for each thing to know it.
SilenceKnown(u) ==
  u \notin unreadable /\ channel[u] # 0 =>
    /\ u \notin unread /\ pollTime >= Since(u) + Timeout + PollGap => isStale[u]
    /\ pc \in {"note", "sleep"} /\ pollTime >= Since(u) + Timeout + PollGap => u \in stale
    /\ pollTime >= Since(u) + Timeout + 2 * PollGap => u \in stale

SilenceInv ==
  /\ ClockInv
  /\ \A u \in Units : SeenSoon(u) /\ SilenceKnown(u)

(***************************************************************************)
(* Recovery                                                                *)
(***************************************************************************)
\* The process that runs has published the frame in the channel.
Published(u) == published[u] > started[u]
OwnFrame(u) == Published(u) => channel[u] = scans[u] /\ scans[u] > 0

\* The next frame of this process is not the one the watch holds.
NextIsNews(u) == Published(u) /\ lastHash[u] <= scans[u]

\* The watch has seen the process publish.
Recognised(u) ==
  /\ NextIsNews(u) /\ ~isStale[u]
  /\ channel[u] = lastHash[u] => published[u] - PollGap <= lastChange[u]

\* By when a process that runs is known to.
ReturnKnown(u) ==
  u \in alive \ unreadable =>
    LET ran == pollTime - Later(started[u], gaveUp) IN
    /\ ran > Period + (IF u \in unread THEN PollGap ELSE 0) => NextIsNews(u)
    /\ NextIsNews(u) /\ channel[u] = lastHash[u] =>
         Recognised(u) \/ published[u] <= Later(started[u], gaveUp) + Period + 2 * PollGap
    /\ ran > 2 * Period + 2 * PollGap + (IF u \in unread THEN PollGap ELSE 0) => Recognised(u)
    /\ ran > 2 * Period + 2 * PollGap /\ pc \in {"note", "sleep"} => u \notin stale
    /\ ran > 2 * Period + 3 * PollGap => u \notin stale

ReturnInv ==
  /\ ClockInv
  /\ \A u \in Units : OwnFrame(u)
  /\ Timeout > Period + PollGap => \A u \in Units : ReturnKnown(u)

(***************************************************************************)
(* Verdicts                                                                *)
(***************************************************************************)
\* Without repeated frames: the watch holds no frame that is still to come, and
\* has seen the one in the channel no more than a poll before it was written.
Fresh(u) ==
  /\ channel[u] = scans[u] /\ lastHash[u] <= channel[u]
  /\ channel[u] # 0 /\ channel[u] = lastHash[u] => published[u] - PollGap <= lastChange[u]
  /\ isStale[u] => channel[u] # 0 /\ pollTime - lastChange[u] >= Timeout

\* A radar that could not be seen at time t, but for a start or a poll that was
\* given up in the last d.
Unseen(u, t, d) ==
  \/ published[u] <= t - Timeout + PollGap \/ started[u] >= t - Period - d
  \/ u \in unreadable
  \/ gaveUp # Never /\ gaveUp >= t - d

\* fresh has been stored and some reader may rely on it.
Relied == asked = "some" \/ stale # {} \/ pc = "store"

VerdictInv ==
  /\ ClockInv
  /\ \A u \in Units : Fresh(u)
  /\ Timeout > Period + PollGap =>
       \A u \in Units :
         /\ isStale[u] /\ u \notin unread => Unseen(u, pollTime, 0)
         /\ fresh = {} /\ Relied =>
              Unseen(u, pollTime, IF pc = "read" THEN PollGap ELSE 0)

VerdictInvIf == ~SameScene => VerdictInv
-----------------------------------------------------------------------------
\* Every action, for a proof by cases.
LEMMA WatchSteps ==
  ASSUME [Next]_vars
  PROVE  \/ \E v \in Units : Publish(v) \/ Die(v) \/ Restart(v)
         \/ \E v \in Units : PollUnit(v) \/ ScanFails(v)
         \/ PollBegin \/ PollFails \/ StoreFresh \/ StoreStale \/ Note
         \/ AskStale \/ AskFresh \/ Tick \/ UNCHANGED vars
BY DEF Next, Horizon

\* A watch that has just been made.
LEMMA WatchTypesInit == Init => WatchTypes
BY WatchAssumption DEF Init, WatchTypes, Never

\* Every action keeps the types.
LEMMA WatchTypesStep ==
  ASSUME WatchTypes, [Next]_vars
  PROVE  WatchTypes'
<1> USE WatchAssumption DEF WatchTypes, Never
<1>1. ASSUME NEW v \in Units, Publish(v)  PROVE WatchTypes'
  BY <1>1 DEF Publish, judgement, failures, shared, history
<1>2. ASSUME NEW v \in Units, Die(v) \/ Restart(v)  PROVE WatchTypes'
  BY <1>2 DEF Die, Restart, judgement, failures, shared, history
<1>3. ASSUME NEW v \in Units, PollUnit(v)  PROVE WatchTypes'
  <2>1. PICK b \in BOOLEAN :
          /\ lastHash' = lastHash \/ lastHash' = [lastHash EXCEPT ![v] = channel[v]]
          /\ lastChange' = lastChange \/ lastChange' = [lastChange EXCEPT ![v] = pollTime]
          /\ isStale' = isStale \/ isStale' = [isStale EXCEPT ![v] = b]
    <3>1. CASE SeesChange(v)
      BY <3>1 DEF SeesChange
    <3>2. CASE SeesSame(v)
      <4>1. (isStale[v] \/ pollTime - lastChange[v] >= Timeout) \in BOOLEAN
        OBVIOUS
      <4> QED
        BY <3>2, <4>1, Zenon DEF SeesSame
    <3>3. CASE SeesNothing(v) \/ ReadFails(v)
      BY <3>3 DEF SeesNothing, ReadFails, judgement
    <3> QED
      BY <1>3, <3>1, <3>2, <3>3 DEF PollUnit
  <2>2. lastHash' \in [Units -> Nat] /\ lastChange' \in [Units -> Nat \cup {Never}]
    BY <2>1
  <2>3. isStale' \in [Units -> BOOLEAN]
    BY <2>1
  <2>4. unreadable' \subseteq Units
    BY <1>3 DEF PollUnit, SeesChange, SeesSame, SeesNothing, ReadFails
  <2> QED
    BY <1>3, <2>2, <2>3, <2>4 DEF PollUnit, sensorVars, shared, history
<1>4. CASE PollBegin \/ PollFails \/ StoreFresh \/ StoreStale \/ Note
  BY <1>4 DEF PollBegin, PollFails, StoreFresh, StoreStale, Note, sensorVars, judgement, failures,
    shared, history
<1>5. CASE AskStale \/ AskFresh \/ Tick
  BY <1>5 DEF AskStale, AskFresh, Tick, sensorVars, judgement, failures, shared, history
<1>6. CASE UNCHANGED vars
  BY <1>6 DEF vars, sensorVars, judgement, failures, shared, history
<1>7. ASSUME NEW v \in Units, ScanFails(v)  PROVE WatchTypes'
  BY <1>7 DEF ScanFails, sensorVars, judgement, shared, history
<1> QED
  BY <1>1, <1>2, <1>3, <1>4, <1>5, <1>6, <1>7, WatchSteps

\* The clock starts with everything.
LEMMA ClockInit == Init => ClockInv
BY WatchTypesInit, WatchAssumption DEF Init, ClockInv, PollsInTime, OnTime, Never

\* Time passes only while no sensor is late and no poll overdue.
LEMMA ClockStep ==
  ASSUME ClockInv, [Next]_vars
  PROVE  ClockInv'
<1>1. WatchTypes'
  BY WatchTypesStep DEF ClockInv
<1> USE WatchAssumption DEF ClockInv, WatchTypes, PollsInTime, Never
<1>2. PollsInTime'
  <2>1. \/ /\ UNCHANGED <<pollTime, now, gaveUp>>
           /\ pc' = "read" => pc = "read"
        \/ PollBegin \/ PollFails \/ Tick
    BY WatchSteps DEF Publish, Die, Restart, PollUnit, ScanFails, StoreFresh, StoreStale, Note,
      AskStale, AskFresh, failures, vars
  <2> QED
    BY <2>1 DEF PollBegin, PollFails, Tick, failures
<1>3. ASSUME NEW u \in Units  PROVE OnTime(u)'
  <2> USE DEF OnTime
  <2>1. ASSUME NEW v \in Units, Publish(v) \/ Die(v) \/ Restart(v)  PROVE OnTime(u)'
    <3>1. lastChange' = lastChange /\ pollTime' = pollTime /\ now' = now
      BY <2>1 DEF Publish, Die, Restart, judgement
    <3> QED
      BY <2>1, <3>1 DEF Publish, Die, Restart
  <2>2. ASSUME NEW v \in Units, PollUnit(v)  PROVE OnTime(u)'
    <3>1. lastChange' = lastChange \/ lastChange' = [lastChange EXCEPT ![v] = pollTime]
      BY <2>2 DEF PollUnit, SeesChange, SeesSame, SeesNothing, ReadFails, judgement
    <3> QED
      BY <2>2, <3>1 DEF PollUnit, sensorVars
  <2>3. CASE PollBegin \/ PollFails \/ StoreFresh \/ StoreStale \/ Note \/ AskStale \/ AskFresh
    BY <2>3 DEF PollBegin, PollFails, StoreFresh, StoreStale, Note, AskStale, AskFresh, sensorVars, judgement
  <2>4. CASE Tick
    BY <2>4 DEF Tick, sensorVars, judgement
  <2>5. CASE UNCHANGED vars
    BY <2>5 DEF vars, sensorVars, judgement
  <2>6. ASSUME NEW v \in Units, ScanFails(v)  PROVE OnTime(u)'
    BY <2>6 DEF ScanFails, sensorVars, judgement
  <2> QED
    BY <2>1, <2>2, <2>3, <2>4, <2>5, <2>6, WatchSteps
<1> QED
  BY <1>1, <1>2, <1>3

\* What a step of another radar leaves alone.
Bystander(u) ==
  /\ UNCHANGED <<now, pollTime, gaveUp, fresh, stale, pc, asked, scans[u], channel[u],
                 published[u], started[u], lastHash[u], lastChange[u], isStale[u]>>
  /\ u \in unreadable' <=> u \in unreadable
  /\ u \in alive' <=> u \in alive
  /\ u \in unread' <=> u \in unread

\* A step as one radar sees it.
LEMMA UnitSteps ==
  ASSUME WatchTypes, [Next]_vars, NEW u \in Units
  PROVE  \/ Publish(u) \/ Die(u) \/ Restart(u) \/ PollUnit(u) \/ ScanFails(u)
         \/ PollBegin \/ PollFails \/ StoreFresh \/ StoreStale \/ Note
         \/ AskStale \/ AskFresh \/ Tick \/ Bystander(u)
<1> USE DEF WatchTypes, Bystander
<1>1. ASSUME NEW v \in Units, v # u, Publish(v) \/ Die(v) \/ Restart(v)  PROVE Bystander(u)
  BY <1>1 DEF Publish, Die, Restart, judgement, failures, shared, history
<1>2. ASSUME NEW v \in Units, v # u, PollUnit(v)  PROVE Bystander(u)
  <2>1. CASE SeesChange(v)
    BY <1>2, <2>1 DEF PollUnit, SeesChange, sensorVars, shared
  <2>2. CASE SeesSame(v)
    BY <1>2, <2>2 DEF PollUnit, SeesSame, sensorVars, shared
  <2>3. CASE SeesNothing(v) \/ ReadFails(v)
    BY <1>2, <2>3 DEF PollUnit, SeesNothing, ReadFails, sensorVars, judgement, shared
  <2> QED
    BY <1>2, <2>1, <2>2, <2>3 DEF PollUnit
<1>3. CASE UNCHANGED vars
  BY <1>3 DEF vars, sensorVars, judgement, failures, shared
<1>4. ASSUME NEW v \in Units, v # u, ScanFails(v)  PROVE Bystander(u)
  BY <1>4 DEF ScanFails, sensorVars, judgement, shared
<1> QED
  BY <1>1, <1>2, <1>3, <1>4, WatchSteps

\* What the watch concludes from one radar.
LEMMA PollOutcome ==
  ASSUME WatchTypes, NEW u \in Units, PollUnit(u)
  PROVE  /\ UNCHANGED <<now, alive, scans, channel, published, started, pollTime, gaveUp, fresh,
                        stale, pc, asked>>
         /\ u \in unread /\ pc = "read" /\ unread' = unread \ {u}
         /\ u \in unreadable => u \in unreadable'
         /\ \/ /\ channel[u] # 0 /\ channel[u] # lastHash[u]
               /\ lastHash'[u] = channel[u] /\ lastChange'[u] = pollTime /\ ~isStale'[u]
            \/ /\ channel[u] # 0 /\ channel[u] = lastHash[u]
               /\ lastHash'[u] = lastHash[u] /\ lastChange'[u] = lastChange[u]
               /\ isStale'[u] <=> isStale[u] \/ pollTime - lastChange[u] >= Timeout
            \/ /\ u \in unreadable' \/ channel[u] = 0
               /\ lastHash'[u] = lastHash[u] /\ lastChange'[u] = lastChange[u]
               /\ isStale'[u] <=> isStale[u]
<1> USE DEF WatchTypes
<1>1. CASE SeesChange(u)
  BY <1>1 DEF PollUnit, SeesChange, sensorVars, shared
<1>2. CASE SeesSame(u)
  <2>1. isStale'[u] <=> isStale[u] \/ pollTime - lastChange[u] >= Timeout
    BY <1>2, Zenon DEF SeesSame
  <2> QED
    BY <1>2, <2>1 DEF PollUnit, SeesSame, sensorVars, shared
<1>3. CASE SeesNothing(u) \/ ReadFails(u)
  BY <1>3 DEF PollUnit, SeesNothing, ReadFails, sensorVars, judgement, shared
<1> QED
  BY <1>1, <1>2, <1>3 DEF PollUnit

-----------------------------------------------------------------------------
\* Nothing has been published yet.
LEMMA SilenceInit == Init => SilenceInv
<1> USE WatchAssumption
<1>1. Init => ClockInv
  BY ClockInit
<1>2. ASSUME Init, NEW u \in Units  PROVE SeenSoon(u) /\ SilenceKnown(u)
  BY <1>2 DEF Init, SeenSoon, SilenceKnown
<1> QED
  BY <1>1, <1>2 DEF SilenceInv

\* A read either finds the new frame or lets the age of the old one be judged.
LEMMA ReadSilence ==
  ASSUME WatchTypes, NEW u \in Units, PollsInTime, OnTime(u), SeenSoon(u), SilenceKnown(u),
         PollUnit(u)
  PROVE  SeenSoon(u)' /\ SilenceKnown(u)'
<1> USE WatchAssumption DEF Never
<1>1. /\ Since(u)' = Since(u) /\ Since(u) \in Int /\ published[u] <= Since(u)
      /\ UNCHANGED <<channel, pollTime, stale, pc>> /\ pc = "read"
      /\ u \in unread /\ u \notin unread'
  BY PollOutcome DEF Since, Later, WatchTypes
<1>2. CASE u \in unreadable' \/ channel[u] = 0
  BY <1>1, <1>2 DEF SeenSoon, SilenceKnown
<1>3. CASE u \notin unreadable' /\ channel[u] # 0
  <2>1. u \notin unreadable
    BY <1>3, PollOutcome
  <2>2. pollTime \in Int /\ lastChange[u] \in Int /\ pollTime <= now
    BY DEF WatchTypes, PollsInTime
  <2>3. CASE channel[u] # lastHash[u]
    <3>1. pollTime <= Since(u) + PollGap
      BY <1>1, <1>3, <2>1, <2>3 DEF SeenSoon
    <3>2. lastHash'[u] = channel[u] /\ lastChange'[u] = pollTime
      BY <1>3, <2>3, PollOutcome
    <3>3. SeenSoon(u)'
      BY <1>1, <3>1, <3>2 DEF SeenSoon
    <3>4. pollTime < Since(u) + Timeout + PollGap
      BY <1>1, <2>2, <3>1
    <3> QED
      BY <1>1, <2>2, <3>3, <3>4 DEF SilenceKnown
  <2>4. CASE channel[u] = lastHash[u]
    <3>1. lastChange[u] <= Since(u) + PollGap
      BY <1>3, <2>1, <2>4 DEF SeenSoon
    <3>2. /\ lastHash'[u] = lastHash[u] /\ lastChange'[u] = lastChange[u]
          /\ pollTime - lastChange[u] >= Timeout => isStale'[u]
      BY <1>3, <2>4, PollOutcome
    <3>3. SeenSoon(u)'
      BY <1>1, <2>4, <3>1, <3>2 DEF SeenSoon
    <3>4. pollTime >= Since(u) + Timeout + PollGap => isStale'[u]
      BY <1>1, <2>2, <3>1, <3>2
    <3>5. pollTime >= Since(u) + Timeout + 2 * PollGap => u \in stale
      BY <1>3, <2>1 DEF SilenceKnown
    <3> QED
      BY <1>1, <3>3, <3>4, <3>5 DEF SilenceKnown
  <2> QED
    BY <2>3, <2>4
<1> QED
  BY <1>2, <1>3

\* A frame grows old in the same polls that carry it to the reader.
LEMMA SilenceStep ==
  ASSUME SilenceInv, [Next]_vars
  PROVE  SilenceInv'
<1>1. ClockInv' /\ ClockInv /\ WatchTypes /\ WatchTypes'
  BY ClockStep DEF SilenceInv, ClockInv
<1> USE WatchAssumption DEF Never
<1>2. ASSUME NEW u \in Units  PROVE SeenSoon(u)' /\ SilenceKnown(u)'
  <2>1. SeenSoon(u) /\ SilenceKnown(u) /\ OnTime(u) /\ PollsInTime
    BY <1>1, <1>2 DEF SilenceInv, ClockInv
  <2> USE <2>1 DEF SeenSoon, SilenceKnown, Since, Later, OnTime, PollsInTime, WatchTypes
  <2>2. CASE Publish(u)
    BY <1>1, <2>2 DEF Publish, judgement, failures, shared
  <2>3. CASE Die(u) \/ Restart(u)
    <3>1. UNCHANGED <<now, channel, published, pollTime, unread, lastHash, lastChange, isStale,
                      unreadable, gaveUp, stale, pc>>
      BY <2>3 DEF Die, Restart, judgement, failures, shared
    <3> QED
      BY <1>1, <3>1
  <2>4. CASE PollUnit(u)
    BY <1>1, <2>1, <2>4, ReadSilence
  <2>5. CASE PollBegin
    BY <1>1, <2>5 DEF PollBegin, sensorVars, judgement, failures, shared
  <2>6. CASE StoreFresh
    BY <1>1, <2>6 DEF StoreFresh, sensorVars, judgement, failures, shared
  <2>7. CASE StoreStale
    BY <1>1, <2>7 DEF StoreStale, sensorVars, judgement, failures, shared
  <2>8. CASE Note \/ AskStale \/ AskFresh \/ Tick
    BY <1>1, <2>8 DEF Note, AskStale, AskFresh, Tick, sensorVars, judgement, failures, shared
  <2>9. CASE Bystander(u)
    BY <1>1, <2>9 DEF Bystander
  <2>10. CASE PollFails
    BY <1>1, <2>10 DEF PollFails, sensorVars, judgement, shared
  <2>11. CASE ScanFails(u)
    BY <1>1, <2>11 DEF ScanFails, sensorVars, judgement, shared
  <2> QED
    BY <1>1, <2>2, <2>3, <2>4, <2>5, <2>6, <2>7, <2>8, <2>9, <2>10, <2>11, UnitSteps
<1> QED
  BY <1>1, <1>2 DEF SilenceInv

(***************************************************************************)
(* StaleWatch, FitWatch: for any number of radars, any timeout, frame      *)
(* interval and poll, a radar that no read has put among the missing ones  *)
(* and that has been silent for the timeout and three polls, none of them  *)
(* ended by an exception, is on the list of stale ones.                    *)
(***************************************************************************)
THEOREM DeathIsReported == Spec => []DeadIsReported
<1>1. SilenceInv => DeadIsReported
  BY WatchAssumption
  DEF SilenceInv, ClockInv, WatchTypes, PollsInTime, SilenceKnown, Since, Later, Silence,
    DeadIsReported, Never
<1> QED
  BY <1>1, SilenceInit, SilenceStep, PTL DEF Spec

(***************************************************************************)
(* FitWatch: fresh_since moves only while no radar that can be read and    *)
(* has produced before has been silent for the timeout and two completed   *)
(* polls.                                                                  *)
(***************************************************************************)
THEOREM RecoveriesAreReal == Spec => RecoveryIsReal
<1> DEFINE Real == freshSince' # freshSince =>
      \A u \in Units \ unreadable : channel[u] # 0 => Silence(u) < Timeout + 2 * PollGap
<1>1. ASSUME SilenceInv, [Next]_vars  PROVE Real
  <2>1. CASE Note
    BY <1>1, <2>1, WatchAssumption
    DEF SilenceInv, ClockInv, WatchTypes, PollsInTime, SilenceKnown, Since, Later, Silence,
      Note, Never
  <2>2. ~Note => freshSince' = freshSince
    BY <1>1, WatchSteps DEF Publish, Die, Restart, PollUnit, ScanFails, PollBegin, PollFails,
      StoreFresh, StoreStale, AskStale, AskFresh, Tick, vars, history
  <2> QED
    BY <2>1, <2>2
<1> QED
  BY <1>1, SilenceInit, SilenceStep, PTL DEF Spec, RecoveryIsReal
-----------------------------------------------------------------------------
\* No process runs that could have been recognised.
LEMMA ReturnInit == Init => ReturnInv
<1>1. Init => ClockInv
  BY ClockInit
<1>2. ASSUME Init, NEW u \in Units  PROVE OwnFrame(u) /\ ReturnKnown(u)
  BY <1>2, WatchAssumption
  DEF Init, OwnFrame, ReturnKnown, Recognised, NextIsNews, Published, Later, Never
<1> QED
  BY <1>1, <1>2 DEF ReturnInv

\* A process that goes on publishing is recognised by its second frame.
LEMMA ReturnStep ==
  ASSUME ReturnInv, [Next]_vars
  PROVE  ReturnInv'
<1>1. ClockInv' /\ ClockInv /\ WatchTypes /\ WatchTypes'
  BY ClockStep DEF ReturnInv, ClockInv
<1> USE WatchAssumption DEF Never
<1>2. ASSUME NEW u \in Units  PROVE OwnFrame(u)'
  <2>1. OwnFrame(u) /\ OnTime(u) /\ PollsInTime
    BY <1>1, <1>2 DEF ReturnInv, ClockInv
  <2> USE <2>1 DEF OwnFrame, Published, OnTime, WatchTypes
  <2>2. CASE Publish(u)
    BY <1>1, <2>2 DEF Publish, judgement, failures, shared
  <2>3. CASE Die(u)
    BY <1>1, <2>3 DEF Die, judgement, failures, shared
  <2>4. CASE Restart(u)
    BY <1>1, <2>4 DEF Restart, judgement, failures, shared
  <2>5. CASE PollUnit(u)
    BY <1>1, <2>5, PollOutcome
  <2>6. CASE PollBegin
    BY <1>1, <2>6 DEF PollBegin, sensorVars, judgement, failures, shared
  <2>7. CASE StoreFresh
    BY <1>1, <2>7 DEF StoreFresh, sensorVars, judgement, failures, shared
  <2>8. CASE StoreStale
    BY <1>1, <2>8 DEF StoreStale, sensorVars, judgement, failures, shared
  <2>9. CASE Note \/ AskStale \/ AskFresh \/ Tick
    BY <1>1, <2>9 DEF Note, AskStale, AskFresh, Tick, sensorVars, judgement, failures, shared
  <2>10. CASE Bystander(u)
    BY <1>1, <2>10 DEF Bystander
  <2>11. CASE PollFails
    BY <1>1, <2>11 DEF PollFails, sensorVars, judgement, shared
  <2>12. CASE ScanFails(u)
    BY <1>1, <2>12 DEF ScanFails, sensorVars, judgement, shared
  <2> QED
    BY <1>1, <2>2, <2>3, <2>4, <2>5, <2>6, <2>7, <2>8, <2>9, <2>10, <2>11, <2>12, UnitSteps
<1>3. ASSUME Timeout > Period + PollGap, NEW u \in Units  PROVE ReturnKnown(u)'
  <2>1. OwnFrame(u) /\ ReturnKnown(u) /\ OnTime(u) /\ PollsInTime
    BY <1>1, <1>3 DEF ReturnInv, ClockInv
  <2> USE <1>3, <2>1 DEF OwnFrame, ReturnKnown, Recognised, NextIsNews, Published, Later,
        OnTime, PollsInTime, WatchTypes
  <2>2. CASE Publish(u)
    BY <1>1, <2>2 DEF Publish, judgement, failures, shared
  <2>3. CASE Die(u)
    BY <1>1, <2>3 DEF Die, judgement, failures, shared
  <2>4. CASE Restart(u)
    BY <1>1, <2>4 DEF Restart, judgement, failures, shared
  <2>5. CASE PollUnit(u)
    BY <1>1, <2>5, PollOutcome
  <2>6. CASE PollBegin
    BY <1>1, <2>6 DEF PollBegin, sensorVars, judgement, failures, shared
  <2>7. CASE StoreFresh
    BY <1>1, <2>7 DEF StoreFresh, sensorVars, judgement, failures, shared
  <2>8. CASE StoreStale
    BY <1>1, <2>8 DEF StoreStale, sensorVars, judgement, failures, shared
  <2>9. CASE Note \/ AskStale \/ AskFresh \/ Tick
    BY <1>1, <2>9 DEF Note, AskStale, AskFresh, Tick, sensorVars, judgement, failures, shared
  <2>10. CASE Bystander(u)
    BY <1>1, <2>10 DEF Bystander
  <2>11. CASE PollFails
    BY <1>1, <2>11 DEF PollFails, sensorVars, judgement, shared
  <2>12. CASE ScanFails(u)
    BY <1>1, <2>12 DEF ScanFails, sensorVars, judgement, shared
  <2> QED
    BY <1>1, <2>2, <2>3, <2>4, <2>5, <2>6, <2>7, <2>8, <2>9, <2>10, <2>11, <2>12, UnitSteps
<1> QED
  BY <1>1, <1>2, <1>3 DEF ReturnInv

(***************************************************************************)
(* StaleWatch: for any number of radars, and even if a restarted sensor    *)
(* repeats its frames, one that can be read and has run for two frames and *)
(* four completed polls is not listed.                                     *)
(***************************************************************************)
THEOREM ReturnIsNoticed == Spec => []LiveIsFresh
<1>1. ReturnInv => LiveIsFresh
  BY WatchAssumption
  DEF ReturnInv, ClockInv, WatchTypes, PollsInTime, ReturnKnown, Later, LiveIsFresh, Never
<1> QED
  BY <1>1, ReturnInit, ReturnStep, PTL DEF Spec
-----------------------------------------------------------------------------
\* Nothing is stale and nobody has asked.
LEMMA VerdictInit == Init => VerdictInvIf
<1>1. Init => ClockInv
  BY ClockInit
<1>2. ASSUME Init, NEW u \in Units  PROVE Fresh(u) /\ ~isStale[u] /\ ~Relied
  BY <1>2 DEF Init, Fresh, Relied
<1> QED
  BY <1>1, <1>2 DEF VerdictInv, VerdictInvIf

\* A verdict holds from the poll that makes it to the reader that relies on it.
LEMMA VerdictStep ==
  ASSUME VerdictInvIf, [Next]_vars
  PROVE  VerdictInvIf'
<1> SUFFICES ASSUME ~SameScene  PROVE VerdictInv'
  BY DEF VerdictInvIf
<1>1. VerdictInv /\ ClockInv' /\ ClockInv /\ WatchTypes /\ WatchTypes'
  BY ClockStep DEF VerdictInv, VerdictInvIf, ClockInv
<1> USE WatchAssumption DEF Never
<1>2. ASSUME NEW u \in Units  PROVE Fresh(u)'
  <2>1. Fresh(u) /\ OnTime(u) /\ PollsInTime
    BY <1>1, <1>2 DEF VerdictInv, ClockInv
  <2> USE <2>1 DEF Fresh, OnTime, PollsInTime, WatchTypes
  <2>2. CASE Publish(u)
    BY <1>1, <2>2 DEF Publish, judgement, failures, shared
  <2>3. CASE Die(u)
    BY <1>1, <2>3 DEF Die, judgement, failures, shared
  <2>4. CASE Restart(u)
    BY <1>1, <2>4 DEF Restart, judgement, failures, shared
  <2>5. CASE PollUnit(u)
    BY <1>1, <2>5, PollOutcome
  <2>6. CASE PollBegin
    BY <1>1, <2>6 DEF PollBegin, sensorVars, judgement, failures, shared
  <2>7. CASE StoreFresh
    BY <1>1, <2>7 DEF StoreFresh, sensorVars, judgement, failures, shared
  <2>8. CASE StoreStale
    BY <1>1, <2>8 DEF StoreStale, sensorVars, judgement, failures, shared
  <2>9. CASE Note \/ AskStale \/ AskFresh \/ Tick
    BY <1>1, <2>9 DEF Note, AskStale, AskFresh, Tick, sensorVars, judgement, failures, shared
  <2>10. CASE Bystander(u)
    BY <1>1, <2>10 DEF Bystander
  <2>11. CASE PollFails
    BY <1>1, <2>11 DEF PollFails, sensorVars, judgement, shared
  <2>12. CASE ScanFails(u)
    BY <1>1, <2>12 DEF ScanFails, sensorVars, judgement, shared
  <2> QED
    BY <1>1, <2>2, <2>3, <2>4, <2>5, <2>6, <2>7, <2>8, <2>9, <2>10, <2>11, <2>12, UnitSteps
<1>3. ASSUME Timeout > Period + PollGap, NEW u \in Units
      PROVE  isStale'[u] /\ u \notin unread' => Unseen(u, pollTime, 0)'
  <2>1. Fresh(u) /\ OnTime(u) /\ PollsInTime /\ (isStale[u] /\ u \notin unread => Unseen(u, pollTime, 0))
    BY <1>1, <1>3 DEF VerdictInv, ClockInv
  <2> USE <1>3, <2>1 DEF Fresh, Unseen, OnTime, PollsInTime, WatchTypes
  <2>2. CASE Publish(u)
    BY <1>1, <2>2 DEF Publish, judgement, failures, shared
  <2>3. CASE Die(u)
    BY <1>1, <2>3 DEF Die, judgement, failures, shared
  <2>4. CASE Restart(u)
    BY <1>1, <2>4 DEF Restart, judgement, failures, shared
  <2>5. CASE PollUnit(u)
    <3>1. CASE u \in unreadable'
      BY <3>1
    <3>2. CASE u \notin unreadable'
      <4>1. CASE channel[u] = 0 \/ channel[u] # lastHash[u]
        BY <1>1, <2>5, <3>2, <4>1, PollOutcome
      <4>2. CASE channel[u] # 0 /\ channel[u] = lastHash[u]
        <5>1. isStale'[u] => pollTime - lastChange[u] >= Timeout
          BY <1>1, <2>5, <3>2, <4>2, PollOutcome
        <5>2. isStale'[u] => published[u] <= pollTime - Timeout + PollGap
          BY <1>1, <4>2, <5>1
        <5> QED
          BY <1>1, <2>5, <5>2, PollOutcome
      <4> QED
        BY <4>1, <4>2
    <3> QED
      BY <3>1, <3>2
  <2>6. CASE PollBegin
    BY <1>1, <2>6 DEF PollBegin, sensorVars, judgement, failures, shared
  <2>7. CASE StoreFresh
    BY <1>1, <2>7 DEF StoreFresh, sensorVars, judgement, failures, shared
  <2>8. CASE StoreStale
    BY <1>1, <2>8 DEF StoreStale, sensorVars, judgement, failures, shared
  <2>9. CASE Note \/ AskStale \/ AskFresh \/ Tick
    BY <1>1, <2>9 DEF Note, AskStale, AskFresh, Tick, sensorVars, judgement, failures, shared
  <2>10. CASE Bystander(u)
    BY <1>1, <2>10 DEF Bystander
  <2>11. CASE PollFails
    BY <1>1, <2>11 DEF PollFails, sensorVars, judgement, shared
  <2>12. CASE ScanFails(u)
    BY <1>1, <2>12 DEF ScanFails, sensorVars, judgement, shared
  <2> QED
    BY <1>1, <2>2, <2>3, <2>4, <2>5, <2>6, <2>7, <2>8, <2>9, <2>10, <2>11, <2>12, UnitSteps
<1>4. ASSUME Timeout > Period + PollGap, NEW u \in Units
      PROVE  (fresh = {} /\ Relied => Unseen(u, pollTime, IF pc = "read" THEN PollGap ELSE 0))'
  <2>1. /\ OnTime(u) /\ PollsInTime
        /\ isStale[u] /\ u \notin unread => Unseen(u, pollTime, 0)
        /\ fresh = {} /\ Relied => Unseen(u, pollTime, IF pc = "read" THEN PollGap ELSE 0)
    BY <1>1, <1>4 DEF VerdictInv, ClockInv
  <2> USE <1>4, <2>1 DEF Unseen, Relied, OnTime, PollsInTime, WatchTypes
  <2>2. CASE Publish(u)
    BY <1>1, <2>2 DEF Publish, judgement, failures, shared
  <2>3. CASE Die(u)
    BY <1>1, <2>3 DEF Die, judgement, failures, shared
  <2>4. CASE Restart(u)
    BY <1>1, <2>4 DEF Restart, judgement, failures, shared
  <2>5. CASE PollUnit(u)
    <3>1. /\ UNCHANGED <<now, published, started, pollTime, gaveUp, fresh, stale, pc, asked>>
          /\ u \in unreadable => u \in unreadable'
      BY <1>1, <2>5, PollOutcome
    <3> QED
      BY <3>1
  <2>6. CASE PollBegin
    BY <1>1, <2>6 DEF PollBegin, sensorVars, judgement, failures, shared
  <2>7. CASE StoreFresh
    BY <1>1, <2>7 DEF StoreFresh, sensorVars, judgement, failures, shared
  <2>8. CASE StoreStale
    BY <1>1, <2>8 DEF StoreStale, sensorVars, judgement, failures, shared
  <2>9. CASE Note \/ AskStale \/ AskFresh \/ Tick
    BY <1>1, <2>9 DEF Note, AskStale, AskFresh, Tick, sensorVars, judgement, failures, shared
  <2>10. CASE Bystander(u)
    BY <1>1, <2>10 DEF Bystander
  <2>11. CASE PollFails
    BY <1>1, <2>11 DEF PollFails, sensorVars, judgement, shared
  <2>12. CASE ScanFails(u)
    BY <1>1, <2>12 DEF ScanFails, sensorVars, judgement, shared
  <2> QED
    BY <1>1, <2>2, <2>3, <2>4, <2>5, <2>6, <2>7, <2>8, <2>9, <2>10, <2>11, <2>12, UnitSteps
<1> QED
  BY <1>1, <1>2, <1>3, <1>4 DEF VerdictInv

(***************************************************************************)
(* StaleWatch, FitWatch.degraded and .blind: for any number of radars no   *)
(* verdict is invented, however the stores of the thread and the reads of  *)
(* the command loop interleave; the radars that cannot be read have none,  *)
(* and an answer of the command loop may be that of the poll before one    *)
(* that an exception ended.                                                *)
(***************************************************************************)
THEOREM VerdictsAreReal == Spec => VerdictIsReal
<1>1. ASSUME VerdictInvIf, [Next]_vars, ~SameScene  PROVE StaleAfterSilence
  <2>1. SUFFICES ASSUME NEW u \in Units, ~isStale[u], isStale'[u]
                 PROVE  now - published[u] >= Timeout - PollGap
    BY DEF StaleAfterSilence
  <2>2. Fresh(u) /\ OnTime(u) /\ PollsInTime /\ WatchTypes
    BY <1>1 DEF VerdictInvIf, VerdictInv, ClockInv
  <2>3. PollUnit(u)
    BY <1>1, <2>1, <2>2, UnitSteps DEF Publish, Die, Restart, ScanFails, PollBegin, PollFails,
      StoreFresh, StoreStale, Note, AskStale, AskFresh, Tick, Bystander, judgement
  <2> QED
    BY <2>1, <2>2, <2>3, PollOutcome, WatchAssumption
    DEF Fresh, OnTime, PollsInTime, WatchTypes, Never
<1>2. ASSUME VerdictInvIf, ~SameScene  PROVE BlindAfterSilence
  BY <1>2, WatchAssumption DEF VerdictInvIf, VerdictInv, ClockInv, WatchTypes, PollsInTime,
    BlindAfterSilence, Blind, Relied, Unseen, Never
<1>3. ASSUME VerdictInvIf, [Next]_vars
      PROVE  ~SameScene => StaleAfterSilence /\ BlindAfterSilence
  BY <1>1, <1>2, <1>3
<1> QED
  BY <1>3, VerdictInit, VerdictStep, PTL DEF Spec, VerdictIsReal
-----------------------------------------------------------------------------
(***************************************************************************)
(* Once the request is withdrawn the service can only stop: a result seen  *)
(* from then on is of a service that hovers, and it stays there while no   *)
(* request is in the record.                                               *)
(***************************************************************************)
CancelInv ==
  /\ record \in [request : {0, 1}, result : {0, 1}]
  /\ client = "cancelling" => record.request = 0
  /\ client = "cancelling" /\ record.result = 1 => service = "HOVERING"
  /\ client = "command" /\ acked => record.request = 0 /\ service = "HOVERING"

\* Nothing has been asked of a service that has just started.
LEMMA CancelInit == FlightInit => CancelInv
BY DEF FlightInit, CancelInv, Written

\* Every step of the service and of the client keeps it.
LEMMA CancelStep ==
  ASSUME CancelInv, [FlightNext]_flightVars
  PROVE  CancelInv'
<1> USE DEF CancelInv
<1>1. CASE ServiceAccept
  BY <1>1 DEF ServiceAccept, clientVars
<1>2. CASE ServiceComplete
  BY <1>2 DEF ServiceComplete, Written, clientVars
<1>3. CASE ServiceCancel
  BY <1>3 DEF ServiceCancel, clientVars
<1>4. CASE Fly
  BY <1>4 DEF Fly, clientVars
<1>5. CASE Begin
  BY <1>5 DEF Begin
<1>6. CASE Command
  BY <1>6 DEF Command, Written
<1>7. CASE MoveClaimed
  BY <1>7 DEF MoveClaimed, Consumed
<1>8. CASE MoveTimesOut \/ Measure \/ Report
  BY <1>8 DEF MoveTimesOut, Measure, Report
<1>9. CASE CancelWrite
  BY <1>9 DEF CancelWrite, Written
<1>10. CASE CancelAcked
  BY <1>10 DEF CancelAcked, Consumed
<1>11. CASE CancelFails
  BY <1>11 DEF CancelFails
<1>12. CASE UNCHANGED flightVars
  BY <1>12 DEF flightVars
<1> QED
  BY <1>1, <1>2, <1>3, <1>4, <1>5, <1>6, <1>7, <1>8, <1>9, <1>10, <1>11, <1>12
  DEF FlightNext, Client

\* cancel_move: when it returns True the leg is over, and the service takes the
\* next command; whatever results of earlier legs arrive late.
THEOREM RetryIsAccepted == FlightSpec => []CancelledRetryAccepted
<1>1. CancelInv => CancelledRetryAccepted
  BY DEF CancelInv, CancelledRetryAccepted
<1> QED
  BY <1>1, CancelInit, CancelStep, PTL DEF FlightSpec
-----------------------------------------------------------------------------
(***************************************************************************)
(* The picture                                                             *)
(***************************************************************************)
\* What is left of a whole number of turns.
LEMMA TurnParts ==
  ASSUME PictureAssumption, NEW n \in Int
  PROVE  Turn(n) \in 0..(Circle - 1) /\ \E k \in Int : n = Turn(n) + k * Circle
<1> DEFINE k == n \div Circle
<1>1. Circle \in Nat \ {0}
  BY DEF PictureAssumption
<1>2. n = (k * Circle) + (n % Circle) /\ (n % Circle) \in 0..(Circle - 1) /\ k \in Int
  BY <1>1
<1>3. n = Turn(n) + k * Circle /\ Turn(n) \in 0..(Circle - 1)
  <2> HIDE DEF k
  <2> QED  BY <1>1, <1>2 DEF Turn
<1> QED
  BY <1>2, <1>3

\* A multiple of Circle between -Circle and Circle is zero.
LEMMA NoTurns ==
  ASSUME NEW c \in Nat \ {0}, NEW q \in Int, -c < q * c, q * c < c
  PROVE  q = 0
<1>1. CASE q >= 1
  <2>1. (q - 1) * c >= 0
    BY <1>1
  <2>2. q * c = (q - 1) * c + c
    OBVIOUS
  <2> QED  BY <2>1, <2>2
<1>2. CASE q <= -1
  <2>1. (-1 - q) * c >= 0
    BY <1>2
  <2>2. q * c = -((-1 - q) * c) - c
    OBVIOUS
  <2> QED  BY <2>1, <2>2
<1> QED
  BY <1>1, <1>2

\* Angles that differ by whole turns are the same on the circle.
LEMMA TurnIs ==
  ASSUME PictureAssumption, NEW a \in 0..(Circle - 1), NEW k \in Int
  PROVE  Turn(a + k * Circle) = a
<1> DEFINE n == a + k * Circle
<1>1. Circle \in Nat \ {0} /\ n \in Int
  BY DEF PictureAssumption
<1>2. PICK j \in Int : n = Turn(n) + j * Circle
  BY <1>1, TurnParts
<1>3. Turn(n) \in 0..(Circle - 1)
  BY <1>1, TurnParts
<1>4. (k - j) * Circle = Turn(n) - a
  BY <1>1, <1>2, <1>3
<1>5. k - j = 0
  BY <1>1, <1>3, <1>4, NoTurns
<1> QED
  BY <1>1, <1>3, <1>4, <1>5

\* Whole turns can be taken off.
LEMMA TurnShift ==
  ASSUME PictureAssumption, NEW n \in Int, NEW k \in Int
  PROVE  Turn(n + k * Circle) = Turn(n)
<1>1. Turn(n) \in 0..(Circle - 1) /\ Circle \in Nat \ {0}
  BY TurnParts DEF PictureAssumption
<1>2. PICK j \in Int : n = Turn(n) + j * Circle
  BY TurnParts
<1>3. n + k * Circle = Turn(n) + (j + k) * Circle
  BY <1>1, <1>2
<1>4. Turn(Turn(n) + (j + k) * Circle) = Turn(n)
  <2>1. j + k \in Int
    OBVIOUS
  <2> QED  BY <1>1, <2>1, TurnIs, Zenon
<1> QED
  BY <1>3, <1>4

\* A bearing as atan2 gives it is the same bearing.
LEMMA SignedIs ==
  ASSUME PictureAssumption, NEW n \in Int
  PROVE  Signed(n) \in Int /\ \E k \in Int : Signed(n) = n + k * Circle
<1>1. Turn(n) \in 0..(Circle - 1) /\ Circle \in Nat \ {0}
  BY TurnParts DEF PictureAssumption
<1>2. PICK j \in Int : n = Turn(n) + j * Circle
  BY TurnParts
<1>3. Signed(n) = Turn(n) - Circle \/ Signed(n) = Turn(n)
  BY DEF Signed
<1>4. Turn(n) = n + (-j) * Circle /\ Turn(n) - Circle = n + (-j - 1) * Circle
  BY <1>1, <1>2
<1>5. -j \in Int /\ -j - 1 \in Int
  OBVIOUS
<1>6. \E k \in Int : Signed(n) = n + k * Circle
  BY <1>3, <1>4, <1>5
<1> QED
  BY <1>1, <1>3, <1>6

\* Turned out of the radar's frame, a bearing is as far from the axis as before.
LEMMA Unturned ==
  ASSUME PictureAssumption, NEW n \in Int, NEW y \in Int, -Circle <= 2 * n, 2 * n <= Circle
  PROVE  /\ Abs(Folded(Signed(n - y) + y)) = Abs(n)
         /\ Abs(Signed(n - 0)) = Abs(n)
<1> DEFINE h == Circle \div 2
<1>1. Circle \in Nat \ {0} /\ h \in Nat /\ 2 * h <= Circle /\ Circle <= 2 * h + 1
  BY DEF PictureAssumption
<1> HIDE DEF h
<1>2. -h <= n /\ n <= h
  BY <1>1
<1>3. PICK k \in Int : Signed(n - y) = (n - y) + k * Circle
  BY SignedIs
<1>4. Folded(Signed(n - y) + y) = Turn(n + h) - h
  <2>1. (Signed(n - y) + y) + h = (n + h) + k * Circle
    BY <1>1, <1>3
  <2>2. Turn((n + h) + k * Circle) = Turn(n + h)
    BY <1>1, TurnShift
  <2>3. Folded(Signed(n - y) + y) = Turn((Signed(n - y) + y) + h) - h
    BY DEF Folded, h
  <2> QED  BY <2>1, <2>2, <2>3
<1>5. Turn(n + h) = IF n + h < Circle THEN n + h ELSE 0
  <2>1. CASE n + h < Circle
    <3>1. n + h \in 0..(Circle - 1) /\ n + h = (n + h) + 0 * Circle
      BY <1>1, <1>2, <2>1
    <3>2. Turn((n + h) + 0 * Circle) = n + h
      BY <3>1, TurnIs
    <3> QED  BY <2>1, <3>1, <3>2
  <2>2. CASE ~(n + h < Circle)
    <3>1. n + h = 0 + 1 * Circle /\ 0 \in 0..(Circle - 1)
      BY <1>1, <1>2, <2>2
    <3>2. Turn(0 + 1 * Circle) = 0
      BY <3>1, TurnIs
    <3> QED  BY <2>2, <3>1, <3>2
  <2> QED  BY <2>1, <2>2
<1>6. Abs(Folded(Signed(n - y) + y)) = Abs(n)
  BY <1>1, <1>2, <1>4, <1>5 DEF Abs
<1>7. Turn(n - 0) = IF n < 0 THEN n + Circle ELSE IF n < Circle THEN n ELSE 0
  <2>1. CASE n < 0
    <3>1. n - 0 = (n + Circle) + (-1) * Circle /\ n + Circle \in 0..(Circle - 1)
      BY <1>1, <1>2, <2>1
    <3>2. Turn((n + Circle) + (-1) * Circle) = n + Circle
      BY <3>1, TurnIs
    <3> QED  BY <2>1, <3>1, <3>2
  <2>2. CASE ~(n < 0)
    <3>1. n - 0 = n + 0 * Circle /\ n \in 0..(Circle - 1)
      BY <1>1, <1>2, <2>2
    <3>2. Turn(n + 0 * Circle) = n
      BY <3>1, TurnIs
    <3> QED  BY <1>1, <1>2, <2>2, <3>1, <3>2
  <2> QED  BY <2>1, <2>2
<1>8. Abs(Signed(n - 0)) = Abs(n)
  BY <1>1, <1>2, <1>7 DEF Signed, Abs, h
<1> QED
  BY <1>6, <1>8

\* What scan_best returned is of the radars that answered and of the sky then.
PictureInv ==
  /\ units \in Fits /\ window \in Windows
  /\ motion \in [true : Velocities, filter : {"none", "absolute", "own"}, given : Velocities]
  /\ sky \subseteq Targets /\ answered \subseteq DOMAIN units
  /\ best = Best(answered, sky)

\* Before the first scan nothing has answered.
LEMMA PictureInitInv == PictureInit => PictureInv
BY DEF PictureInit, PictureInv, Best

\* Every scan answers for itself.
LEMMA PictureStep ==
  ASSUME PictureInv, [PictureNext]_pictureVars
  PROVE  PictureInv'
<1>1. ASSUME units' = units, window' = window, motion' = motion
      PROVE  Best(answered, sky)' = Best(answered', sky')
  BY <1>1, SMTT(60) DEF Best, Hits, Return, Static, Inside
<1>2. CASE ScanBest
  <2>1. units' = units /\ window' = window /\ motion' = motion /\ best' = Best(answered', sky')
    BY <1>2 DEF ScanBest
  <2>2. sky' \subseteq Targets /\ answered' \subseteq DOMAIN units'
    BY <1>2 DEF ScanBest
  <2> QED  BY <1>1, <2>1, <2>2 DEF PictureInv
<1>3. CASE UNCHANGED pictureVars
  BY <1>1, <1>3 DEF pictureVars, PictureInv
<1> QED
  BY <1>2, <1>3 DEF PictureNext

\* The windows of a fit.
LEMMA FitData ==
  ASSUME PictureAssumption, NEW f \in Fits, NEW i \in DOMAIN f
  PROVE  /\ f[i].yaw \in Int /\ f[i].az_lo \in Int /\ f[i].az_hi \in Int /\ f[i].az_lo <= f[i].az_hi
         /\ f[i].el_lo \in Int /\ f[i].el_hi \in Int /\ f[i].range \in Int
         /\ -Circle <= f[i].el_lo /\ f[i].el_lo <= f[i].el_hi /\ f[i].el_hi <= Circle
<1> DEFINE R == [yaw : Int, az_lo : Int, az_hi : Int, el_lo : Int, el_hi : Int, range : Int]
<1>1. f \in Seq(R)
  BY DEF PictureAssumption
<1>2. f[i] \in R
  <2> HIDE DEF R
  <2> QED  BY <1>1
<1>3. /\ f[i].az_lo <= f[i].az_hi
      /\ -Circle <= f[i].el_lo /\ f[i].el_lo <= f[i].el_hi /\ f[i].el_hi <= Circle
  BY DEF PictureAssumption
<1> QED
  BY <1>1, <1>2, <1>3

\* A fit has a radar.
LEMMA FitHasOne ==
  ASSUME PictureAssumption, NEW f \in Fits
  PROVE  DOMAIN f # {}
<1> DEFINE R == [yaw : Int, az_lo : Int, az_hi : Int, el_lo : Int, el_hi : Int, range : Int]
<1>1. f # << >> /\ f \in Seq(R)
  BY DEF PictureAssumption
<1> HIDE DEF R
<1>2. DOMAIN f = 1..Len(f) /\ Len(f) \in Nat
  BY <1>1, LenProperties
<1>3. Len(f) >= 1
  BY <1>1, EmptySeq
<1> QED
  BY <1>2, <1>3

\* The types of a scan.
LEMMA PictureData ==
  ASSUME PictureAssumption, PictureInv
  PROVE  /\ \A i \in answered : /\ units[i].yaw \in Int /\ units[i].el_lo \in Int
                                /\ i \in DOMAIN units
         /\ \A t \in sky : /\ t.az \in Int /\ t.el \in Int /\ t.rng \in Int /\ t.radial \in Int
                           /\ -Circle <= 2 * t.az /\ 2 * t.az <= Circle
         /\ \A i \in 1..3 : window[i] \in Int \/ window[i] = Open
         /\ Open \notin Int /\ Tolerance \in Nat
<1>1. \A i \in answered : units[i].yaw \in Int /\ units[i].el_lo \in Int /\ i \in DOMAIN units
  BY FitData DEF PictureInv
<1>2. \A t \in sky : /\ t.az \in Int /\ t.el \in Int /\ t.rng \in Int /\ t.radial \in Int
                     /\ -Circle <= 2 * t.az /\ 2 * t.az <= Circle
  BY DEF PictureAssumption, PictureInv
<1>3. \A i \in 1..3 : window[i] \in Int \/ window[i] = Open
  BY DEF PictureAssumption, PictureInv
<1>4. Open \notin Int /\ Tolerance \in Nat
  BY DEF PictureAssumption
<1> QED
  BY <1>1, <1>2, <1>3, <1>4

\* The target of a return passes the filter of moving targets.
Moves(u, t) == ~Static(Return(u, t))

\* The targets one radar reports.
Reported(u) ==
  {t \in sky : UnitSees(u, t) /\ t.rng > 0 /\ Moves(u, t) /\ Inside(u, Return(u, t))}

\* The range of the answer is that of the nearest target some radar reports.
LEMMA BestRange ==
  ASSUME PictureInv
  PROVE  LET all == UNION {Reported(units[i]) : i \in answered}
         IN best.rng = IF all = {} THEN Open ELSE Nearest({t.rng : t \in all})
<1> DEFINE all == UNION {Reported(units[i]) : i \in answered}
           hits(i) == Hits(units[i], sky)
           seen == {i \in answered : hits(i) # {}}
           ranges(i) == {r.rng : r \in hits(i)}
<1>1. best.rng = IF seen = {} THEN Open ELSE Nearest(UNION {ranges(i) : i \in seen})
  BY DEF PictureInv, Best
<1>2. ASSUME NEW i \in answered
      PROVE  hits(i) = {Return(units[i], t) : t \in Reported(units[i])}
  <2> DEFINE u == units[i]
  <2>1. \A t : Return(u, t).rng = t.rng
    BY DEF Return
  <2>2. hits(i) = {r \in {Return(u, t) : t \in {s \in sky : UnitSees(u, s)}} :
                     r.rng > 0 /\ ~Static(r) /\ Inside(u, r)}
    BY DEF Hits
  <2> HIDE DEF hits, u
  <2>3. hits(i) = {Return(u, t) : t \in Reported(u)}
    BY <2>1, <2>2 DEF Reported, Moves
  <2> QED  BY <2>3 DEF u
<1>3. ASSUME NEW i \in answered
      PROVE  /\ hits(i) = {} <=> Reported(units[i]) = {}
             /\ ranges(i) = {t.rng : t \in Reported(units[i])}
  <2> HIDE DEF hits
  <2>1. \A t : Return(units[i], t).rng = t.rng
    BY DEF Return
  <2>2. hits(i) = {Return(units[i], t) : t \in Reported(units[i])}
    BY <1>2
  <2> QED  BY <2>1, <2>2
<1> HIDE DEF hits, ranges
<1>4. seen = {} <=> all = {}
  BY <1>3
<1>5. UNION {ranges(i) : i \in seen} = {t.rng : t \in all}
  <2>1. ASSUME NEW x PROVE x \in UNION {ranges(i) : i \in seen} <=> x \in {t.rng : t \in all}
    BY <1>3
  <2> QED  BY <2>1
<1> QED
  BY <1>1, <1>4, <1>5

\* The window of a scenario, in the body frame.
InWindow(t) ==
  /\ window[1] # Open => Abs(t.az) <= window[1]
  /\ window[2] # Open => Abs(t.el) <= window[2]
  /\ window[3] # Open => t.rng <= window[3]

\* However a radar is mounted, its returns are cut by the same window.
LEMMA WindowOfReturn ==
  ASSUME PictureAssumption, PictureInv, NEW i \in answered, NEW t \in sky
  PROVE  Inside(units[i], Return(units[i], t)) <=> InWindow(t)
<1> DEFINE u == units[i]
           r == Return(u, t)
           az == IF u.yaw # 0 THEN Folded(r.az + u.yaw) ELSE r.az
<1>1. u.yaw \in Int /\ t.az \in Int /\ -Circle <= 2 * t.az /\ 2 * t.az <= Circle
  BY PictureData
<1>2. r.az = Signed(t.az - u.yaw) /\ r.el = t.el /\ r.rng = t.rng
  BY DEF Return
<1>3. Abs(az) = Abs(t.az)
  BY <1>1, <1>2, Unturned
<1>4. Inside(u, r) <=> /\ window[1] # Open => Abs(az) <= window[1]
                       /\ window[2] # Open => Abs(r.el) <= window[2]
                       /\ window[3] # Open => r.rng <= window[3]
  BY DEF Inside
<1> QED
  BY <1>2, <1>3, <1>4 DEF InWindow

\* coverage_gap finds none for what the window and some radar take in.
LEMMA NoGap ==
  ASSUME PictureAssumption, PictureInv, NEW t \in sky
  PROVE  CoverageGap(t) = "none" <=>
           /\ window[1] # Open => Abs(t.az) <= window[1]
           /\ window[2] # Open => Abs(t.el) <= window[2]
           /\ \E i \in DOMAIN units : UnitSees(units[i], t)
<1>1. Abs(t.az) \in Int /\ Abs(t.el) \in Int
  BY PictureData DEF Abs
<1>2. /\ window[1] # Open => window[1] \in Int
      /\ window[2] # Open => window[2] \in Int
  BY PictureData
<1>3. CASE window[1] # Open /\ Abs(t.az) > window[1]
  BY <1>1, <1>2, <1>3 DEF CoverageGap
<1>4. CASE ~(window[1] # Open /\ Abs(t.az) > window[1]) /\ window[2] # Open /\ Abs(t.el) > window[2]
  BY <1>1, <1>2, <1>4 DEF CoverageGap
<1>5. CASE /\ ~(window[1] # Open /\ Abs(t.az) > window[1])
           /\ ~(window[2] # Open /\ Abs(t.el) > window[2])
  <2>1. CoverageGap(t) =
          IF \E i \in DOMAIN units : UnitSees(units[i], t) THEN "none"
          ELSE IF \E i \in DOMAIN units : LooksAt(units[i], t.az) /\ Reaches(units[i], t.el)
               THEN "range"
          ELSE IF CoversAz(t.az) THEN "elevation"
          ELSE IF CoversEl(t.el) THEN "azimuth" ELSE "bearing"
    BY <1>5 DEF CoverageGap
  <2> QED  BY <1>1, <1>2, <1>5, <2>1
<1> QED
  BY <1>3, <1>4, <1>5

(***************************************************************************)
(* coverage_gap and _hits: for any fit, however its radars are mounted and *)
(* whatever the windows, a target alone in the scene that no radar reports *)
(* is one that coverage_gap has a reason for, and the other way round.     *)
(***************************************************************************)
THEOREM MissesExplained ==
  ASSUME PictureAssumption
  PROVE  PictureSpec => []GapExplainsMiss
<1>1. PictureInv => GapExplainsMiss
  <2> SUFFICES ASSUME PictureInv, answered = DOMAIN units, motion.filter = "none",
                      Cardinality(sky) = 1, NEW t \in sky,
                      t.rng > 0, window[3] # Open => t.rng <= window[3]
               PROVE  (best.rng = t.rng) = (CoverageGap(t) = "none")
    BY DEF GapExplainsMiss
  <2> DEFINE all == UNION {Reported(units[i]) : i \in answered}
  <2>1. sky = {t}
    <3>1. IsFiniteSet(sky)
      BY FS_Subset DEF PictureAssumption, PictureInv
    <3> QED  BY <3>1, FS_Singleton
  <2>2. \A i \in answered : Reported(units[i]) = IF UnitSees(units[i], t) /\ InWindow(t) THEN {t} ELSE {}
    BY <2>1, WindowOfReturn DEF Reported, Moves, Static
  <2>3. CoverageGap(t) = "none" <=> InWindow(t) /\ \E i \in answered : UnitSees(units[i], t)
    BY NoGap DEF InWindow
  <2>4. best.rng = IF all = {} THEN Open ELSE Nearest({s.rng : s \in all})
    BY BestRange
  <2>5. CASE CoverageGap(t) = "none"
    <3>1. all = {t}
      BY <2>2, <2>3, <2>5
    <3>2. {s.rng : s \in all} = {t.rng} /\ all # {}
      BY <3>1
    <3>3. Nearest({t.rng}) = t.rng
      BY PictureData DEF Nearest
    <3> HIDE DEF all
    <3> QED  BY <2>4, <2>5, <3>2, <3>3
  <2>6. CASE CoverageGap(t) # "none"
    <3>1. all = {}
      BY <2>2, <2>3, <2>6
    <3>2. Open # t.rng
      BY PictureData
    <3> HIDE DEF all
    <3> QED  BY <2>4, <2>6, <3>1, <3>2
  <2> QED  BY <2>5, <2>6
<1> QED
  BY <1>1, PictureInitInv, PictureStep, PTL DEF PictureSpec

\* A bearing counts up to whole turns.
LEMMA AlongShift ==
  ASSUME PictureAssumption, NEW v, NEW n \in Int, NEW k \in Int
  PROVE  Along(v, n + k * Circle) = Along(v, n)
<1> DEFINE q == Circle \div 4
<1>1. Circle \in Nat \ {0} /\ q \in Int
  BY DEF PictureAssumption
<1> HIDE DEF q
<1>2. Turn(n + k * Circle) = Turn(n)
  BY TurnShift
<1>3. Turn((n + k * Circle) - q) = Turn(n - q)
  <2> DEFINE m == n - q
  <2>1. (n + k * Circle) - q = m + k * Circle /\ m \in Int
    BY <1>1
  <2> HIDE DEF m
  <2>2. Turn(m + k * Circle) = Turn(m)
    BY <2>1, TurnShift
  <2> QED  BY <2>1, <2>2 DEF m
<1> QED
  BY <1>2, <1>3 DEF Along, q

\* Given the aircraft's velocity in the frame of a radar, the filter takes its part
\* out of the Doppler.
LEMMA MovesInFrame ==
  ASSUME PictureAssumption, PictureInv, motion.filter = "own",
         NEW i \in answered, InFrameOf(units[i]), NEW t \in sky
  PROVE  Moves(units[i], t) <=> Abs(t.radial) >= Tolerance
<1> DEFINE u == units[i]
           r == Return(u, t)
           v == motion.true
           q == Circle \div 4
<1>1. /\ Circle \in Nat \ {0} /\ Cosine \in [0..(Circle - 1) -> Int]
      /\ v[1] \in Int /\ v[2] \in Int /\ q \in Int
  <2>1. Circle \in Nat \ {0} /\ Cosine \in [0..(Circle - 1) -> Int]
    BY DEF PictureAssumption
  <2>2. v \in Velocities
    BY DEF PictureInv
  <2>3. v[1] \in Int /\ v[2] \in Int
    <3> HIDE DEF v
    <3> QED  BY <2>2 DEF PictureAssumption
  <2> QED  BY <2>1, <2>3
<1>2. t.az \in Int /\ t.radial \in Int /\ Tolerance \in Nat /\ u.yaw \in Int
  BY PictureData
<1> HIDE DEF v, q
<1>3. r.az = Signed(t.az - u.yaw) /\ r.doppler = t.radial - Along(v, t.az)
  BY DEF Return, v
<1>4. \A az \in 0..(Circle - 1) : Along(motion.given, az) = Along(v, az + u.yaw)
  BY DEF InFrameOf, v
<1> HIDE DEF u, r
<1>5. PICK n \in Int : n = t.az - u.yaw
  BY <1>2
<1>6. PICK k \in Int : r.az = n + k * Circle
  BY <1>3, <1>5, SignedIs
<1>7. Along(motion.given, r.az) = Along(v, t.az)
  <2>1. PICK a \in 0..(Circle - 1), j \in Int : n = a + j * Circle
    BY <1>5, TurnParts, Zenon
  <2>2. PICK b \in Int : b = a + u.yaw
    BY <1>2
  <2>3. Along(motion.given, r.az) = Along(motion.given, n)
    BY <1>6, AlongShift
  <2>4. Along(motion.given, n) = Along(motion.given, a)
    BY <2>1, AlongShift
  <2>5. Along(motion.given, a) = Along(v, b)
    BY <1>4, <2>1, <2>2
  <2>6. t.az = b + j * Circle
    <3>1. PICK m \in Int : m = j * Circle
      BY <1>1
    <3>2. n = a + m
      BY <2>1, <3>1
    <3>3. a \in Int
      BY <1>1
    <3>4. t.az = b + m
      BY <1>2, <1>5, <2>2, <3>2, <3>3
    <3> QED  BY <3>1, <3>4
  <2>7. Along(v, t.az) = Along(v, b)
    BY <2>2, <2>6, AlongShift
  <2> QED  BY <2>3, <2>4, <2>5, <2>7
<1>8. Along(v, t.az) \in Int
  <2>1. Turn(t.az) \in 0..(Circle - 1) /\ Turn(t.az - q) \in 0..(Circle - 1)
    <3>1. t.az - q \in Int
      BY <1>1, <1>2
    <3> QED  BY <1>2, <3>1, TurnParts, Zenon
  <2>2. Cosine[Turn(t.az)] \in Int /\ Cosine[Turn(t.az - q)] \in Int
    BY <1>1, <2>1
  <2>3. Along(v, t.az) = v[1] * Cosine[Turn(t.az)] + v[2] * Cosine[Turn(t.az - q)]
    BY DEF Along, q
  <2> QED  BY <1>1, <2>2, <2>3
<1>9. r.doppler + Along(motion.given, r.az) = t.radial
  BY <1>2, <1>3, <1>7, <1>8
<1>10. Static(r) <=> Abs(r.doppler + Along(motion.given, r.az)) < Tolerance
  BY DEF Static
<1>11. Abs(t.radial) \in Int
  BY <1>2 DEF Abs
<1> QED
  BY <1>2, <1>9, <1>10, <1>11 DEF Moves, r, u

(***************************************************************************)
(* _hits with the aircraft's own velocity in the frame of its radars, for  *)
(* any fit, any targets and velocities: what scan_best returns is the      *)
(* nearest of the targets that move, and nothing that stands still.        *)
(***************************************************************************)
THEOREM OnlyMovers ==
  ASSUME PictureAssumption
  PROVE  PictureSpec => []MoversOnly
<1>1. PictureInv => MoversOnly
  <2> SUFFICES ASSUME PictureInv, motion.filter = "own",
                      \A i \in DOMAIN units : InFrameOf(units[i])
               PROVE  best.rng = IF Movers = {} THEN Open ELSE Nearest({t.rng : t \in Movers})
    BY DEF MoversOnly
  <2> DEFINE all == UNION {Reported(units[i]) : i \in answered}
  <2>1. ASSUME NEW t \in sky
        PROVE  t \in Movers <=> t \in all
    <3>1. answered \subseteq DOMAIN units
      BY DEF PictureInv
    <3>2. \A i \in answered : Inside(units[i], Return(units[i], t)) <=> InWindow(t)
      BY WindowOfReturn
    <3>3. \A i \in answered : Moves(units[i], t) <=> Abs(t.radial) >= Tolerance
      BY <3>1, MovesInFrame
    <3>4. t \in all <=> \E i \in answered : t \in Reported(units[i])
      OBVIOUS
    <3>5. \A i \in answered : t \in Reported(units[i]) <=>
             UnitSees(units[i], t) /\ t.rng > 0 /\ Abs(t.radial) >= Tolerance /\ InWindow(t)
      BY <3>2, <3>3 DEF Reported
    <3> QED  BY <3>1, <3>4, <3>5, NoGap DEF InWindow, Movers
  <2>2. Movers \subseteq sky /\ all \subseteq sky
    BY DEF Reported, Movers
  <2> HIDE DEF all
  <2>3. Movers = all
    BY <2>1, <2>2
  <2>4. best.rng = IF all = {} THEN Open ELSE Nearest({t.rng : t \in all})
    BY BestRange DEF all
  <2> QED  BY <2>3, <2>4
<1> QED
  BY <1>1, PictureInitInv, PictureStep, PTL DEF PictureSpec
-----------------------------------------------------------------------------
(***************************************************************************)
(* Where a fit can look: what the sweep over sorted segments adds up.      *)
(***************************************************************************)
\* A set of numbers that is not empty has a least one.
LEMMA NatHasLeast ==
  ASSUME NEW S \in SUBSET Nat, S # {}
  PROVE  \E x \in S : \A y \in S : x <= y
<1> DEFINE R == {ss \in Nat \X Nat : ss[1] < ss[2]}
<1>1. IsWellFoundedOn(R, Nat)
  BY NatLessThanWellFounded DEF OpToRel
<1>2. PICK x \in S : \A y \in S : <<y, x>> \notin R
  BY <1>1, WFMin
<1>3. \A y \in S : x <= y
  <2> SUFFICES ASSUME NEW y \in S, ~(x <= y)
               PROVE  FALSE
    OBVIOUS
  <2>1. y \in Nat /\ x \in Nat /\ y < x
    OBVIOUS
  <2>2. <<y, x>> \in R
    BY <2>1
  <2> QED  BY <1>2, <2>2
<1> QED
  BY <1>3

\* A function whose value at each place is a step from the one before it.
GoesOn(f, n, first, step) == \A i \in 1..n : f[i] = IF i = 1 THEN first ELSE step[i][f[i - 1]]

\* There is one.
LEMMA StepByStep ==
  ASSUME NEW V, NEW n \in Nat, NEW first \in V, NEW step \in [1..n -> [V -> V]]
  PROVE  \E f \in [1..n -> V] : GoesOn(f, n, first, step)
<1> DEFINE Upto(m, f) == \A i \in 1..n : i <= m => f[i] = IF i = 1 THEN first ELSE step[i][f[i - 1]]
           Bad == {m \in Nat : ~(\E f \in [1..n -> V] : Upto(m, f))}
<1>1. Bad = {}
  <2> SUFFICES ASSUME Bad # {} PROVE FALSE
    OBVIOUS
  <2>1. PICK m \in Bad : \A k \in Bad : m <= k
    <3>1. Bad \in SUBSET Nat
      OBVIOUS
    <3> HIDE DEF Bad
    <3> QED  BY <3>1, NatHasLeast
  <2>2. m # 0
    <3>1. [i \in 1..n |-> first] \in [1..n -> V]
      OBVIOUS
    <3>2. Upto(0, [i \in 1..n |-> first])
      OBVIOUS
    <3> HIDE DEF Upto
    <3> QED  BY <3>1, <3>2
  <2>3. m \in Nat /\ m - 1 \in Nat /\ m - 1 \notin Bad
    <3>1. m \in Nat /\ m - 1 \in Nat
      BY <2>2
    <3> HIDE DEF Bad
    <3> QED  BY <2>1, <3>1
  <2>4. PICK f \in [1..n -> V] : Upto(m - 1, f)
    BY <2>3
  <2> DEFINE g == [i \in 1..n |-> IF i = m THEN IF i = 1 THEN first ELSE step[i][f[i - 1]] ELSE f[i]]
  <2>5. g \in [1..n -> V]
    <3>1. \A i \in 1..n : i # 1 => f[i - 1] \in V /\ step[i][f[i - 1]] \in V
      OBVIOUS
    <3> QED  BY <3>1
  <2>6. Upto(m, g)
    <3>1. \A i \in 1..n : i # 1 /\ i <= m => g[i - 1] = f[i - 1]
      BY <2>3
    <3>2. \A i \in 1..n : i <= m => g[i] = IF i = 1 THEN first ELSE step[i][f[i - 1]]
      BY <2>3, <2>4
    <3> HIDE DEF g
    <3> QED  BY <3>1, <3>2
  <2> HIDE DEF g, Upto
  <2> QED  BY <2>1, <2>5, <2>6
<1>2. PICK f \in [1..n -> V] : Upto(n, f)
  <2> HIDE DEF Upto
  <2> QED  BY <1>1
<1>3. GoesOn(f, n, first, step)
  BY <1>2 DEF GoesOn
<1> QED
  BY <1>3

\* The unit arcs of segments.
Arcs(segs) == UNION {s[1]..(s[2] - 1) : s \in segs}

\* Segments that begin no later than they end, in the order they are sorted in.
IsSegments(segs) ==
  /\ IsFiniteSet(segs) /\ segs \subseteq Int \X Int
  /\ \A s \in segs : s[1] <= s[2]
Precedes(s, t) == s[1] < t[1] \/ (s[1] = t[1] /\ s[2] < t[2])
Rank(segs, s) == Cardinality({t \in segs : Precedes(t, s)})

\* A segment comes after those that precede it.
LEMMA RankGrows ==
  ASSUME NEW segs, IsSegments(segs), NEW s \in segs, NEW t \in segs, Precedes(s, t)
  PROVE  /\ Rank(segs, s) \in Nat /\ Rank(segs, t) \in Nat
         /\ Rank(segs, s) < Rank(segs, t)
<1> DEFINE A == {u \in segs : Precedes(u, s)}
           B == {u \in segs : Precedes(u, t)}
<1>1. IsFiniteSet(segs) /\ \A u \in segs : u[1] \in Int /\ u[2] \in Int
  BY DEF IsSegments
<1>2. IsFiniteSet(B) /\ Cardinality(B) \in Nat
  <2>1. B \in SUBSET segs
    OBVIOUS
  <2> HIDE DEF B
  <2> QED  BY <1>1, <2>1, FS_Subset, FS_CardinalityType
<1>3. A \in SUBSET B /\ s \in B /\ s \notin A
  BY <1>1 DEF Precedes
<1>4. IsFiniteSet(A) /\ Cardinality(A) \in Nat /\ Cardinality(A) <= Cardinality(B) /\ Cardinality(A) # Cardinality(B)
  <2> HIDE DEF A, B
  <2>1. IsFiniteSet(A) /\ Cardinality(A) <= Cardinality(B) /\ (Cardinality(B) = Cardinality(A) => B = A)
    BY <1>2, <1>3, FS_Subset
  <2> QED  BY <1>3, <2>1, FS_CardinalityType
<1>5. Rank(segs, s) = Cardinality(A) /\ Rank(segs, t) = Cardinality(B)
  BY DEF Rank
<1> HIDE DEF A, B
<1> QED
  BY <1>2, <1>4, <1>5

\* Every place of the order is the one of a segment.
LEMMA RankEach ==
  ASSUME NEW segs, IsSegments(segs)
  PROVE  /\ Cardinality(segs) \in Nat
         /\ \A s \in segs : Rank(segs, s) \in 0..(Cardinality(segs) - 1)
         /\ \A s, t \in segs : Rank(segs, s) = Rank(segs, t) => s = t
         /\ \A i \in 1..Cardinality(segs) : \E s \in segs : Rank(segs, s) = i - 1
<1> DEFINE n == Cardinality(segs)
           f == [s \in segs |-> Rank(segs, s)]
<1>1. IsFiniteSet(segs) /\ n \in Nat /\ \A u \in segs : u \in Int \X Int
  BY FS_CardinalityType DEF IsSegments
<1>2. ASSUME NEW s \in segs PROVE Rank(segs, s) \in 0..(n - 1)
  <2> DEFINE A == {t \in segs : Precedes(t, s)}
  <2>1. A \in SUBSET (segs \ {s})
    BY <1>1 DEF Precedes
  <2>2. IsFiniteSet(segs \ {s}) /\ Cardinality(segs \ {s}) = n - 1
    BY <1>1, FS_RemoveElement
  <2>3. Cardinality(A) \in Nat /\ Cardinality(A) <= n - 1
    <3> HIDE DEF A, n
    <3>1. IsFiniteSet(A) /\ Cardinality(A) <= Cardinality(segs \ {s})
      BY <2>1, <2>2, FS_Subset
    <3> QED  BY <2>2, <3>1, FS_CardinalityType
  <2>4. Rank(segs, s) = Cardinality(A)
    BY DEF Rank
  <2> HIDE DEF A, n
  <2> QED  BY <1>1, <2>3, <2>4
<1>3. ASSUME NEW s \in segs, NEW t \in segs, s # t PROVE Rank(segs, s) # Rank(segs, t)
  <2>1. Precedes(s, t) \/ Precedes(t, s)
    BY <1>1, <1>3 DEF Precedes
  <2>2. Rank(segs, s) \in Nat /\ Rank(segs, t) \in Nat
    BY <1>2
  <2> QED  BY <2>1, <2>2, RankGrows
<1>4. f \in Injection(segs, 0..(n - 1))
  <2>1. f \in [segs -> 0..(n - 1)]
    BY <1>2
  <2>2. \A s, t \in segs : f[s] = f[t] => s = t
    BY <1>3
  <2> HIDE DEF f, n
  <2> QED  BY <2>1, <2>2 DEF Injection, IsInjective
<1>5. IsFiniteSet(0..(n - 1)) /\ Cardinality(0..(n - 1)) = n
  <2> HIDE DEF n
  <2>1. 0 \in Int /\ n - 1 \in Int
    BY <1>1
  <2> QED  BY <1>1, <2>1, FS_Interval
<1>6. f \in Surjection(segs, 0..(n - 1))
  <2> HIDE DEF f
  <2> QED  BY <1>4, <1>5, FS_Injection
<1>7. ASSUME NEW i \in 1..n PROVE \E s \in segs : Rank(segs, s) = i - 1
  <2>1. i - 1 \in 0..(n - 1)
    <3> HIDE DEF n
    <3> QED  BY <1>1
  <2> HIDE DEF n
  <2>2. PICK s \in segs : f[s] = i - 1
    <3> HIDE DEF f
    <3> QED  BY <1>6, <2>1 DEF Surjection
  <2> QED  BY <2>2
<1> QED
  BY <1>1, <1>2, <1>3, <1>7

\* What a step of the sweep adds: its segment begins no earlier than the current one.
LEMMA MergeCounts ==
  ASSUME NEW total \in Int, NEW cur \in Int \X Int, NEW A, NEW seg \in Int \X Int,
         IsFiniteSet(A), A \subseteq Int, cur[1] <= cur[2], seg[1] <= seg[2], cur[1] <= seg[1],
         total + (cur[2] - cur[1]) = Cardinality(A),
         \A a \in A : a < cur[2], cur[1]..(cur[2] - 1) \subseteq A
  PROVE  LET m == Merge(total, cur, seg)
             B == A \cup (seg[1]..(seg[2] - 1))
         IN /\ m \in Int \X (Int \X Int) /\ IsFiniteSet(B) /\ B \subseteq Int
            /\ m[2][1] <= m[2][2] /\ m[2][1] <= seg[1]
            /\ m[1] + (m[2][2] - m[2][1]) = Cardinality(B)
            /\ \A a \in B : a < m[2][2]
            /\ m[2][1]..(m[2][2] - 1) \subseteq B
<1>1. PICK cl \in Int, ch \in Int : cur = <<cl, ch>>
  OBVIOUS
<1>2. PICK lo \in Int, hi \in Int : seg = <<lo, hi>>
  OBVIOUS
<1>3. cl <= ch /\ lo <= hi /\ cl <= lo /\ total + (ch - cl) = Cardinality(A)
  BY <1>1, <1>2
<1> DEFINE B == A \cup (lo..(hi - 1))
           new == IF lo > ch THEN lo ELSE ch
<1>4. new \in Int /\ B = A \cup (new..(hi - 1)) /\ A \cap (new..(hi - 1)) = {}
  <2>1. \A a \in A : a \in Int /\ a < ch
    BY <1>1
  <2>2. \A a \in Int : cl <= a /\ a < ch => a \in A
    BY <1>1
  <2>3. \A a \in Int : a \in lo..(hi - 1) /\ ~(a \in new..(hi - 1)) => a \in A
    BY <1>3, <2>2
  <2>4. \A a \in Int : a \in new..(hi - 1) => a \in lo..(hi - 1) /\ a \notin A
    BY <1>3, <2>1
  <2> QED  BY <2>1, <2>3, <2>4
<1>5. IsFiniteSet(B) /\ Cardinality(B) = Cardinality(A) + (IF new > hi - 1 THEN 0 ELSE hi - new)
  <2>1. IsFiniteSet(new..(hi - 1)) /\ Cardinality(new..(hi - 1)) = IF new > hi - 1 THEN 0 ELSE (hi - 1) - new + 1
    <3>1. hi - 1 \in Int
      OBVIOUS
    <3> HIDE DEF new
    <3> QED  BY <1>4, <3>1, FS_Interval
  <2>2. /\ IsFiniteSet(A \cup (new..(hi - 1)))
        /\ Cardinality(A \cup (new..(hi - 1))) =
             Cardinality(A) + Cardinality(new..(hi - 1)) - Cardinality(A \cap (new..(hi - 1)))
    <3> HIDE DEF new
    <3> QED  BY <2>1, FS_Union
  <2>3. Cardinality(A \cap (new..(hi - 1))) = 0
    BY <1>4, FS_EmptySet
  <2>4. Cardinality(A) \in Nat
    BY FS_CardinalityType
  <2> HIDE DEF new, B
  <2> QED  BY <1>4, <2>1, <2>2, <2>3, <2>4
<1>6. PICK k \in Nat : k = Cardinality(A)
  BY FS_CardinalityType
<1> DEFINE m == Merge(total, cur, seg)
<1> SUFFICES /\ m \in Int \X (Int \X Int) /\ IsFiniteSet(B) /\ B \subseteq Int
             /\ m[2][1] <= m[2][2] /\ m[2][1] <= lo
             /\ m[1] + (m[2][2] - m[2][1]) = Cardinality(B)
             /\ \A a \in B : a < m[2][2]
             /\ m[2][1]..(m[2][2] - 1) \subseteq B
  BY <1>2
<1>0. B \subseteq Int /\ lo..(hi - 1) \subseteq B
  OBVIOUS
<1>7. CASE lo > ch
  <2>1. m = <<total + (ch - cl), <<lo, hi>>>>
    BY <1>1, <1>2, <1>7 DEF Merge
  <2>2. new = lo
    BY <1>7
  <2>3. m[1] + (m[2][2] - m[2][1]) = Cardinality(B)
    <3>1. Cardinality(B) = k + (hi - lo)
      <4> HIDE DEF B, new
      <4> QED  BY <1>3, <1>5, <1>6, <2>2
    <3> HIDE DEF B, m
    <3> QED  BY <1>3, <1>6, <2>1, <3>1
  <2>4. \A a \in B : a < hi
    BY <1>1, <1>3, <1>7
  <2>5. m \in Int \X (Int \X Int) /\ m[2][1] = lo /\ m[2][2] = hi
    <3> HIDE DEF m
    <3> QED  BY <2>1
  <2> HIDE DEF new, B, m
  <2> QED  BY <1>0, <1>3, <1>5, <2>3, <2>4, <2>5
<1>8. CASE ~(lo > ch)
  <2> DEFINE top == IF hi > ch THEN hi ELSE ch
  <2>1. Farthest({ch, hi}) = top
    BY DEF Farthest
  <2>2. m = <<total, <<cl, top>>>>
    <3> HIDE DEF top
    <3> QED  BY <1>1, <1>2, <1>8, <2>1 DEF Merge
  <2>3. new = ch
    BY <1>8
  <2>4. m[1] + (m[2][2] - m[2][1]) = Cardinality(B)
    <3>1. Cardinality(B) = k + (top - ch)
      <4> HIDE DEF B, new
      <4> QED  BY <1>3, <1>5, <1>6, <2>3
    <3>2. top \in Int
      OBVIOUS
    <3> HIDE DEF B, m, top
    <3> QED  BY <1>3, <1>6, <2>2, <3>1, <3>2
  <2>5. \A a \in B : a < top
    BY <1>1, <1>3
  <2>6. cl..(top - 1) \subseteq B
    BY <1>1, <1>3, <1>8
  <2>7. top \in Int /\ cl <= top
    BY <1>3
  <2>8. m \in Int \X (Int \X Int) /\ m[2][1] = cl /\ m[2][2] = top
    <3> HIDE DEF m, top
    <3> QED  BY <2>2, <2>7
  <2> HIDE DEF new, top, B, m
  <2> QED  BY <1>0, <1>3, <1>5, <2>4, <2>5, <2>6, <2>7, <2>8
<1> QED
  BY <1>7, <1>8

\* A step leaves a total and a segment.
LEMMA MergeType ==
  ASSUME NEW total \in Int, NEW cur \in Int \X Int, NEW seg \in Int \X Int
  PROVE  Merge(total, cur, seg) \in Int \X (Int \X Int)
<1>1. Farthest({cur[2], seg[2]}) = IF seg[2] > cur[2] THEN seg[2] ELSE cur[2]
  BY DEF Farthest
<1>2. Farthest({cur[2], seg[2]}) \in Int
  BY <1>1
<1>3. cur[1] \in Int /\ cur[2] \in Int /\ total + (cur[2] - cur[1]) \in Int
  OBVIOUS
<1> HIDE DEF Farthest
<1> QED
  BY <1>2, <1>3 DEF Merge

\* A sweep over sorted segments counts every unit arc of theirs once.
LEMMA SweepCounts ==
  ASSUME NEW segs, IsSegments(segs), segs # {}
  PROVE  Sweep(segs) = Cardinality(Arcs(segs))
<1> DEFINE Before(s, t) == s[1] < t[1] \/ (s[1] = t[1] /\ s[2] < t[2])
           n == Cardinality(segs)
           At(i) == CHOOSE s \in segs : Cardinality({t \in segs : Before(t, s)}) = i - 1
           body(g, i) == IF i = 1 THEN <<0, At(1)>>
                         ELSE LET before == g[i - 1] IN Merge(before[1], before[2], At(i))
           swept[i \in 1..n] == body(swept, i)
           V == Int \X (Int \X Int)
<1>1. Sweep(segs) = LET result == swept[n] IN result[1] + (result[2][2] - result[2][1])
  BY DEF Sweep
<1>2. /\ n \in Nat /\ n >= 1 /\ IsFiniteSet(segs)
      /\ \A s \in segs : s \in Int \X Int /\ s[1] <= s[2]
  <2>1. n # 0 /\ IsFiniteSet(segs)
    BY FS_EmptySet DEF IsSegments
  <2>2. n \in Nat
    BY <2>1, FS_CardinalityType
  <2> QED  BY <2>1, <2>2 DEF IsSegments
<1>3. \A i \in 1..n : At(i) \in segs /\ Rank(segs, At(i)) = i - 1
  <2>1. ASSUME NEW i \in 1..n PROVE At(i) \in segs /\ Rank(segs, At(i)) = i - 1
    <3>1. \E s \in segs : Rank(segs, s) = i - 1
      BY RankEach
    <3>2. At(i) = CHOOSE s \in segs : Rank(segs, s) = i - 1
      BY DEF Rank, Precedes
    <3> HIDE DEF At
    <3> QED  BY <3>1, <3>2
  <2> HIDE DEF At
  <2> QED  BY <2>1
<1> HIDE DEF At
<1>4. \A s \in segs : Rank(segs, s) + 1 \in 1..n /\ s = At(Rank(segs, s) + 1)
  <2> SUFFICES ASSUME NEW s \in segs PROVE Rank(segs, s) + 1 \in 1..n /\ s = At(Rank(segs, s) + 1)
    OBVIOUS
  <2>1. PICK k \in 0..(n - 1) : k = Rank(segs, s)
    BY RankEach
  <2>2. k + 1 \in 1..n /\ (k + 1) - 1 = k
    BY <1>2
  <2>3. At(k + 1) \in segs /\ Rank(segs, At(k + 1)) = k
    BY <1>3, <2>2
  <2> QED  BY <2>1, <2>2, <2>3, RankEach
<1>5. \A i \in 1..n : i # 1 => At(i - 1)[1] <= At(i)[1]
  <2> SUFFICES ASSUME NEW i \in 1..n, i # 1 PROVE At(i - 1)[1] <= At(i)[1]
    OBVIOUS
  <2>1. i - 1 \in 1..n
    BY <1>2
  <2>2. /\ At(i) \in segs /\ Rank(segs, At(i)) = i - 1
        /\ At(i - 1) \in segs /\ Rank(segs, At(i - 1)) = i - 2
    BY <1>3, <2>1
  <2>3. ~Precedes(At(i), At(i - 1))
    BY <2>2, RankGrows
  <2>4. At(i)[1] \in Int /\ At(i - 1)[1] \in Int
    BY <1>2, <2>2
  <2> QED  BY <2>3, <2>4 DEF Precedes
<1>6. swept = [i \in 1..n |-> body(swept, i)]
  <2> DEFINE step == [i \in 1..n |-> [v \in V |-> Merge(v[1], v[2], At(i))]]
             first == <<0, At(1)>>
  <2>1. first \in V
    <3>1. At(1) \in Int \X Int
      BY <1>2, <1>3
    <3> QED  BY <3>1
  <2>2. step \in [1..n -> [V -> V]]
    <3>1. ASSUME NEW i \in 1..n, NEW v \in V PROVE Merge(v[1], v[2], At(i)) \in V
      <4>1. v[1] \in Int /\ v[2] \in Int \X Int /\ At(i) \in Int \X Int
        BY <1>2, <1>3
      <4> QED  BY <4>1, MergeType
    <3> HIDE DEF V
    <3> QED  BY <3>1
  <2>3. PICK f \in [1..n -> V] : GoesOn(f, n, first, step)
    <3>1. n \in Nat
      BY <1>2
    <3> HIDE DEF first, step, V, n
    <3> QED  BY <2>1, <2>2, <3>1, StepByStep
  <2>4. \A i \in 1..n : f[i] = body(f, i)
    <3>1. \A i \in 1..n : i # 1 => f[i - 1] \in V
      <4> HIDE DEF V
      <4> QED  BY <1>2
    <3>2. ASSUME NEW i \in 1..n, i # 1 PROVE step[i][f[i - 1]] = Merge(f[i - 1][1], f[i - 1][2], At(i))
      BY <3>1, <3>2
    <3> HIDE DEF step, V
    <3> QED  BY <2>3, <3>2 DEF GoesOn
  <2>5. f = [i \in 1..n |-> body(f, i)]
    <3> HIDE DEF body
    <3> QED  BY <2>4
  <2> HIDE DEF body
  <2> QED  BY <2>5
<1>7. \A i \in 1..n : swept[i] = body(swept, i)
  <2> HIDE DEF swept, body
  <2> QED  BY <1>6
<1> HIDE DEF swept
<1> DEFINE First(i) == {s \in segs : Rank(segs, s) < i}
           Counts(i) ==
             /\ swept[i] \in V
             /\ IsFiniteSet(Arcs(First(i))) /\ Arcs(First(i)) \subseteq Int
             /\ swept[i][2][1] <= swept[i][2][2] /\ swept[i][2][1] <= At(i)[1]
             /\ swept[i][1] + (swept[i][2][2] - swept[i][2][1]) = Cardinality(Arcs(First(i)))
             /\ \A a \in Arcs(First(i)) : a < swept[i][2][2]
             /\ swept[i][2][1]..(swept[i][2][2] - 1) \subseteq Arcs(First(i))
<1>8. Counts(1)
  <2>1. PICK s \in segs : s = At(1)
    BY <1>2, <1>3
  <2>2. swept[1] = <<0, s>>
    BY <1>2, <1>7, <2>1
  <2>3. First(1) = {s}
    <3>1. \A t \in segs : Rank(segs, t) \in Nat
      BY RankEach
    <3>2. Rank(segs, s) = 0
      BY <1>2, <1>3, <2>1
    <3>3. \A t \in segs : Rank(segs, t) = 0 => t = s
      BY <3>2, RankEach
    <3> QED  BY <3>1, <3>2, <3>3
  <2>4. Arcs(First(1)) = s[1]..(s[2] - 1)
    BY <2>3 DEF Arcs
  <2>5. PICK lo \in Int, hi \in Int : s = <<lo, hi>> /\ lo <= hi
    BY <1>2
  <2>6. IsFiniteSet(lo..(hi - 1)) /\ Cardinality(lo..(hi - 1)) = hi - lo
    <3>1. hi - 1 \in Int
      OBVIOUS
    <3>2. IsFiniteSet(lo..(hi - 1)) /\ Cardinality(lo..(hi - 1)) = IF lo > hi - 1 THEN 0 ELSE (hi - 1) - lo + 1
      BY <3>1, FS_Interval
    <3> QED  BY <2>5, <3>2
  <2> HIDE DEF First
  <2> QED  BY <2>1, <2>2, <2>4, <2>5, <2>6
<1>9. ASSUME NEW i \in 1..n, i # 1, Counts(i - 1) PROVE Counts(i)
  <2>1. i - 1 \in 1..n
    BY <1>2, <1>9
  <2>2. PICK seg \in segs : seg = At(i)
    BY <1>3
  <2>3. seg \in Int \X Int /\ seg[1] <= seg[2] /\ At(i - 1)[1] \in Int
    BY <1>2, <1>3, <2>1
  <2>4. PICK total \in Int, cur \in Int \X Int : swept[i - 1] = <<total, cur>>
    BY <1>9
  <2>5. swept[i] = Merge(total, cur, seg)
    BY <1>7, <1>9, <2>2, <2>4
  <2>6. Arcs(First(i)) = Arcs(First(i - 1)) \cup (seg[1]..(seg[2] - 1))
    <3>1. First(i) = First(i - 1) \cup {seg}
      <4>1. \A t \in segs : Rank(segs, t) \in Nat
        BY RankEach
      <4>2. Rank(segs, seg) = i - 1
        BY <1>3, <2>2
      <4>3. \A t \in segs : Rank(segs, t) = i - 1 => t = seg
        BY <4>2, RankEach
      <4> QED  BY <2>1, <4>1, <4>2, <4>3
    <3> HIDE DEF First
    <3> QED  BY <3>1 DEF Arcs
  <2>7. cur[1] <= seg[1]
    <3>1. cur[1] <= At(i - 1)[1]
      BY <1>9, <2>4
    <3>2. At(i - 1)[1] <= seg[1]
      BY <1>5, <1>9, <2>2
    <3>3. cur[1] \in Int /\ seg[1] \in Int
      BY <2>3
    <3> QED  BY <2>3, <3>1, <3>2, <3>3
  <2> DEFINE A == Arcs(First(i - 1))
  <2>8. /\ IsFiniteSet(A) /\ A \subseteq Int /\ cur[1] <= cur[2]
        /\ total + (cur[2] - cur[1]) = Cardinality(A)
        /\ \A a \in A : a < cur[2]
        /\ cur[1]..(cur[2] - 1) \subseteq A
    <3> HIDE DEF First
    <3> QED  BY <1>9, <2>4
  <2> HIDE DEF A
  <2>9. LET m == Merge(total, cur, seg)
            B == A \cup (seg[1]..(seg[2] - 1))
        IN /\ m \in Int \X (Int \X Int) /\ IsFiniteSet(B) /\ B \subseteq Int
           /\ m[2][1] <= m[2][2] /\ m[2][1] <= seg[1]
           /\ m[1] + (m[2][2] - m[2][1]) = Cardinality(B)
           /\ \A a \in B : a < m[2][2]
           /\ m[2][1]..(m[2][2] - 1) \subseteq B
    BY <2>3, <2>7, <2>8, MergeCounts
  <2> HIDE DEF First
  <2> QED  BY <2>2, <2>5, <2>6, <2>9 DEF A
<1>10. Counts(n)
  <2> DEFINE Bad == {i \in 1..n : ~Counts(i)}
  <2> HIDE DEF Counts
  <2> SUFFICES ASSUME Bad # {} PROVE FALSE
    BY <1>2
  <2>1. Bad \in SUBSET Nat
    OBVIOUS
  <2>2. PICK i \in Bad : \A j \in Bad : i <= j
    <3> HIDE DEF Bad
    <3> QED  BY <2>1, NatHasLeast
  <2>3. i # 1
    BY <1>8
  <2>4. i - 1 \in 1..n /\ i - 1 \notin Bad
    <3>1. i \in 1..n /\ i - 1 \in 1..n
      BY <1>2, <2>3
    <3> HIDE DEF Bad
    <3> QED  BY <2>2, <3>1
  <2> QED  BY <1>9, <2>3, <2>4
<1>11. First(n) = segs
  <2>1. \A s \in segs : Rank(segs, s) \in 0..(n - 1)
    BY RankEach
  <2> QED  BY <1>2, <2>1
<1> QED
  <2> HIDE DEF First, n
  <2> QED  BY <1>1, <1>10, <1>11
-----------------------------------------------------------------------------
(***************************************************************************)
(* The segments of a fit are its windows, and a turn has no more arcs.     *)
(***************************************************************************)
\* The rest of a difference, from the rest of what is taken away.
LEMMA TurnFrom ==
  ASSUME PictureAssumption, NEW n \in Int, NEW a \in 0..(Circle - 1)
  PROVE  Turn(a - n) = IF a >= Turn(n) THEN a - Turn(n) ELSE a - Turn(n) + Circle
<1>1. Turn(n) \in 0..(Circle - 1) /\ Circle \in Nat \ {0}
  BY TurnParts DEF PictureAssumption
<1>2. PICK k \in Int : n = Turn(n) + k * Circle
  BY TurnParts
<1>3. PICK lo \in 0..(Circle - 1) : lo = Turn(n)
  BY <1>1
<1>4. a - n = (a - lo) + (-k) * Circle /\ a - n = (a - lo + Circle) + (-k - 1) * Circle
  BY <1>1, <1>2, <1>3
<1>5. CASE a >= lo
  <2>1. a - lo \in 0..(Circle - 1) /\ -k \in Int
    BY <1>1, <1>5
  <2>2. Turn((a - lo) + (-k) * Circle) = a - lo
    BY <2>1, TurnIs, Zenon
  <2> QED  BY <1>3, <1>4, <1>5, <2>2
<1>6. CASE ~(a >= lo)
  <2>1. a - lo + Circle \in 0..(Circle - 1) /\ -k - 1 \in Int
    BY <1>1, <1>6
  <2>2. Turn((a - lo + Circle) + (-k - 1) * Circle) = a - lo + Circle
    BY <2>1, TurnIs, Zenon
  <2> QED  BY <1>3, <1>4, <1>6, <2>2
<1> QED
  BY <1>5, <1>6

\* The unit arcs of a turn that a window contains.
Contained(u) == {a \in 0..(Circle - 1) : Turn(a - u.az_lo) + 1 <= u.az_hi - u.az_lo}

\* One piece of a turn, or two.
Pieces(lo, hi) == IF hi > Circle THEN {<<lo, Circle>>, <<0, hi - Circle>>} ELSE {<<lo, hi>>}

\* The segments of a window are the pieces from its beginning on.
LEMMA SegmentsIs ==
  ASSUME NEW u
  PROVE  Segments(u) = Pieces(Turn(u.az_lo), Turn(u.az_lo) + (u.az_hi - u.az_lo))
BY Zenon DEF Segments, Pieces

\* The arcs of one segment.
LEMMA ArcsOfOne ==
  ASSUME NEW s
  PROVE  Arcs({s}) = s[1]..(s[2] - 1)
BY DEF Arcs

\* Of two.
LEMMA ArcsOfTwo ==
  ASSUME NEW s, NEW t
  PROVE  Arcs({s, t}) = (s[1]..(s[2] - 1)) \cup (t[1]..(t[2] - 1))
BY DEF Arcs

\* The segments of a window narrower than a turn have the arcs it contains.
LEMMA SegmentsAre ==
  ASSUME PictureAssumption, NEW u, u.az_lo \in Int, u.az_hi \in Int, u.az_lo <= u.az_hi,
         u.az_hi - u.az_lo < Circle
  PROVE  /\ Segments(u) \subseteq (0..Circle) \X (0..Circle) /\ Segments(u) # {}
         /\ \A s \in Segments(u) : s[1] <= s[2]
         /\ Arcs(Segments(u)) = Contained(u)
<1> DEFINE first == Turn(u.az_lo)
           width == u.az_hi - u.az_lo
<1>1. first \in 0..(Circle - 1) /\ width \in Nat
  BY TurnParts
<1>2. Segments(u) = Pieces(first, first + width)
  BY SegmentsIs
<1>3. Circle \in Nat \ {0} /\ width < Circle
  BY DEF PictureAssumption
<1>4. Contained(u) = {a \in 0..(Circle - 1) : (IF a >= first THEN a - first ELSE a - first + Circle) + 1 <= width}
  BY <1>1, TurnFrom DEF Contained
<1> HIDE DEF first, width
<1>5. CASE first + width > Circle
  <2>1. Segments(u) = {<<first, Circle>>, <<0, first + width - Circle>>}
    BY <1>1, <1>2, <1>3, <1>5 DEF Pieces
  <2>2. Arcs(Segments(u)) = (first..(Circle - 1)) \cup (0..(first + width - Circle - 1))
    <3> DEFINE s == <<first, Circle>>
               t == <<0, first + width - Circle>>
    <3>1. Arcs({s, t}) = (s[1]..(s[2] - 1)) \cup (t[1]..(t[2] - 1))
      <4> HIDE DEF s, t
      <4> QED  BY ArcsOfTwo
    <3>2. s[1] = first /\ s[2] = Circle /\ t[1] = 0 /\ t[2] = first + width - Circle
      OBVIOUS
    <3> DEFINE both == {s, t}
    <3>3. Segments(u) = both
      BY <2>1, Zenon
    <3>4. Arcs(both) = (s[1]..(s[2] - 1)) \cup (t[1]..(t[2] - 1))
      BY <3>1, Zenon
    <3> HIDE DEF s, t, both
    <3> QED  BY <1>1, <1>3, <3>2, <3>3, <3>4
  <2>3. first + width - Circle \in 0..Circle
    BY <1>1, <1>3, <1>5
  <2>4. Contained(u) = (first..(Circle - 1)) \cup (0..(first + width - Circle - 1))
    <3>1. \A a \in 0..(Circle - 1) :
            (IF a >= first THEN a - first ELSE a - first + Circle) + 1 <= width
            <=> a >= first \/ a <= first + width - Circle - 1
      BY <1>1, <1>3, <1>5
    <3>2. \A a : a \in Contained(u) <=> a \in 0..(Circle - 1) /\ (a >= first \/ a <= first + width - Circle - 1)
      <4> HIDE DEF Contained
      <4> QED  BY <1>4, <3>1
    <3>3. first + width - Circle - 1 < Circle
      BY <1>1, <1>3
    <3> HIDE DEF Contained
    <3> QED  BY <1>1, <1>3, <3>2, <3>3
  <2>5. <<first, Circle>> \in (0..Circle) \X (0..Circle) /\ <<0, first + width - Circle>> \in (0..Circle) \X (0..Circle)
    BY <1>1, <1>3, <2>3
  <2>6. \A s \in {<<first, Circle>>, <<0, first + width - Circle>>} : s[1] <= s[2]
    BY <1>1, <1>3, <2>3
  <2> HIDE DEF Contained
  <2> QED  BY <2>1, <2>2, <2>4, <2>5, <2>6
<1>6. CASE ~(first + width > Circle)
  <2>1. Segments(u) = {<<first, first + width>>}
    BY <1>2, <1>6 DEF Pieces
  <2>2. Arcs(Segments(u)) = first..(first + width - 1)
    <3> DEFINE s == <<first, first + width>>
    <3>1. Arcs({s}) = s[1]..(s[2] - 1)
      <4> HIDE DEF s
      <4> QED  BY ArcsOfOne
    <3>2. s[1] = first /\ s[2] = first + width
      OBVIOUS
    <3> DEFINE only == {s}
    <3>3. Segments(u) = only
      BY <2>1, Zenon
    <3>4. Arcs(only) = s[1]..(s[2] - 1)
      BY <3>1, Zenon
    <3> HIDE DEF s, only
    <3> QED  BY <1>1, <1>3, <3>2, <3>3, <3>4
  <2>3. first + width \in 0..Circle
    BY <1>1, <1>3, <1>6
  <2>4. Contained(u) = first..(first + width - 1)
    BY <1>1, <1>3, <1>4, <1>6
  <2> QED  BY <1>1, <1>3, <2>1, <2>2, <2>3, <2>4
<1> QED
  BY <1>5, <1>6

(***************************************************************************)
(* azimuth_coverage_deg and elevation_coverage_deg: for every fit of       *)
(* radars, the sum over sorted and merged segments is the number of unit   *)
(* arcs some window contains, however many windows overlap or wrap.        *)
(***************************************************************************)
THEOREM CoverageIsCounted ==
  ASSUME PictureAssumption
  PROVE  PictureSpec => []CoverageCountedOnce
<1> DEFINE narrow == \A i \in DOMAIN units : units[i].az_hi - units[i].az_lo < Circle
           segs == UNION {Segments(units[i]) : i \in DOMAIN units}
           rows == {<<units[i].el_lo, units[i].el_hi>> : i \in DOMAIN units}
           around == {a \in 0..(Circle - 1) : \E i \in DOMAIN units :
                        LET d == Turn(a - units[i].az_lo) IN d + 1 <= units[i].az_hi - units[i].az_lo}
           upright == {e \in -Circle..Circle : \E i \in DOMAIN units :
                         units[i].el_lo <= e /\ e + 1 <= units[i].el_hi}
<1>1. ASSUME PictureInv
      PROVE  /\ DOMAIN units # {} /\ Circle \in Nat \ {0}
             /\ \A i \in DOMAIN units :
                  /\ units[i].az_lo \in Int /\ units[i].az_hi \in Int /\ units[i].az_lo <= units[i].az_hi
                  /\ units[i].el_lo \in -Circle..Circle /\ units[i].el_hi \in -Circle..Circle
                  /\ units[i].el_lo <= units[i].el_hi
  <2>1. Circle \in Nat \ {0} /\ units \in Fits
    BY <1>1 DEF PictureInv, PictureAssumption
  <2>2. DOMAIN units # {}
    BY <2>1, FitHasOne
  <2> QED  BY <2>1, <2>2, FitData
<1>2. ASSUME PictureInv, narrow
      PROVE  AzimuthCoverage = Cardinality(around)
  <2>1. /\ \A i \in DOMAIN units : /\ Segments(units[i]) \subseteq (0..Circle) \X (0..Circle)
                                   /\ Segments(units[i]) # {}
                                   /\ \A s \in Segments(units[i]) : s[1] <= s[2]
                                   /\ Arcs(Segments(units[i])) = Contained(units[i])
    BY <1>1, <1>2, SegmentsAre
  <2>2. IsSegments(segs) /\ segs # {}
    <3>1. IsFiniteSet((0..Circle) \X (0..Circle))
      <4>1. IsFiniteSet(0..Circle)
        <5>1. 0 \in Int /\ Circle \in Int
          BY <1>1, <1>2
        <5> QED  BY <5>1, FS_Interval
      <4> QED  BY <4>1, FS_Product
    <3>2. segs \in SUBSET ((0..Circle) \X (0..Circle)) /\ segs # {} /\ \A s \in segs : s[1] <= s[2]
      BY <1>1, <1>2, <2>1
    <3>3. IsFiniteSet(segs)
      <4> HIDE DEF segs
      <4> QED  BY <3>1, <3>2, FS_Subset
    <3>4. segs \subseteq Int \X Int
      <4> HIDE DEF segs
      <4> QED  BY <3>2
    <3> QED  BY <3>2, <3>3, <3>4 DEF IsSegments
  <2>3. AzimuthCoverage = Cardinality(Arcs(segs))
    <3>1. AzimuthCoverage = Sweep(segs)
      BY <1>1, <1>2 DEF AzimuthCoverage
    <3> HIDE DEF segs
    <3> QED  BY <2>2, <3>1, SweepCounts
  <2>4. Arcs(segs) = around
    <3>1. Arcs(segs) = UNION {Arcs(Segments(units[i])) : i \in DOMAIN units}
      BY DEF Arcs
    <3>2. \A a : a \in Arcs(segs) <=> \E i \in DOMAIN units : a \in Contained(units[i])
      BY <2>1, <3>1
    <3> HIDE DEF segs
    <3> QED  BY <3>2 DEF Contained
  <2> QED  BY <2>3, <2>4
<1>3. ASSUME PictureInv, ~narrow
      PROVE  AzimuthCoverage = Cardinality(around)
  <2>1. PICK i \in DOMAIN units : units[i].az_hi - units[i].az_lo >= Circle
    BY <1>1, <1>3
  <2>2. \A a \in 0..(Circle - 1) : Turn(a - units[i].az_lo) + 1 <= units[i].az_hi - units[i].az_lo
    <3> SUFFICES ASSUME NEW a \in 0..(Circle - 1)
                 PROVE  Turn(a - units[i].az_lo) + 1 <= units[i].az_hi - units[i].az_lo
      OBVIOUS
    <3>1. a - units[i].az_lo \in Int /\ Circle \in Nat
      BY <1>1, <1>3
    <3>2. Turn(a - units[i].az_lo) \in 0..(Circle - 1)
      BY <3>1, TurnParts
    <3> QED  BY <1>1, <1>3, <2>1, <3>1, <3>2
  <2>3. around = 0..(Circle - 1)
    BY <2>2
  <2>4. Cardinality(0..(Circle - 1)) = Circle
    <3>1. 0 \in Int /\ Circle - 1 \in Int /\ 0 <= Circle - 1
      BY <1>1, <1>3
    <3> QED  BY <1>1, <1>3, <3>1, FS_Interval
  <2>5. AzimuthCoverage = Circle
    BY <2>1 DEF AzimuthCoverage
  <2> QED  BY <2>3, <2>4, <2>5
<1>4. ASSUME PictureInv
      PROVE  ElevationCoverage = Cardinality(upright)
  <2>1. IsSegments(rows) /\ rows # {}
    <3>1. IsFiniteSet((-Circle..Circle) \X (-Circle..Circle))
      <4>1. -Circle \in Int /\ Circle \in Int
        BY <1>1, <1>4
      <4> QED  BY <4>1, FS_Interval, FS_Product
    <3>2. rows \in SUBSET ((-Circle..Circle) \X (-Circle..Circle)) /\ rows # {} /\ \A s \in rows : s[1] <= s[2]
      <4>1. ASSUME NEW i \in DOMAIN units
            PROVE  /\ <<units[i].el_lo, units[i].el_hi>> \in (-Circle..Circle) \X (-Circle..Circle)
                   /\ <<units[i].el_lo, units[i].el_hi>>[1] <= <<units[i].el_lo, units[i].el_hi>>[2]
        BY <1>1, <1>4
      <4>2. DOMAIN units # {}
        BY <1>1, <1>4
      <4> QED  BY <4>1, <4>2
    <3>3. IsFiniteSet(rows)
      <4> HIDE DEF rows
      <4> QED  BY <3>1, <3>2, FS_Subset
    <3>4. rows \subseteq Int \X Int
      <4> HIDE DEF rows
      <4> QED  BY <3>2
    <3> QED  BY <3>2, <3>3, <3>4 DEF IsSegments
  <2>2. ElevationCoverage = Cardinality(Arcs(rows))
    <3>1. ElevationCoverage = Sweep(rows)
      BY DEF ElevationCoverage
    <3> HIDE DEF rows
    <3> QED  BY <2>1, <3>1, SweepCounts
  <2>3. Arcs(rows) = upright
    <3>1. Arcs(rows) = UNION {units[i].el_lo..(units[i].el_hi - 1) : i \in DOMAIN units}
      <4>1. \A i \in DOMAIN units : <<units[i].el_lo, units[i].el_hi>>[1] = units[i].el_lo
                                   /\ <<units[i].el_lo, units[i].el_hi>>[2] = units[i].el_hi
        OBVIOUS
      <4>2. Arcs(rows) = UNION {<<units[i].el_lo, units[i].el_hi>>[1]..(<<units[i].el_lo, units[i].el_hi>>[2] - 1)
                                  : i \in DOMAIN units}
        BY Zenon DEF Arcs
      <4> QED  BY <4>1, <4>2
    <3>2. ASSUME NEW i \in DOMAIN units
          PROVE  \A e : e \in units[i].el_lo..(units[i].el_hi - 1)
                        <=> e \in -Circle..Circle /\ units[i].el_lo <= e /\ e + 1 <= units[i].el_hi
      <4>1. PICK lo \in -Circle..Circle, hi \in -Circle..Circle : lo = units[i].el_lo /\ hi = units[i].el_hi
        BY <1>1, <1>4
      <4> QED  BY <1>1, <1>4, <4>1
    <3> HIDE DEF rows
    <3> QED  BY <3>1, <3>2
  <2> QED  BY <2>2, <2>3
<1>5. PictureInv => CoverageCountedOnce
  BY <1>2, <1>3, <1>4 DEF CoverageCountedOnce
<1>6. PictureInit => PictureInv
  BY PictureInitInv
<1>7. PictureInv /\ [PictureNext]_pictureVars => PictureInv'
  BY PictureStep
<1> QED
  BY <1>5, <1>6, <1>7, PTL DEF PictureSpec
=============================================================================
