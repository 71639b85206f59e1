----------------------------- MODULE RadarWatch -----------------------------
(***************************************************************************)
(* Is a radar still producing?  StaleWatch, FitWatch and WatchThread of    *)
(* drone_daasim/daa_common.py over the channels a sensor bridge writes.    *)
(* A channel keeps the last frame for ever, so the watch judges a radar by *)
(* whether its content changes.  What distinguishes two frames of a still  *)
(* scene is the stamp, which a sensor counts from its own start: frames    *)
(* are numbers here, and SameScene says whether a restarted sensor repeats *)
(* those of its predecessor.  A read may raise: a RuntimeError puts the    *)
(* channel among the missing ones, which are never read again, and any     *)
(* other exception ends the poll.                                          *)
(*                                                                         *)
(* Three parties run at once: the sensor processes (they publish, die and  *)
(* are started again), the watch thread, which reads one channel after the *)
(* other and then stores its two tuples one after the other, and the       *)
(* command loop, which scans the same channels and reads the two tuples    *)
(* one after the other.                                                    *)
(***************************************************************************)
EXTENDS Integers, FiniteSets

CONSTANTS
  Units,    \* the radars of the fit
  Timeout,  \* timeout_s
  Period,   \* a running sensor publishes at least this often
  PollGap,  \* the watch thread starts a poll at least this often
  SameScene, \* a restarted sensor sees what its predecessor saw
  FaultTimes, \* bound: the instants at which a read may raise
  MaxTime   \* bound: the last instant of the run

ASSUME WatchAssumption ==
  /\ Units # {} /\ IsFiniteSet(Units)
  /\ Timeout \in Nat \ {0}
  /\ Period \in Nat \ {0}
  /\ PollGap \in Nat \ {0}
  /\ SameScene \in BOOLEAN
  /\ FaultTimes \subseteq Nat
  /\ MaxTime \in Nat

Never == -1

VARIABLES
  now,         \* the wall clock
  alive,       \* the sensor processes that run
  scans,       \* the number of the latest frame of each sensor
  channel,     \* the frame in each channel, 0 when nothing was written
  published,   \* ghost: when each unit last published
  started,     \* ghost: when each sensor process was last started
  pollTime,    \* the t the current or latest poll was given
  unread,      \* the units the poll has still to read
  lastHash,    \* _last_hash of each unit, 0 for None
  lastChange,  \* _last_change of each unit, Never for None
  isStale,     \* StaleWatch.stale of each unit
  unreadable,  \* the units whose channel is in _missing_channels
  gaveUp,      \* ghost: the t of the latest poll that an exception ended
  fresh,       \* FitWatch.fresh
  stale,       \* FitWatch.stale
  staleSince,  \* WatchThread.stale_since, Never for None
  freshSince,  \* WatchThread.fresh_since, Never for None
  pc,          \* where the watch thread is
  asked        \* what the command loop has read of stale, if it is asking

sensorVars == <<alive, scans, channel, published, started>>
judgement  == <<lastHash, lastChange, isStale>>
failures   == <<unreadable, gaveUp>>
shared     == <<fresh, stale>>
history    == <<staleSince, freshSince>>
vars == <<now, sensorVars, pollTime, unread, judgement, failures, shared, history, pc, asked>>
-----------------------------------------------------------------------------
\* A sensor scans and its bridge writes the frame.
Publish(u) ==
  /\ u \in alive
  /\ published[u] < now /\ started[u] < now
  /\ scans' = [scans EXCEPT ![u] = @ + 1]
  /\ channel' = [channel EXCEPT ![u] = scans'[u]]
  /\ published' = [published EXCEPT ![u] = now]
  /\ UNCHANGED <<now, alive, started, pollTime, unread, judgement, failures,
                 shared, history, pc, asked>>

Die(u) ==
  /\ u \in alive
  /\ alive' = alive \ {u}
  /\ UNCHANGED <<now, scans, channel, published, started, pollTime, unread,
                 judgement, failures, shared, history, pc, asked>>

\* A new process counts its stamps from zero and finds the old frame in place;
\* unless the scene is the one before, its frames differ from the old ones.
Restart(u) ==
  /\ u \notin alive
  /\ alive' = alive \cup {u}
  /\ scans' = IF SameScene THEN [scans EXCEPT ![u] = 0] ELSE scans
  /\ started' = [started EXCEPT ![u] = now]
  /\ UNCHANGED <<now, channel, published, pollTime, unread, judgement, failures,
                 shared, history, pc, asked>>

\* Time passes, but nobody who runs is late.
Tick ==
  /\ now < MaxTime
  /\ \A u \in alive : now < published[u] + Period \/ now < started[u] + Period
  /\ now < pollTime + PollGap
  /\ now' = now + 1
  /\ UNCHANGED <<sensorVars, pollTime, unread, judgement, failures, shared, history, pc,
                 asked>>

\* The end of the run that is looked at.
Horizon == now = MaxTime /\ UNCHANGED vars
-----------------------------------------------------------------------------
PollBegin ==
  /\ pc = "sleep"
  /\ pollTime < now
  /\ pollTime' = now
  /\ unread' = Units
  /\ pc' = "read"
  /\ UNCHANGED <<now, sensorVars, judgement, failures, shared, history, asked>>

\* A variant that stays stale once it is.
SeesChangeLatched(u) ==
  /\ u \notin unreadable /\ channel[u] # 0 /\ channel[u] # lastHash[u]
  /\ lastHash' = [lastHash EXCEPT ![u] = channel[u]]
  /\ lastChange' = [lastChange EXCEPT ![u] = pollTime]
  /\ UNCHANGED <<isStale, unreadable>>

\* StaleWatch.update, a frame with another stamp than the one before.
SeesChange(u) ==
  /\ u \notin unreadable /\ channel[u] # 0 /\ channel[u] # lastHash[u]
  /\ lastHash' = [lastHash EXCEPT ![u] = channel[u]]
  /\ lastChange' = [lastChange EXCEPT ![u] = pollTime]
  /\ isStale' = [isStale EXCEPT ![u] = FALSE]
  /\ UNCHANGED unreadable

\* A variant that restarts the age whenever it looks.
SeesSameRestarts(u) ==
  /\ u \notin unreadable /\ channel[u] # 0 /\ channel[u] = lastHash[u]
  /\ isStale' = [isStale EXCEPT ![u] = @ \/ pollTime - lastChange[u] >= Timeout]
  /\ lastChange' = [lastChange EXCEPT ![u] = pollTime]
  /\ UNCHANGED <<lastHash, unreadable>>

\* StaleWatch.update, the same frame: stale once it has been there long enough.
SeesSame(u) ==
  /\ u \notin unreadable /\ channel[u] # 0 /\ channel[u] = lastHash[u]
  /\ isStale' = [isStale EXCEPT ![u] = @ \/ pollTime - lastChange[u] >= Timeout]
  /\ UNCHANGED <<lastHash, lastChange, unreadable>>

\* StaleWatch.update without a fingerprint: nothing written yet, or a channel
\* that could not be read once.  The verdict stays what it was.
SeesNothing(u) == (u \in unreadable \/ channel[u] = 0) /\ UNCHANGED <<judgement, unreadable>>

\* _read_channel, a RuntimeError: the channel counts as unreadable from now on.
ReadFails(u) ==
  /\ u \notin unreadable /\ now \in FaultTimes
  /\ unreadable' = unreadable \cup {u}
  /\ UNCHANGED judgement

PollUnit(u) ==
  /\ pc = "read" /\ u \in unread
  /\ SeesChange(u) \/ SeesSame(u) \/ SeesNothing(u) \/ ReadFails(u)
  /\ unread' = unread \ {u}
  /\ UNCHANGED <<now, sensorVars, pollTime, gaveUp, shared, history, pc, asked>>

\* WatchThread.run, any other exception of the poll: the watches already
\* updated stay so, neither tuple is stored and nothing is noted.
PollFails ==
  /\ pc = "read" /\ now \in FaultTimes
  /\ unread' = {}
  /\ gaveUp' = pollTime
  /\ pc' = "sleep"
  /\ UNCHANGED <<now, sensorVars, pollTime, judgement, unreadable, shared, history, asked>>

\* self.fresh, self.stale = ...: two stores, fresh first.
StoreFresh ==
  /\ pc = "read" /\ unread = {}
  /\ fresh' = {u \in Units : ~isStale[u]}
  /\ pc' = "store"
  /\ UNCHANGED <<now, sensorVars, pollTime, unread, judgement, failures, stale, history,
                 asked>>

StoreStale ==
  /\ pc = "store"
  /\ stale' = {u \in Units : isStale[u]}
  /\ pc' = "note"
  /\ UNCHANGED <<now, sensorVars, pollTime, unread, judgement, failures, fresh, history,
                 asked>>

\* A variant that moves fresh_since with every poll.
NoteAlways ==
  /\ pc = "note"
  /\ staleSince' = IF stale # {} /\ staleSince = Never THEN now ELSE staleSince
  /\ freshSince' = now
  /\ pc' = "sleep"
  /\ UNCHANGED <<now, sensorVars, pollTime, unread, judgement, failures, shared, asked>>

\* WatchThread.run after a poll: stale_since is set once, fresh_since each time.
Note ==
  /\ pc = "note"
  /\ staleSince' = IF stale # {} /\ staleSince = Never THEN now ELSE staleSince
  /\ freshSince' = IF stale = {} THEN now ELSE freshSince
  /\ pc' = "sleep"
  /\ UNCHANGED <<now, sensorVars, pollTime, unread, judgement, failures, shared, asked>>
-----------------------------------------------------------------------------
\* The command loop scans and its read of a channel raises: both threads share
\* _missing_channels.
ScanFails(u) ==
  /\ u \notin unreadable /\ now \in FaultTimes
  /\ unreadable' = unreadable \cup {u}
  /\ UNCHANGED <<now, sensorVars, pollTime, unread, judgement, gaveUp, shared, history,
                 pc, asked>>

\* The command loop asks whether the aircraft is blind or degraded: it reads
\* stale, and then fresh if stale was not empty.
AskStale ==
  /\ asked = "idle"
  /\ asked' = IF stale # {} THEN "some" ELSE "none"
  /\ UNCHANGED <<now, sensorVars, pollTime, unread, judgement, failures, shared, history,
                 pc>>

AskFresh ==
  /\ asked # "idle"
  /\ asked' = "idle"
  /\ UNCHANGED <<now, sensorVars, pollTime, unread, judgement, failures, shared, history,
                 pc>>

\* The answers it gets when it reads fresh now (the first, a variant).
BlindIfAnyStale == asked = "some"
Blind == asked = "some" /\ fresh = {}
Degraded == asked = "some" /\ fresh # {}

Init ==
  /\ now = 0
  /\ alive \in SUBSET Units
  /\ scans = [u \in Units |-> 0]
  /\ channel = [u \in Units |-> 0]
  /\ published = [u \in Units |-> 0]
  /\ started = [u \in Units |-> 0]
  /\ pollTime = Never
  /\ unread = {}
  /\ lastHash = [u \in Units |-> 0]
  /\ lastChange = [u \in Units |-> Never]
  /\ isStale = [u \in Units |-> FALSE]
  /\ unreadable = {} /\ gaveUp = Never
  /\ fresh = {} /\ stale = {}
  /\ staleSince = Never /\ freshSince = Never
  /\ pc = "sleep"
  /\ asked = "idle"

Next ==
  \/ \E u \in Units : Publish(u) \/ Die(u) \/ Restart(u) \/ PollUnit(u) \/ ScanFails(u)
  \/ PollBegin \/ PollFails \/ StoreFresh \/ StoreStale \/ Note
  \/ AskStale \/ AskFresh
  \/ Tick \/ Horizon

Spec == Init /\ [][Next]_vars
-----------------------------------------------------------------------------
\* The later of two times.
Later(a, b) == IF a > b THEN a ELSE b

\* How long a radar has published nothing while the watch completed its polls.
Silence(u) == now - Later(published[u], gaveUp)

(***************************************************************************)
(* A radar that has stopped is reported by the watch thread no later than  *)
(* three polls after the timeout, whatever the sensors and the thread do   *)
(* in between, counted anew from a poll that an exception ends, and unless *)
(* a read of its channel has raised before.                                *)
(***************************************************************************)
DeadIsReported ==
  \A u \in Units \ unreadable :
    channel[u] # 0 /\ Silence(u) >= Timeout + 3 * PollGap => u \in stale

(***************************************************************************)
(* A radar that publishes in time is never reported, and one that has come *)
(* back is taken off the list again: with a timeout longer than the frame  *)
(* interval and the poll, nothing that can be read and has run for two     *)
(* frames and four polls, none of them ended by an exception, is on it.    *)
(* One frame is not enough: the first of a restarted sensor may be the one *)
(* the watch holds, which it takes for silence.                            *)
(***************************************************************************)
LiveIsFresh ==
  Timeout > Period + PollGap =>
    \A u \in alive \ unreadable :
      now - Later(started[u], gaveUp) > 2 * Period + 4 * PollGap => u \notin stale

\* A step that declares a radar stale does so only after it has really
\* published nothing for the timeout, less the time a poll takes from its t to
\* its read.
StaleAfterSilence ==
  \A u \in Units : ~isStale[u] /\ isStale'[u] => now - published[u] >= Timeout - PollGap

\* "Blind" is never said of an aircraft that can see: when the command loop
\* gets that answer, every radar whose channel can be read has published
\* nothing for the timeout less a poll, or has been started so recently that
\* the poll the answer comes from could not have seen a frame of it (for a
\* timeout longer than the frame interval and the poll).  The answer is older
\* when an exception has just ended a poll.
BlindAfterSilence ==
  asked' # asked /\ Blind /\ Timeout > Period + PollGap
    => \/ gaveUp # Never /\ gaveUp >= pollTime - PollGap
       \/ \A u \in Units \ unreadable : \/ now - published[u] >= Timeout - PollGap
                                      \/ started[u] >= pollTime - PollGap - Period

(***************************************************************************)
(* Neither verdict on a radar is ever invented, as long as a restarted     *)
(* sensor does not repeat its frames: no step declares a radar stale that  *)
(* has published in time, and none tells the command loop that the         *)
(* aircraft is blind while a radar that can be read sees, however the two  *)
(* tuples are stored and read.                                             *)
(***************************************************************************)
VerdictIsReal == [][~SameScene => StaleAfterSilence /\ BlindAfterSilence]_vars

(***************************************************************************)
(* fresh_since, by which a recovery is judged, never moves while a radar   *)
(* that can be read and has produced before has been silent for the        *)
(* timeout and two completed polls.                                        *)
(***************************************************************************)
RecoveryIsReal ==
  [][freshSince' # freshSince
       => \A u \in Units \ unreadable :
            channel[u] # 0 => Silence(u) < Timeout + 2 * PollGap]_vars

(***************************************************************************)
(* daa_common.py, FitWatch.degraded: "Some radars lost, some still         *)
(* working."  A fit of one radar can never be in that state.               *)
(***************************************************************************)
DegradedHasBoth == Degraded => Cardinality(Units) > 1
=============================================================================
