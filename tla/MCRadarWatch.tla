---------------------------- MODULE MCRadarWatch ----------------------------
(***************************************************************************)
(* Small instances of RadarWatch for TLC.                                  *)
(***************************************************************************)
EXTENDS RadarWatch, TLC

CONSTANTS r1, r2

\* The properties treat the radars alike.
RadarSymmetry == Permutations({r1, r2})

\* A channel that counts as unreadable is not read again.
Live(u, x) == IF u \in unreadable THEN Never ELSE x

\* With SameScene = FALSE a frame is never repeated, so of the frame numbers
\* only what the watch compares matters.  The time of the last change is then
\* overwritten by the read of a new frame, a publication older than the timeout
\* is just old, and so is a start two polls and a frame ago; nothing reads the
\* two histories.
Change(u) == IF channel[u] = lastHash[u] THEN Live(u, lastChange[u]) ELSE Never
Recent(u) == Later(published[u], now - Timeout)
Young(u) == Later(started[u], now - 2 * PollGap - Period - 1)

RadarView ==
  <<now, alive, pollTime, unread, isStale, failures, shared, pc, asked,
    [u \in Units |-> <<Recent(u), Young(u), Change(u)>>],
    {u \in Units \ unreadable : channel[u] = lastHash[u]},
    {u \in Units \ unreadable : channel[u] = 0}>>

\* Nothing reads stale_since.
OneRadarView ==
  <<now, alive, started, published, pollTime, unread, failures, shared, freshSince, pc, asked,
    [u \in Units |-> <<Live(u, scans[u]), Live(u, channel[u]), Live(u, lastHash[u]),
                       Live(u, lastChange[u])>>],
    {u \in Units \ unreadable : isStale[u]}>>
=============================================================================
