---------------------------- MODULE FlightCommand ----------------------------
(***************************************************************************)
(* fly_to and cancel_move of daa_common.py: a leg is commanded, waited     *)
(* for, measured, and cancelled before it is commanded again.  The client  *)
(* and the drone service share one command record (drone_cmd_move), which  *)
(* either of them overwrites whole.                                        *)
(*                                                                         *)
(* The service is external and modelled as the comments of cancel_move and *)
(* its polls require: it takes a move only while it hovers, leaves MOVING  *)
(* when it judges the move complete, possibly never, or when it sees the   *)
(* request withdrawn, and writes result either time.  moveToPosition is    *)
(* hakosim's and waits for the result in the same way.  A wait may time    *)
(* out at any point.                                                       *)
(***************************************************************************)
EXTENDS Naturals

CONSTANTS Retries, MaxLegs  \* the argument of fly_to; bound: legs flown

ASSUME FlightAssumption == Retries \in Nat /\ MaxLegs \in Nat

VARIABLES
  record,    \* the command: its request and result flags
  service,   \* the state of the drone service
  near,      \* the aircraft is within tol of the leg's target
  client,    \* where fly_to is
  attempts, cancels, ok,  \* locals of fly_to
  acked,     \* ghost: the latest cancel_move returned True
  flight,    \* the latest Flight that was returned
  legs       \* legs begun

flightVars == <<record, service, near, client, attempts, cancels, ok, acked, flight, legs>>
clientVars == <<client, attempts, cancels, ok, acked, flight, legs>>

Written(request, result) == [request |-> request, result |-> result]
Consumed == record' = [record EXCEPT !.result = 0]
-----------------------------------------------------------------------------
\* The service.
ServiceAccept ==
  /\ service = "HOVERING" /\ record.request = 1
  /\ service' = "MOVING"
  /\ UNCHANGED <<record, near, clientVars>>

ServiceComplete ==
  /\ service = "MOVING"
  /\ service' = "HOVERING"
  /\ record' = Written(0, 1)
  /\ UNCHANGED <<near, clientVars>>

ServiceCancel ==
  /\ service = "MOVING" /\ record.request = 0
  /\ service' = "HOVERING"
  /\ record' = [record EXCEPT !.result = 1]
  /\ UNCHANGED <<near, clientVars>>

\* Only an aircraft that moves gets nearer or farther.
Fly ==
  /\ service = "MOVING"
  /\ near' = ~near
  /\ UNCHANGED <<record, service, clientVars>>
-----------------------------------------------------------------------------
\* fly_to for a new target.
Begin ==
  /\ client = "idle" /\ legs < MaxLegs
  /\ client' = "command"
  /\ attempts' = 0 /\ cancels' = 0 /\ ok' = FALSE /\ acked' = FALSE
  /\ legs' = legs + 1
  /\ near' \in BOOLEAN
  /\ UNCHANGED <<record, service, flight>>

\* moveToPosition writes the command ...
Command ==
  /\ client = "command"
  /\ record' = Written(1, 0)
  /\ attempts' = attempts + 1
  /\ client' = "wait"
  /\ UNCHANGED <<service, near, cancels, ok, acked, flight, legs>>

\* ... and returns True on a result, whichever command that is of, ...
MoveClaimed ==
  /\ client = "wait" /\ record.result = 1
  /\ Consumed
  /\ ok' = TRUE
  /\ client' = "measure"
  /\ UNCHANGED <<service, near, attempts, cancels, acked, flight, legs>>

\* ... or False after its time.
MoveTimesOut ==
  /\ client = "wait"
  /\ ok' = FALSE
  /\ client' = "measure"
  /\ UNCHANGED <<record, service, near, attempts, cancels, acked, flight, legs>>

\* The true position decides whether the loop ends; it may not be readable.
Measure ==
  /\ client = "measure"
  /\ \E readable \in BOOLEAN :
       client' = IF attempts > Retries \/ (readable /\ near) THEN "report" ELSE "cancel"
  /\ UNCHANGED <<record, service, near, attempts, cancels, ok, acked, flight, legs>>

\* cancel_move withdraws the request and takes back any result.
CancelWrite ==
  /\ client = "cancel"
  /\ record' = Written(0, 0)
  /\ client' = "cancelling"
  /\ UNCHANGED <<service, near, attempts, cancels, ok, acked, flight, legs>>

\* A variant that takes the record written back for the acknowledgement.
CancelAckedEarly ==
  /\ client = "cancelling" /\ record.request = 0
  /\ Consumed
  /\ cancels' = cancels + 1 /\ acked' = TRUE
  /\ client' = "command"
  /\ UNCHANGED <<service, near, attempts, ok, flight, legs>>

CancelAcked ==
  /\ client = "cancelling" /\ record.result = 1
  /\ Consumed
  /\ cancels' = cancels + 1 /\ acked' = TRUE
  /\ client' = "command"
  /\ UNCHANGED <<service, near, attempts, ok, flight, legs>>

\* A variant that waits for the acknowledgement as long as it takes.
CancelFailsNever ==
  /\ client = "cancel" /\ acked' = FALSE
  /\ client' = "command"
  /\ UNCHANGED <<record, service, near, attempts, cancels, ok, flight, legs>>

\* The record cannot be written, or no result comes within timeout_s: the leg is
\* commanded again all the same.
CancelFails ==
  /\ client \in {"cancel", "cancelling"}
  /\ acked' = FALSE
  /\ client' = "command"
  /\ UNCHANGED <<record, service, near, attempts, cancels, ok, flight, legs>>

\* The position is read once more for the answer.
Report ==
  /\ client = "report"
  /\ \E readable \in BOOLEAN :
       flight' = [ok |-> ok, arrived |-> readable /\ near,
                  attempts |-> attempts, cancels |-> cancels]
  /\ client' = "idle"
  /\ UNCHANGED <<record, service, near, attempts, cancels, ok, acked, legs>>
-----------------------------------------------------------------------------
NoFlight == [ok |-> FALSE, arrived |-> FALSE, attempts |-> 0, cancels |-> 0]

FlightInit ==
  /\ record = Written(0, 0) /\ service = "HOVERING" /\ near = FALSE
  /\ client = "idle" /\ attempts = 0 /\ cancels = 0 /\ ok = FALSE /\ acked = FALSE
  /\ flight = NoFlight /\ legs = 0

Client ==
  \/ Command \/ MoveClaimed \/ MoveTimesOut \/ Measure
  \/ CancelWrite \/ CancelAcked \/ CancelFails \/ Report

FlightNext ==
  \/ ServiceAccept \/ ServiceComplete \/ ServiceCancel \/ Fly
  \/ Begin \/ Client

\* The thread that flies is scheduled, and the time of its waits passes.
FlightSpec == FlightInit /\ [][FlightNext]_flightVars /\ WF_flightVars(Client)
-----------------------------------------------------------------------------
(***************************************************************************)
(* cancel_move: "Returns True once the cancel is acknowledged".  Whatever  *)
(* results are late, a leg that is commanded after an acknowledged cancel  *)
(* finds the service hovering, so that it is not dropped without a word.   *)
(***************************************************************************)
CancelledRetryAccepted == client = "command" /\ acked => service = "HOVERING"

(***************************************************************************)
(* fly_to always answers: the service acknowledges neither a cancel it     *)
(* gets while it hovers nor a move it gets while it moves, so no wait may  *)
(* depend on an answer.                                                    *)
(***************************************************************************)
FlightEnds == client # "idle" ~> client = "idle"
=============================================================================
