------------------------- MODULE ObservationContract -------------------------
(***************************************************************************)
(* What a sensor stream promises its consumer, whatever its latency,       *)
(* dropout and overflow configuration                                      *)
(* (docs/physical_ai/sensor_contract.md, "Time and sequence" and "Envelope *)
(* and health sidecar").  Acquisition attempts are numbered from zero;     *)
(* each is pending, delivered or lost, delivered at most once and never    *)
(* after it was lost; the first delivery after a loss, and no other, says  *)
(* so.                                                                     *)
(***************************************************************************)
EXTENDS Naturals, Sequences

VARIABLES
  attempts,    \* acquisition attempts of the episode so far
  pending,     \* numbers of the attempts that may still be delivered
  lost,        \* how many attempts were lost
  unreported,  \* TRUE: a loss has not been announced yet
  delivered    \* the deliveries, in the order the consumer sees them

cvars == <<attempts, pending, lost, unreported, delivered>>

Init ==
  /\ attempts = 0
  /\ pending = {}
  /\ lost = 0
  /\ unreported = FALSE
  /\ delivered = <<>>

\* The attempt is kept.
Keep ==
  /\ pending' = pending \cup {attempts}
  /\ UNCHANGED <<lost, unreported>>

\* The attempt itself, or an older one in its favour, is lost.
Lose ==
  /\ \E gone \in pending \cup {attempts} :
       pending' = (pending \cup {attempts}) \ {gone}
  /\ lost' = lost + 1
  /\ unreported' = TRUE

Attempt ==
  /\ attempts' = attempts + 1
  /\ Keep \/ Lose
  /\ UNCHANGED delivered

\* A batch of pending attempts, in any order but none of them twice.
Deliver ==
  \E n \in 1..attempts :
    \E batch \in [1..n -> pending] :
      /\ \A i, j \in 1..n : i # j => batch[i] # batch[j]
      /\ pending' = pending \ {batch[i] : i \in 1..n}
      /\ delivered' = delivered \o
           [i \in 1..n |-> [sequence |-> batch[i],
                            afterLoss |-> i = 1 /\ unreported]]
      /\ unreported' = FALSE
      /\ UNCHANGED <<attempts, lost>>

\* A new episode forgets everything.
Restart ==
  /\ attempts' = 0
  /\ pending' = {}
  /\ lost' = 0
  /\ unreported' = FALSE
  /\ delivered' = <<>>

Next == Attempt \/ Deliver \/ Restart

Spec == Init /\ [][Next]_cvars
=============================================================================
