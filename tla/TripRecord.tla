------------------------------ MODULE TripRecord ------------------------------
(***************************************************************************)
(* What the trips table promises about a trip: its row is opened once, its *)
(* distance never goes back, and once the trip is closed the row is final. *)
(***************************************************************************)
EXTENDS Naturals

CONSTANT Trip

VARIABLES
  phase,     \* "absent", "open" or "closed"
  distance

vars == <<phase, distance>>

Init ==
  /\ phase    = [t \in Trip |-> "absent"]
  /\ distance = [t \in Trip |-> 0]

Open(S) ==
  /\ \A t \in S : phase[t] = "absent"
  /\ phase' = [t \in Trip |-> IF t \in S THEN "open" ELSE phase[t]]
  /\ UNCHANGED distance

\* Some open trips have moved on.
Progress ==
  /\ distance' \in [Trip -> Nat]
  /\ \A t \in Trip : /\ distance'[t] >= distance[t]
                     /\ distance'[t] # distance[t] => phase[t] = "open"
  /\ UNCHANGED phase

Close(t) ==
  /\ phase[t] = "open"
  /\ phase' = [phase EXCEPT ![t] = "closed"]
  /\ distance' = [distance EXCEPT ![t] = distance'[t]]
  /\ distance'[t] >= distance[t]

Next ==
  \/ \E S \in SUBSET Trip : Open(S)
  \/ Progress
  \/ \E t \in Trip : Close(t)

Spec == Init /\ [][Next]_vars

=============================================================================
