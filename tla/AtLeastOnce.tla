----------------------------- MODULE AtLeastOnce -----------------------------
(***************************************************************************)
(* What the streaming service promises about the event log ("at-least-once,*)
(* never at-most-once"): a published record is settled -- stored, applied  *)
(* or rejected for good -- before the group gives up the right to read it  *)
(* again, and neither fact is ever taken back.                             *)
(***************************************************************************)
CONSTANT Record

VARIABLES
  published,     \* records in the log
  settled,       \* records nobody needs to read again
  acknowledged   \* records the group will never be given again

vars == <<published, settled, acknowledged>>

Init ==
  /\ published    = {}
  /\ settled      = {}
  /\ acknowledged = {}

Publish(S) ==
  /\ S \subseteq Record
  /\ published' = published \cup S
  /\ UNCHANGED <<settled, acknowledged>>

\* A record may be settled again: redelivery is allowed.
Settle(S) ==
  /\ S \subseteq published
  /\ settled' = settled \cup S
  /\ UNCHANGED <<published, acknowledged>>

Acknowledge(S) ==
  /\ S \subseteq settled
  /\ acknowledged' = acknowledged \cup S
  /\ UNCHANGED <<published, settled>>

\* Each step names the set it adds.
Next ==
  \/ Publish(published' \ published)
  \/ Settle(settled' \ settled)
  \/ Acknowledge(acknowledged' \ acknowledged)

Spec == Init /\ [][Next]_vars

\* Only settled records are given up, and only published ones are settled.
Safe == acknowledged \subseteq settled /\ settled \subseteq published

=============================================================================
