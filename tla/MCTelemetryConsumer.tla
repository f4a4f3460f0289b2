------------------------- MODULE MCTelemetryConsumer -------------------------
(* Small instances of TelemetryConsumer for TLC.                            *)
EXTENDS TelemetryConsumer, TLC

Symmetry == Permutations(Consumer) \cup Permutations(TelemetryPartition)

=============================================================================
