SPECIFICATION Spec
CONSTANTS
  Consumer = {c1}
  TelemetryPartition = {p1}
  TripPartition = {e1}
  BatchSize = 2
  FromBeginning = TRUE
  MaxRecords = 2
  MaxFaults = 0
  MaxStops = 0
  None = None
INVARIANT
  CommittedIsSettled
CHECK_DEADLOCK FALSE
