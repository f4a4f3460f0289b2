SPECIFICATION Spec
CONSTANTS
  Consumer = {c1}
  TelemetryPartition = {p1, p2}
  TripPartition = {e1}
  BatchSize = 2
  FromBeginning = TRUE
  MaxRecords = 2
  MaxFaults = 0
  MaxStops = 1
  None = None
SYMMETRY Symmetry
INVARIANTS
  TripEventsInOrder
CHECK_DEADLOCK FALSE
