SPECIFICATION FairSpec
CONSTANTS
  Consumer = {c1, c2}
  TelemetryPartition = {p1}
  TripPartition = {}
  BatchSize = 2
  FromBeginning = TRUE
  MaxRecords = 2
  MaxFaults = 1
  MaxStops = 1
  None = None
INVARIANTS
  TypeOK
  CommittedIsSettled
  NothingSkipped
  StoredOnceWithoutFaults
PROPERTIES
  DeliversAtLeastOnce
  EventuallySettled
CHECK_DEADLOCK FALSE
