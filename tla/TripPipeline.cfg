SPECIFICATION Spec
CONSTANTS
  Vehicle = {v1}
  Corridor = 2
  BatchSize = 2
  Transports = {"kafka", "database"}
  MaxTrips = 2
  MaxTicks = 3
  MaxFaults = 1
  None = None
INVARIANTS
  DrainedTripsAreExact
  LossesAreCounted
  DirectSinkIsCurrent
PROPERTY
  KeepsTripRecord
CHECK_DEADLOCK FALSE
