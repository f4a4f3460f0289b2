SPECIFICATION Spec
CONSTANTS
  Vehicle = {v1}
  Corridor = 2
  BatchSize = 2
  Transports = {"database"}
  MaxTrips = 2
  MaxTicks = 3
  MaxFaults = 0
  None = None
CHECK_DEADLOCK FALSE
INVARIANT
  StoppedFleetIsHalted
