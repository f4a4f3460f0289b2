CONSTANTS
  Unknown = Unknown
  Bin = 2
  Worlds <- MCWorlds
  Pack = 200
  Critical = 8
  Retry = 20
  Separation = 2
  StepsPerTick = 2
  MaxHalt = 1
  MaxDwell = 2
SPECIFICATION FairVehicleSpec
INVARIANTS
  CorridorIsFaithful
  JourneyAddsUp
  RescueIsTheLastChance
PROPERTY
  TripsFinish
CHECK_DEADLOCK FALSE
