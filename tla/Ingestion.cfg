SPECIFICATION Spec
CONSTANTS
  zone = zone
  block = block
  sample = sample
  None = None
  Event <- MCEvent
  Endpoint = {1, 2}
  Home <- MCHome
  Road <- MCRoad
  Polled = {"A1"}
  SampleEvents = {sample}
  Station = {1, 2}
  SampleStations = {1}
  Corridor = {3}
  Policies = {"live", "auto", "fixture"}
  Overlapping = {"register", "routes"}
  MaxRuns <- MCMaxRuns
  MaxActive = 2
  MaxChanges = 2
  MaxFaults = 1
CHECK_DEADLOCK FALSE
INVARIANTS RunRowsUnderclaim EventsFollowSources RegisterIsConsistent ChildrenMatchParent
