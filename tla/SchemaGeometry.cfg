CONSTANTS
  Unknown = Unknown
  Refused = Refused
  BoxPadding = 1
  Usable = 10000
  Peak = 150
  Capacity = 60
  Detouring = 1
  Grid = {60, 70, 80, 90}
  BeamWidth = 8
  MaxSites = 3
  Car = {1, 2}
  Boxes = {TRUE, FALSE}
  MaxTime = 3
  MaxLosses = 1
  Nowhere = Nowhere
  Ratio <- MCRatio
  MaxRows = 20
  Longest = 3
  MaxMigrations = 5
  MaxDeletions = 2
  Caller = {c1, c2}
  Document = {"d"}
  Bundled = {}
  MaxAttempts = 2
  Interval = 2
  MaxWait = 2
  Failures = {"timeout", "limited"}
  RetryAfter = {3}
  MemoTime = 2
  MaxNow = 2
  MaxEditions = 2
  Unreported = Unreported
  Absent = Absent
  MaxCommands = 2
  MaxViolations = 3
  MaxStored = 2
  MaxShown = 1
  StrictMinRows = 2
  Nothing = Nothing
  LakeRun = {1, 2}
  PartRows = 2
  LakeDocs <- MCLakeDocs
  Overlap = FALSE
  Mixes <- MCMixes
  FleetSizes = {2, 7}
  Removable = {"van_ev"}
  MaxRuns = 2
  MaxSeeds = 2
  Tasks <- MCDatabase
  Pending = Pending
SPECIFICATION Spec
INVARIANT TablesTakeEveryRow
CHECK_DEADLOCK FALSE
