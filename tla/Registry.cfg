\* Two processes at once, one fault, one request.
CONSTANTS
  Version = {1, 2}
  Kinds = {"cli", "weekly", "activation"}
  Reader = {r1}
  Score = {1}
  Baseline = 2
  MaxProcesses = 2
  MaxActive = 2
  MaxFaults = 1
  None = None
SPECIFICATION Spec
INVARIANTS
  CacheIsCurrent
  TrainingDoesNotInterrupt
  StoresFollowPointer
CHECK_DEADLOCK FALSE
