SPECIFICATION Spec
CONSTANTS
  N = 1
  Mode <- ResumeThenNotify
  Window = 2
  MaxAttempts = 3
  MaxRetries = 2
  Orphans = {}
  Homeless = {}
  Endings = {"recorded", "rolled", "limit"}
  MaxCrashes = 1
  MaxFailures = 0
CHECK_DEADLOCK FALSE
INVARIANTS
  TurnSeesTheResult
