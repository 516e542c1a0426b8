SPECIFICATION Spec
CONSTANTS
  N = 2
  Mode <- ResumeThenNotify
  Window = 2
  MaxAttempts = 2
  MaxRetries = 2
  Orphans = {}
  Homeless = {}
  Endings = {"recorded", "rolled", "limit"}
  MaxCrashes = 1
  MaxFailures = 0
CHECK_DEADLOCK FALSE
INVARIANTS
  NotificationIsNotLost
