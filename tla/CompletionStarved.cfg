SPECIFICATION FairSpec
CONSTANTS
  N = 2
  Mode <- ResumeThenNotify
  Window = 1
  MaxAttempts = 1
  MaxRetries = 2
  Orphans = {1}
  Homeless = {}
  Endings = {"recorded", "rolled", "limit"}
  MaxCrashes = 0
  MaxFailures = 0
CHECK_DEADLOCK FALSE
PROPERTIES
  HealthyOutcomesAreRouted
