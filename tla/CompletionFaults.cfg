SPECIFICATION FairSpec
CONSTANTS
  N = 3
  Mode <- OrphanFirst
  Window = 2
  MaxAttempts = 2
  MaxRetries = 2
  Orphans = {1}
  Homeless = {3}
  Endings = {"recorded", "rolled", "limit"}
  MaxCrashes = 1
  MaxFailures = 1
CHECK_DEADLOCK FALSE
INVARIANTS
  ParentToldOnce
  RepliesRepeatForACause
PROPERTIES
  ParentRunsAgainForACause
  EveryOutcomeSettles
