SPECIFICATION Spec
CONSTANTS
  N = 3
  Mode <- OneOfEach
  Window = 2
  MaxAttempts = 2
  MaxRetries = 2
  Orphans = {}
  Homeless = {}
  Endings = {"recorded", "rolled", "limit"}
  MaxCrashes = 2
  MaxFailures = 2
CHECK_DEADLOCK FALSE
INVARIANTS
  TypeOK
  ConsumedAfterTurn
  ParentToldOnce
  RepliesRepeatForACause
PROPERTIES
  ParentRunsAgainForACause
  FileOutlivesCrash
