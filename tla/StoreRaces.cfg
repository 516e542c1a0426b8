SPECIFICATION Spec
CONSTANTS
  j1 = j1
  j2 = j2
  j3 = j3
  j4 = j4
  w1 = w1
  w2 = w2
  NoWorker = NoWorker
  Jobs <- AllJobs
  RequestOf <- MCRequestOf
  Sessions = {"s1", "s2"}
  Calls = {"c1", "c2"}
  Agents = {"researcher"}
  Workers <- MCWorkers
  RetrySafe = {"researcher"}
  MaxPending = 1
  MaxQueued = 1
  LeaseTime = 1
  Retention = 0
SYMMETRY StoreSymmetry
INVARIANTS
  PendingWithinLimit
  OutboxTellsTheOutcome
PROPERTIES
  CallsKeepTheirJob
  ValidLeaseIsExclusive
  ImplementsLifecycle
