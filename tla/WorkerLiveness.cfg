SPECIFICATION FairSpec
CONSTANTS
  j1 = j1
  j2 = j2
  j3 = j3
  w1 = w1
  w2 = w2
  w3 = w3
  NoWorker = NoWorker
  NoJob = NoJob
  RequestOf <- MCRequestOf
  Sessions = {"s1"}
  Calls = {"c1", "c2", "c3"}
  Agents = {"researcher", "writer"}
  RetrySafe = {"researcher"}
  MaxConcurrency <- OneSlotEach
  MaxPending = 2
  MaxQueued = 2
  LeaseTime = 2
  Retention = 0
  RoutedJobs = {}
  Jobs <- RivalJobs
  Workers <- TwoWorkers
  Faults = {"crash", "stop", "stall", "heartbeat"}
  MaxFaults = 1
  MaxAttempts = 2
PROPERTIES
  EveryJobEnds
  EveryCancelEnds
