SPECIFICATION Spec
CONSTANTS
  t1 = t1  t2 = t2  t3 = t3  t4 = t4
  A = A  B = B
  s1 = s1  s2 = s2  s3 = s3  n1 = n1
  Turns = {t1, t2, t3}
  Agents = {A, B}
  Sessions = {s1, s2, n1}
  NoTurn = NoTurn
  NoSession = NoSession
  Kind <- TwoMessagesAndAResumption
  Child <- NoJobs
  Capacity <- TwoPlaces
  AgentOf <- AllOfA
  Targets <- OneSession
  Spare = {n1}
  Truncated = {}
  MaxRounds = 1
  WaitForTask = FALSE
  MaxInterrupts = 0
INVARIANT TurnsAreSerialised
