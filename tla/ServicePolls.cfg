SPECIFICATION ServiceSpec
CONSTANTS
  JobIds = {j1}
  Conversations = {a, b}
  Ends = {"succeeded", "failed", "cancelled", "timed_out"}
  MaxTurns = 2
  MaxRolls = 1
  MaxRestarts = 1
  MaxOverflows = 1
SYMMETRY Symmetric
CHECK_DEADLOCK FALSE
INVARIANTS
  OneAnswerPerTurn
  AnswersFitTheCreator
