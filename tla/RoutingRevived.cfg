SPECIFICATION Spec
CONSTANTS
  Sources = {alice, bob}
  NoSource = NoSource
  MaxSessions = 3
  MaxFaults = 1
SYMMETRY Symmetric
CHECK_DEADLOCK FALSE
INVARIANT ClearedStaysCleared
