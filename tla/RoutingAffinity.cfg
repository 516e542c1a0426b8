SPECIFICATION Spec
CONSTANTS
  Sources = {alice, bob}
  NoSource = NoSource
  MaxSessions = 4
  MaxFaults = 3
SYMMETRY Symmetric
CHECK_DEADLOCK FALSE
INVARIANTS
  AffinityIsOwned
PROPERTIES
  AffinityNeverGoesBack
