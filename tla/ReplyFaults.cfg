SPECIFICATION Spec
CONSTANTS
  Questions = 2
  Others = {3, 4, 5}
  Notices = {4}
  Home <- HomeOf
  Chunks <- ChunksOf
  Clients = {c1}
  Sources = {"ws1", "ws2"}
  NoSource = NoSource
  MaxTries = 2
  MaxFailures = 2
  MaxStarts = 2
CHECK_DEADLOCK FALSE
INVARIANTS
  AcknowledgedHasArrived
  ChunksArriveInRow
  AnswersLagByTimeouts
  BindingsAgree
