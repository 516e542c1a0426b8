SPECIFICATION FairSpec
CONSTANTS
  p1 = p1
  p2 = p2
  s1 = s1
  s2 = s2
  Prompts = {p1, p2}
  Sessions = {s1, s2}
  To <- ToOf
  MaxObjects = 3
  MaxCancels = 1
  MaxResumed = 1
  None = None
CHECK_DEADLOCK FALSE
INVARIANTS
  LivePromptIsReachable
  OutcomeMatchesTranscript
  TurnSeesTheConversation
PROPERTIES
  EveryPromptIsAnswered
