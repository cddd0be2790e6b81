SPECIFICATION Spec
CONSTANTS
  b1 = b1
  b2 = b2
  Models <- Windowed
  Prompts <- PromptsOf
  Answers <- AnswersOf
  Batch = {}
  Slots = {1, 2}
  MaxSessions = 1
INVARIANTS
  CacheIsHistory
CHECK_DEADLOCK FALSE
