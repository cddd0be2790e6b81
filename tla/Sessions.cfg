SPECIFICATION Spec
CONSTANTS
  b1 = b1
  b2 = b2
  Models <- Served
  Prompts <- PromptsOf
  Answers <- AnswersOf
  Batch = {b1, b2}
  Slots = {1, 2, 3}
  MaxSessions = 2
INVARIANTS
  TypeOK
  PoolSound
  ReuseSound
  CacheIsHistory
SYMMETRY AdmissionSymmetry
CHECK_DEADLOCK FALSE
