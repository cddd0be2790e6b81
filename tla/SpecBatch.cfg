SPECIFICATION FairSpec
CONSTANTS
  a = a
  b = b
  c = c
  greedy = greedy
  warm = warm
  None = None
  Requests = {a, b, c}
  Streaming = {a}
  Key <- MCKey
  PromptLen <- MCPromptLen
  MaxTokens <- MCMaxTokens
  MaxBatch = 2
  Waits = TRUE
  Depth = 1
  RectLimit = 4
  TokenBudget = 4
  PrefillChunk = 2
  Faults = {"round", "prefill", "join"}
INVARIANTS
  OnePlace
  AnswersWhole
  RowsAligned
  JoinSound
PROPERTIES
  ArrivalOrder
  Resolved
CHECK_DEADLOCK FALSE
