SPECIFICATION FairSpec
CONSTANTS
  a = a
  b = b
  c = c
  greedy = greedy
  warm = warm
  None = None
  Requests = {a, b}
  Streaming = {}
  Key <- MCKey
  PromptLen <- MCPromptLen
  MaxTokens <- MCMaxTokens
  MaxBatch = 2
  Waits = TRUE
  Depth = 1
  RectLimit = 4
  TokenBudget = 4
  PrefillChunk = 2
  Faults = {"join"}
PROPERTIES
  AllResolved
CHECK_DEADLOCK FALSE
