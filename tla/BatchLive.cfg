SPECIFICATION FairSpec
CONSTANTS
  a = a
  b = b
  c = c
  d = d
  s1 = s1
  j1 = j1
  None = None
  Drive = Drive
  Requests = {b, c, d}
  Streaming = {b}
  Recycled = {}
  Jobs = {j1}
  Sessions = {}
  PromptLen <- MCPromptLen
  MaxTokens <- MCMaxTokens
  Budget = 4
  MaxBatch = 2
  Coalesce = TRUE
  Faults = {"tick", "callback"}
PROPERTIES
  AllResolved
  OthersServed
CHECK_DEADLOCK FALSE
