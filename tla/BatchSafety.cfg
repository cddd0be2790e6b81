SPECIFICATION Spec
CONSTANTS
  a = a
  b = b
  c = c
  d = d
  s1 = s1
  j1 = j1
  None = None
  Drive = Drive
  Requests = {a, b, d}
  Streaming = {a, b}
  Recycled = {b}
  Jobs = {}
  Sessions = {s1}
  PromptLen <- MCPromptLen
  MaxTokens <- MCMaxTokens
  Budget = 4
  MaxBatch = 2
  Coalesce = TRUE
  Faults = {"insert", "tick", "callback", "finish"}
INVARIANTS
  TypeOK
  OneDriver
  InboxServed
  CoResidency
  Accounted
  ReleasedFirst
  CacheMoved
CHECK_DEADLOCK FALSE
