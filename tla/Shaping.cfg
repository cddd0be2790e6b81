SPECIFICATION Spec
CONSTANTS
  Unlimited = Unlimited
  ThinkStart <- OneTwo
  ThinkEnd <- TwoTwo
  ToolStart <- OneOne
  ToolEnd <- TwoOne
  Tokens = {1, 2, 3, 4}
  Eos = {4}
  Newlines = {3}
  Budgets = {0, 1, Unlimited}
  Stops <- MCStops
  MaxTokens = 7
  MaxChunk = 2
INVARIANTS
  Routed
  StopsKept
CHECK_DEADLOCK FALSE
