SPECIFICATION LedgerSpec
CONSTANTS
  Tokens = {1, 2}
  Width = 2
  MaxRows = 2
  MaxL = 5
  MaxRounds = 2
  PromptLens = {2, 3}
  Window = 2
INVARIANTS
  Aligned
PROPERTIES
  RowsAlone
CHECK_DEADLOCK FALSE
