SPECIFICATION Spec
CONSTANTS
  Token = {1, 2, 3}
  Eos = {3}
  Support <- MCSupport
  Budgets = {0, 1, 5}
  SpecPrompts <- MCSpecPrompts
  FlashPrompts <- MCFlashPrompts
  LookupPrompts <- MCLookupPrompts
  GemmaPrompts <- MCGemmaPrompts
  PrefillStep = 3
  Retention = 2
  DraftCap = 2
  LookupLen = 3
  SpecTail = 1
  Depth = 2
  Group = 2
  FlashTail = 2
  PrimeWindow = 3
  ContextLen = 2
  Knobs <- MCKnobs
  MaxDraft = 3
  MinMatch = 1
  BlockSize = 4
  Windows = {4, 5, 20}
INVARIANTS
  CachesFollow
  GridKept
  MatchesGenuine
PROPERTIES
  Lossless
