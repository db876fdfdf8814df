SPECIFICATION Spec
CONSTANTS
  Assets = {WETN, USDC}
  None = None
  MARKETS_PAGE = TRUE
  MAX_FETCHES = 2
INVARIANTS OneAtATime
PROPERTIES DialogUsableAgain
