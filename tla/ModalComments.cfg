\* Each of these is violated; take the violated one out to see the next.
SPECIFICATION Spec
CONSTANTS
  Assets = {WETN, USDC}
  None = None
  MARKETS_PAGE = TRUE
  MAX_FETCHES = 2
INVARIANTS
  MaxIsOfThisDialog
  DialogMatchesTable
