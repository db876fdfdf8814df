\* Each of these is violated; take the violated one out to see the next.
SPECIFICATION Spec
CONSTANTS
  Pages = {p, q}
  Accounts = {a, b}
  Asks = {1, 2}
  UNIT = 1
  FALLBACK = 3
  BALANCE = 4
  LIQUIDITY = 4
  MAX_ACTIONS = 1
INVARIANTS
  AmountInTokenUnits
  ApprovedBeforehand
