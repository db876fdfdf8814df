SPECIFICATION Spec
CONSTANTS
  Pages = {p, q}
  Accounts = {a, b}
  Asks = {1, 2}
  UNIT = 1
  FALLBACK = 3
  BALANCE = 4
  LIQUIDITY = 4
  MAX_ACTIONS = 1
INVARIANTS TypeOK PullsWhatWasAsked SuccessMeansDone
PROPERTIES ActionsEnd
