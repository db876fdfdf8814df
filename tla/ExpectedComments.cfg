\* Each of these is violated; take the violated one out to see the next.
SPECIFICATION MCSpec
CONSTANTS
  u1 = u1
  u2 = u2
  A = A
  B = B
  Treasury = Treasury
  Users = {u1, u2}
  Assets = {A}
  Amounts = {12, 24}
  BorrowModes = {"VARIABLE"}
  Delegations = {}
  MAX_CALLS = 5
  MAX_TIME = 3
  Prices <- CreditPrices
  Calls <- TwoBorrowersCalls
  InitialConfig <- CreditConfig
  InitialWallet <- CreditWallet
  InitialPrice <- CreditPrice
  REVISION = 4
  RAY = 100
  WAD = 50
  WAD_RAY_RATIO = 100
  PERCENTAGE_FACTOR = 100
  SECONDS_PER_YEAR = 1
  UINT128_MAX = 500
  UINT256_MAX = 9999
  MAX_STABLE_RATE_BORROW_SIZE_PERCENT = 50
  LIQUIDATION_CLOSE_FACTOR_PERCENT = 50
  REBALANCE_UP_LIQUIDITY_RATE_THRESHOLD = 40
  REBALANCE_UP_USAGE_RATIO_THRESHOLD = 95
  MAX_UINT_AMOUNT = 9999
  ALMOST = 3
PROPERTIES
  LoansAsExpected
  BalanceEarnsInterest
  DepositKeepsPrincipal
CHECK_DEADLOCK FALSE
