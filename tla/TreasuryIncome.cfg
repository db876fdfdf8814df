SPECIFICATION MCSpec
CONSTANTS
  u1 = u1
  u2 = u2
  A = A
  B = B
  Treasury = Treasury
  Users = {u1, u2}
  Assets = {A, B}
  Amounts = {50, 9999}
  BorrowModes = {"VARIABLE"}
  Delegations = {}
  MAX_CALLS = 6
  MAX_TIME = 2
  Prices <- MCPrices
  Calls <- MCCalls
  InitialConfig <- NoFactorConfig
  InitialWallet <- MCWallet
  InitialPrice <- MCPrice
  REVISION = 4
  RAY = 100
  WAD = 50
  WAD_RAY_RATIO = 2
  PERCENTAGE_FACTOR = 100
  SECONDS_PER_YEAR = 1
  UINT128_MAX = 500
  UINT256_MAX = 9999
  MAX_STABLE_RATE_BORROW_SIZE_PERCENT = 50
  LIQUIDATION_CLOSE_FACTOR_PERCENT = 50
  REBALANCE_UP_LIQUIDITY_RATE_THRESHOLD = 40
  REBALANCE_UP_USAGE_RATIO_THRESHOLD = 95
INVARIANT NoIncomeWithoutFactor
CHECK_DEADLOCK FALSE
