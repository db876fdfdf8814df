SPECIFICATION CollectingSpec
CONSTANTS
  u1 = u1
  u2 = u2
  g = g
  e = e
  A = A
  W = W
  Treasury = Treasury
  WETH = W
  Gateway = g
  ELTokenContract = e
  Users = {u1, u2, g, e}
  EtherParties <- MCEtherParties
  Assets = {A, W}
  Amounts = {40, 9999}
  BorrowModes = {"VARIABLE"}
  Delegations <- MCDelegations
  Loans <- MCLoans
  FLASHLOAN_PREMIUM_TOTAL = 1
  PREMIUM_UNIT = 10
  MAX_CALLS = 3
  MAX_CHANGES = 1
  MAX_TIME = 2
  Prices <- MCPrices
  Calls <- MCCalls
  Collaterals <- MCCollaterals
  ReserveFactors <- MCFactors
  Strategies <- MCStrategies
  InitialConfig <- MCConfig
  InitialWallet <- MCWallet
  InitialPrice <- MCPrice
  InitialEther <- MCEther
  REVISION = 4
  RAY = 100
  WAD = 50
  WAD_RAY_RATIO = 2
  PERCENTAGE_FACTOR = 100
  SECONDS_PER_YEAR = 1
  UINT128_MAX = 500
  UINT256_MAX = 9999
  MAX_STABLE_RATE_BORROW_SIZE_PERCENT = 50
  LIQUIDATION_CLOSE_FACTOR_PERCENT = 50
  REBALANCE_UP_LIQUIDITY_RATE_THRESHOLD = 40
  REBALANCE_UP_USAGE_RATIO_THRESHOLD = 95
PROPERTIES FlashLoansAreBacked
CHECK_DEADLOCK FALSE
