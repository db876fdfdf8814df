SPECIFICATION Spec
CONSTANTS
  RAY = 10
  WAD = 8
  WAD_RAY_RATIO = 5
  PERCENTAGE_FACTOR = 6
  SECONDS_PER_YEAR = 3
  UINT256_MAX = 127
  MAX_RATE = 30
  MAX_PERIODS = 5
INVARIANTS GuardsExact RoundsHalfUp ScaledBalanceSurvives CompoundingUndercharges
CHECK_DEADLOCK FALSE
