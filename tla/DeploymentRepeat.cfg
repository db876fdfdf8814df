SPECIFICATION Spec
CONSTANTS
  Reserves <- Symbols
  strategyOf <- Strategies
  MAX_REPEATS = 1
  MAX_DEATHS = 1
  MAX_LOSSES = 0
INVARIANT RepeatReturnsAdmin
CHECK_DEADLOCK FALSE
