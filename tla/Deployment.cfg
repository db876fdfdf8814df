SPECIFICATION Spec
CONSTANTS
  Reserves <- Symbols
  strategyOf <- Strategies
  MAX_REPEATS = 1
  MAX_DEATHS = 1
  MAX_LOSSES = 1
INVARIANT DoneMeansReady
PROPERTIES AdminComesBack OracleComesBack
CHECK_DEADLOCK FALSE
