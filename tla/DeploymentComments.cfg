\* Each of these is violated; take the violated one out to see the next.
SPECIFICATION Spec
CONSTANTS
  Reserves <- Symbols
  strategyOf <- Strategies
  MAX_REPEATS = 1
  MAX_DEATHS = 1
  MAX_LOSSES = 1
INVARIANTS
  SetupConnects
  DoneIsReady
CHECK_DEADLOCK FALSE
