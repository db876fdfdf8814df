SPECIFICATION Spec
CONSTANTS
  Runs = {1, 2}
  Files <- BesideShort
  MAX_LOSSES = 0
INVARIANT ExpectedIsDeployed
CHECK_DEADLOCK FALSE
