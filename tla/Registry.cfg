SPECIFICATION Spec
CONSTANTS
  Runs = {1, 2}
  Files <- BesideShort
  MAX_LOSSES = 1
INVARIANTS ConfirmedIsDeployed ExpectedWhenAlone
PROPERTY RunsEnd
CHECK_DEADLOCK FALSE
