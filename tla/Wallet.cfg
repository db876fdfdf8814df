SPECIFICATION Spec
CONSTANTS
  Accounts = {a, b}
  None = None
  Zeros = Zeros
  EVENT_LIMIT = 2
SYMMETRY Symmetry
INVARIANTS TypeOK SavedIsAddress ConnectedOnTestnet
