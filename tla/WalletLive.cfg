SPECIFICATION Spec
CONSTANTS
  Accounts = {a}
  None = None
  Zeros = Zeros
  EVENT_LIMIT = 2
PROPERTIES SpinnersEnd
