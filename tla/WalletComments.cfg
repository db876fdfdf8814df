\* Each of these is violated; take the violated one out to see the next.
SPECIFICATION Spec
CONSTANTS
  Accounts = {a, b}
  None = None
  Zeros = Zeros
  EVENT_LIMIT = 1
INVARIANTS
  DisconnectSticks
  SavedWasConnected
  AccountInfoIsYours
PROPERTIES
  ConnectLoadsAccountInfo
  LateAnswersAreDropped
