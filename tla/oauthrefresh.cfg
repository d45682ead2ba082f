CONSTANTS
  Requests = {q1, q2}
  NoRequest = NoRequest
  PersistMax = 2
  MaxTokens = 2
SPECIFICATION FairSpec
INVARIANTS SingleFlight NoDeadToken
PROPERTIES EveryRefreshEnds ImplementsCredential
CHECK_DEADLOCK FALSE
