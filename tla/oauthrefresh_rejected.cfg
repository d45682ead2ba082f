CONSTANTS
  Requests = {q1}
  NoRequest = NoRequest
  PersistMax = 2
  MaxTokens = 2
SPECIFICATION Spec
PROPERTY RejectedTokenReplaced
CHECK_DEADLOCK FALSE
