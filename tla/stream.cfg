CONSTANTS
  Apis = {"messages", "responses"}
  c1 = c1
  c2 = c2
  Calls = {c1, c2}
  Payloads <- Chunks
  MaxParts = 6
  None = None
SPECIFICATION Spec
INVARIANTS OnlyPartedCallsLose InOrder EndTellsAll
PROPERTIES ImplementsAnswer ClientsAreAnswered
CHECK_DEADLOCK FALSE
