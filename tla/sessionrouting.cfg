CONSTANTS
  None = None
  Messages <- MCMessages
  CategoryOrder <- MCCategoryOrder
  Threshold <- MCThreshold
  Streamable <- MCStreamable
  Rows <- MCRows
  Routings <- MCRoutings
  Slots = {q1}
  MAX_ENTRIES = 3
  TTL = 1
  MaxWait = 1
  MaxChanges = 1
SPECIFICATION RoutingSpec
INVARIANTS SettlesWithinOne HistoryIsOneSession FlaggedNeedsAnAnchor DecisionIsOfItsTime
CHECK_DEADLOCK FALSE
