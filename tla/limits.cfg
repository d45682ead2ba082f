CONSTANTS
  Hourly = Hourly
  Daily = Daily
  c1 = c1
  c2 = c2
  Rules <- MCRules
  Checks = {c1, c2}
  Shapes <- MCShapes
  HourTicks = 2
  DayTicks = 4
  TTL = 2
  DEBOUNCE = 1
  Horizon = 4
  MaxUsage = 1
  MaxChanges = 1
SPECIFICATION LimitsSpec
SYMMETRY Alike
INVARIANTS LimitsUpheld RefusalsEarned StaleForAReason
CHECK_DEADLOCK FALSE
