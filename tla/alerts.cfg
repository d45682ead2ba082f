CONSTANTS
  r1 = r1
  r2 = r2
  Rules = {r1, r2}
  Runs = {k1}
  Refusals = {a1, a2}
  a2 = a2
  k1 = k1
  k2 = k2
  a1 = a1
  Shapes <- MCShapes
  DayHours = 2
  MaxHour = 2
  MaxUsage = 2
  MaxChanges = 1
SPECIFICATION Spec
SYMMETRY Alike
INVARIANTS OneAlertPerPeriod AlertIsEarned RunCoversItsRules
CHECK_DEADLOCK FALSE
