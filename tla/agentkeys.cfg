CONSTANTS
  Agents = {a1, a2}
  Names = {alpha, beta, gamma}
  Keys = {k1, k2}
  None = None
  Requests = {q1}
  Jobs = {p1, p2}
  KeyTtl = 2
  AgentTtl = 1
  MaxStarted = 2
  MaxRecords = 1
  MaxTime = 2
SPECIFICATION Spec
SYMMETRY Symmetry
INVARIANTS RevokedIsForgotten StaleForALifetime RecordsFollowTheAgent
CHECK_DEADLOCK FALSE
