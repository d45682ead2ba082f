SPECIFICATION Spec
CONSTANTS
  Calls = {c1, c2, c3}
  Traces = {t1}
  Sessions = {}
  Kinds = {"success", "recorded", "canned", "fallback", "rate_limited"}
  NoTrace = NoTrace
  NoSession = NoSession
  NoCall = NoCall
  Durations = {0}
  Tokens = {0, 1}
  WINDOW = 2
  GRACE = 0
  COOLDOWN = 1
  MaxTime = 1
SYMMETRY Symmetry
INVARIANTS KeyExclusion LocksDrain
PROPERTIES DecisionsHold TokensSettle
CHECK_DEADLOCK FALSE
