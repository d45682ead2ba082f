CONSTANTS
  Auths = {api_key, subscription}
  DefaultLabel = Default
  Labels = {Default, Work}
  Keys = {k1, k2}
  Jobs = {j1, j2}
  RemovalAuths = {api_key, subscription, "any auth"}
  None = None
  MaxKeys = 2
  MaxPins = 2
  MaxStarted = 4
  MaxShared = 3
SPECIFICATION Spec
SYMMETRY Symmetry
INVARIANTS StaleForAReason PinsResolve
CHECK_DEADLOCK FALSE
