CONSTANTS
  Kinds = {"loopback", "redirect", "paste", "device"}
  MaxLogins = 3
  Slots = {s1, s2}
  MaxKeys = 2
  EditedKinds = {"redirect"}
  MaxEdits = 1
  MaxRefreshes = 1
  Refresher = refresher
  None = None
SPECIFICATION Spec
INVARIANTS UsedOnce CallbackReachable OwnVerifier
PROPERTY GrantsAreKept
SYMMETRY Symmetry
CHECK_DEADLOCK FALSE
