CONSTANTS
  r1 = r1  r2 = r2  r3 = r3  r4 = r4  r5 = r5  r6 = r6  r7 = r7
  u1 = u1  u2 = u2  u3 = u3  a1 = a1  a2 = a2
  Requests = {r1, r2, r3, r4, r5, r6, r7}
  Users = {u1, u2, u3}
  Addresses = {a1, a2}
  UserOf <- MCUserOf
  AddressOf <- MCAddressOf
  Window = 2
  UserMax = 2
  AddressMax = 3
  MaxEntries = 2
  ConcurrencyMax = 1
  MaxTime = 3
SYMMETRY MCSymmetry
SPECIFICATION LimiterSpec
INVARIANTS SlotsMatchInFlight SlidingBound
PROPERTY ForgetsLeastRecent
CHECK_DEADLOCK FALSE
