SPECIFICATION FairSpec
CONSTANT MaxFallbacks = 3
INVARIANTS OneVerdict RowsNameTheAttempts ExhaustionIsReal SuccessIsDelivered
PROPERTY RequestEnds
CHECK_DEADLOCK FALSE
