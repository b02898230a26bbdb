SPECIFICATION Spec
CONSTANTS
    Schedulers = {s1}
    Calls = {c1, c2}
    Terms = {1, 2}
    WarningDays = {1}
    LastDay = 2
    MaxBreaks = 1
INVARIANT EarlyExpiryNeedsOvertaking
INVARIANT MarkedExpiryIsSeenThrough
INVARIANT SplitStatusNeedsOverlap
SYMMETRY CallSymmetry
CHECK_DEADLOCK FALSE
