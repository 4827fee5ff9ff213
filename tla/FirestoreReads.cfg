CONSTANTS
    User = {u1}
    Key = {k1, k2}
    MaxGets = 2
    MaxWrites = 0
    MaxOthers = 1
    MaxSignIns = 0
    MaxFaults = 1
    MaxDenials = 0
    MaxCrashes = 1
SYMMETRY Symmetry
SPECIFICATION Spec
INVARIANTS TypeOK SyncedIsCurrent SyncedIsFresh AckAwaited AssertionsHold
CHECK_DEADLOCK FALSE
