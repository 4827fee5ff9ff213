CONSTANTS
    User = {u1, u2}
    Key = {k1}
    MaxGets = 1
    MaxWrites = 2
    MaxOthers = 0
    MaxSignIns = 1
    MaxFaults = 1
    MaxDenials = 1
    MaxCrashes = 0
SYMMETRY Symmetry
SPECIFICATION Spec
INVARIANTS CacheTrue ViewIsLocalDocument SyncedIsCurrent LimboIsAhead
PROPERTY CacheForward
CHECK_DEADLOCK FALSE
