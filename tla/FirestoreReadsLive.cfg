CONSTANTS
    User = {u1}
    Key = {k1}
    MaxGets = 2
    MaxWrites = 0
    MaxOthers = 1
    MaxSignIns = 0
    MaxFaults = 1
    MaxDenials = 0
    MaxCrashes = 1
SPECIFICATION FairSpec
PROPERTY GetSettles
CHECK_DEADLOCK FALSE
