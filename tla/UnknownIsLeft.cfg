CONSTANTS
    User = {u1}
    Key = {k1}
    MaxGets = 2
    MaxWrites = 0
    MaxOthers = 0
    MaxSignIns = 0
    MaxFaults = 0
    MaxDenials = 0
    MaxCrashes = 0
SPECIFICATION ClientSpec
PROPERTY UnknownIsLeft
CHECK_DEADLOCK FALSE
