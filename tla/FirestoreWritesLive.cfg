SPECIFICATION FairSpec
CONSTANTS
    User = {ann, bob}
    MaxPendingWrites = 1
    MaxWrites = 2
    MaxSignIns = 1
    MaxFaults = 1
    MaxCrashes = 1
PROPERTIES
    WritesSettle
CHECK_DEADLOCK FALSE
