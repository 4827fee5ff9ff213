CONSTANTS
    Device = {d1}
    Key = {1, 2, 3}
    Remote = {1, 2}
    Malformed = {1}
    MaxHandles = 2
    MaxDrops = 1
    MaxLaunches = 1
SPECIFICATION FairSpec
INVARIANTS TypeOK NoLostCommunity OncePerObserver
PROPERTIES StoredStaysVisible EventuallyListed
CHECK_DEADLOCK FALSE
