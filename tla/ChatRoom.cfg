CONSTANTS
    Device = {d1}
    Sender = {d1}
    Key = {1, 2}
    Remote = {}
    MaxHandles = 2
    MaxVisits = 2
    MaxDrops = 1
SPECIFICATION Spec
INVARIANTS TypeOK NoLostMessage OncePerObserver ShownIsStoredOrPending SignedStaysSigned SenderOrder
PROPERTIES ClearedOnlyWhenStored
CHECK_DEADLOCK FALSE
