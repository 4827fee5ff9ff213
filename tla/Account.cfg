CONSTANTS
    User = {u1, u2}
    Email = {e1, e2}
    None = None
    Blank = Blank
    MaxCalls = 3
    MaxControllers = 3
SPECIFICATION Spec
INVARIANTS TypeOK ProfileAccounted OwnProfileFound ShowsWhoOpened
SYMMETRY Interchange
CHECK_DEADLOCK FALSE
