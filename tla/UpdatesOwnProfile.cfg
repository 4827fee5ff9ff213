CONSTANTS
    User = {u1, u2}
    Email = {e1, e2}
    None = None
    Blank = Blank
    MaxCalls = 4
    MaxControllers = 2
SPECIFICATION Spec
INVARIANT UpdatesOwnProfile
SYMMETRY Interchange
CHECK_DEADLOCK FALSE
