CONSTANTS
    User = {u1, u2}
    Email = {e1, e2}
    None = None
    Blank = Blank
    MaxCalls = 2
    MaxControllers = 2
SPECIFICATION Spec
INVARIANT SignupSurvives
SYMMETRY Interchange
CHECK_DEADLOCK FALSE
