SPECIFICATION Spec
CONSTANTS
    User = {ann, bob}
    MaxPendingWrites = 2
    MaxWrites = 3
    MaxSignIns = 1
    MaxFaults = 1
    MaxCrashes = 1
SYMMETRY Symmetry
INVARIANTS
    TypeOK
    StreamOfUser
    TokenFindsStarting
    AnswersAreForThePipeline
    IdleHasNothingToSend
    CallbackOfItsWrite
PROPERTIES
    Refines
CHECK_DEADLOCK FALSE
