CONSTANTS
    Requests = {r1, r2}
    Refusals <- MCRefusals
    Junk = junk
    MaxFaults = 2
SYMMETRY MCSymmetry
SPECIFICATION Spec
INVARIANTS
    TypeOK
    WriteExclusion
    OneOpenConnection
    SendFailureSevers
    RunReturnsOnlyWhenCancelled
    NoncePresentedOnce
    AnsweredUnlessFault
PROPERTIES
    HealthyConnectionKept
    RelaySpec
CHECK_DEADLOCK FALSE
