CONSTANTS
    Challenges = {c1, c2}
    Operator = operator
    Others = {other}
    Nobody = nobody
    Second = 2
    DefaultMaxAge = 1
    MaxAges <- MCMaxAges
    Skews <- MCSkews
    MaxTime = 5
    MaxSigned = 2
    MaxReceived = 2
SYMMETRY MCSymmetry
SPECIFICATION Spec
INVARIANTS
    TypeOK
    AcceptedWasServed
    ReplayEnds
    UnalteredAccepted
CHECK_DEADLOCK FALSE
