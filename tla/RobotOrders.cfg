CONSTANTS
    Requests = {r1, r2}
    Payments = {p1, p2}
    MaxFaults = 2
SPECIFICATION Spec
INVARIANTS
    TypeOK
    OrderKept
    AnswerExplained
CHECK_DEADLOCK FALSE
