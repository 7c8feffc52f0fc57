CONSTANTS
    Requests = {r1}
    Payments = {p1, p2}
    MaxFaults = 1
SPECIFICATION Spec
INVARIANTS
    AcceptedMeansPublished
CHECK_DEADLOCK FALSE
