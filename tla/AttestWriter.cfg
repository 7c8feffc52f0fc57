CONSTANTS
    Values = {a, b}
    Unset = unset
    MaxValues = 2
    MaxFaults = 1
SPECIFICATION Spec
INVARIANTS
    TypeOK
    AttestedAsSent
CHECK_DEADLOCK FALSE
