CONSTANTS
    Robots = {"g1", "go2", "tron1"}
    Speeds <- MCSpeeds
    NaN = NaN
    MaxEvents = 2
SPECIFICATION Spec
INVARIANTS
    TypeOK
    MovesAsOrdered
    LastOrderObeyed
CHECK_DEADLOCK FALSE
