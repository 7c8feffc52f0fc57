CONSTANTS
    Requests = {r1, r2}
    Refusals <- MCRefusals
    Junk = junk
    MaxFaults = 1
SPECIFICATION ClientSpec
PROPERTIES
    ShutdownCompletes
    DispatchEnds
CHECK_DEADLOCK FALSE
