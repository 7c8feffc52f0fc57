CONSTANTS
    Requests = {r1}
    Refusals <- MCRefusals
    Junk = junk
    MaxFaults = 3
SPECIFICATION FairSpec
PROPERTIES
    EventuallyConnected
CHECK_DEADLOCK FALSE
