CONSTANTS
    Requests = {r1}
    Refusals <- MCRefusals
    Junk = junk
    MaxFaults = 1
SPECIFICATION Spec
PROPERTIES
    RefusedOnlyByAnotherRobot
CHECK_DEADLOCK FALSE
