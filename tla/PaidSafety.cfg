CONSTANTS
    Requests = {r1, r2}
    Payments = {p1, p2}
    MaxFaults = 2
SPECIFICATION FairSpec
INVARIANTS
    TypeOK
    VerifiedBeforePublished
    OneProtocolPerRequest
    ChargedForNothing
    PublishedForNothing
    OneReceiptPerPayment
    JobAcceptedMeansPublished
PROPERTIES
    EveryRequestEnds
    MotionSpec
CHECK_DEADLOCK FALSE
