SPECIFICATION FairSpec
CONSTANTS
    c1 = c1
    c2 = c2
    e1 = e1
    e2 = e2
    e3 = e3
    Collectors = {c1, c2}
    Events = {e1, e2, e3}
    BatchOf <- MCBatchOf
    Kindings <- MCKindings
    Malformed = {}
    Stamps <- MCStamps
    Draws <- MCDraws
    MaxTries = 2
    MaxTime = 2
    Skew = 1
    Retention = 2
    MonthLength = 2
INVARIANTS
    IngestInv
    AcceptedIsStored
    RejectedIsNotStored
    DuplicatesAreResubmissions
PROPERTIES
    EveryBatchIsAnswered
CHECK_DEADLOCK FALSE
