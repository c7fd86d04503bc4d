SPECIFICATION QueriesSpec
CONSTANTS
    c1 = c1
    e1 = e1
    e2 = e2
    Absent = Absent
    Collectors = {c1}
    Events = {e1, e2}
    BatchOf <- MCBatchOf
    Kindings <- MCKindings
    Malformed = {}
    Stamps <- MCStamps
    Draws <- MCDraws
    MaxTries = 2
    MaxTime = 2
    Skew = 1
    Retention = 2
    MonthLength = 1
    Limits = {1, 2}
    Queries <- MCQueries
    Hour = 1
    MaxRange = 2
    ErrorEvents = {e1}
INVARIANTS
    QueriesInv
    AcknowledgedIsCounted
PROPERTIES
    PagesAreOrdered
    ImplementsContract
