SPECIFICATION FairSpec
CONSTANTS
    None = None
    s1 = s1
    r1 = r1
    Users = {ann}
    Owner = ann
    Project = p
    Services = {s1, s2}
    Resources = {r1}
    ServiceOf <- MCServiceOf
    Names = {n1, n2}
    Requests = {q1, q2}
    Operations = {"Create", "Update", "Delete"}
    Targets = {p, s1, s2, r1}
INVARIANTS
    UniqueNames
    DeletionIsAudited
    RowsInv
PROPERTIES
    EveryRequestIsAnswered
CHECK_DEADLOCK FALSE
