SPECIFICATION Spec
CONSTANTS
    None = None
    s1 = s1
    r1 = r1
    Users = {ann, bob}
    Owner = ann
    Project = p
    Services = {s1}
    Resources = {}
    ServiceOf <- MCNoResources
    Names = {n1}
    Requests = {q1, q2, q3}
    Operations = {"Create", "Update", "Delete"}
    Targets = {p, s1}
SYMMETRY RequestSymmetry
INVARIANTS
    UpdatesFormAChain
    LogAgreesWithAnswers
PROPERTIES
    ImplementsContract
CHECK_DEADLOCK FALSE
