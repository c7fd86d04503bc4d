SPECIFICATION Spec
CONSTANTS
    None = None
    Identities = {i1, i2}
    Emails = {e1}
    Accounts = {a1, a2}
    Requests = {q1, q2, q3}
    Operations = {"getMe"}
PROPERTIES
    KnownIdentityLogsIn
CHECK_DEADLOCK FALSE
