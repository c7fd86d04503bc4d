SPECIFICATION FairSpec
CONSTANTS
    None = None
    Identities = {i1, i2}
    Emails = {e1, e2}
    Accounts = {a1, a2}
    Requests = {q1, q2}
    Operations = {"getMe", "updateMe"}
INVARIANTS
    EmailsAreUnique
    ConflictsAreAboutEmail
    IdentityInv
PROPERTIES
    NeverRelinked
    UpdatesNameTheirVersion
    DisabledIsRefused
    EveryRequestIsAnswered
CHECK_DEADLOCK FALSE
