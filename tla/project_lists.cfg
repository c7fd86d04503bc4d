SPECIFICATION Spec
CONSTANTS
    Ids = {1, 2, 3, 4}
    MaxTime = 1
    Limits = {1, 2}
    Lists = {"projects", "members", "invitations", "closedInvitations", "services", "resources", "audit"}
INVARIANTS
    ListsInv
PROPERTIES
    PagesAreOrdered
    NoRowWithoutAccess
    ImplementsContract
