SPECIFICATION FairSpec
CONSTANTS
    None = None
    ann = ann
    bob = bob
    p1 = p1
    ann_email = ann_email
    bob_email = bob_email
    Users = {ann, bob}
    Emails = {ann_email, bob_email}
    Projects = {p1, p2}
    Invitations = {i1}
    Requests = {r1, r2}
    Operations = {"CreateProject", "DeleteProject", "RemoveMember", "LeaveProject", "CreateInvitation", "DeleteInvitation", "AcceptInvitation"}
    VerifiedEmail <- MCVerifiedEmail
    InvitationProject <- MCInvitationProject
    InvitationEmail <- MCInvitationEmail
    ReturningChecked = FALSE
INVARIANTS
    OwnerIsMember
    NoOrphans
PROPERTIES
    ImplementsContract
    EveryRequestIsAnswered
CHECK_DEADLOCK FALSE
