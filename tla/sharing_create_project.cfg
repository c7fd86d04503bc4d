SPECIFICATION Spec
CONSTANTS
    None = None
    ann = ann
    bob = bob
    p1 = p1
    ann_email = ann_email
    bob_email = bob_email
    Users = {ann, bob}
    Emails = {ann_email, bob_email}
    Projects = {p1, p2}
    Invitations = {i1, i2}
    Requests = {r1, r2}
    Operations = {"CreateProject"}
    VerifiedEmail <- MCVerifiedEmail
    InvitationProject <- MCInvitationProject
    InvitationEmail <- MCInvitationEmail
    ReturningChecked = TRUE
INVARIANTS
    CreateProjectIsServed
CHECK_DEADLOCK FALSE
