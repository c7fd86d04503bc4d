SPECIFICATION Spec
CONSTANTS
    None = None
    ann = ann
    bob = bob
    p1 = p1
    ann_email = ann_email
    bob_email = bob_email
    Users = {ann, bob}
    Emails = {ann_email, bob_email}
    Projects = {p1}
    Invitations = {i1, i2}
    Requests = {r1, r2}
    Operations = {"DeleteInvitation", "AcceptInvitation"}
    VerifiedEmail <- MCVerifiedEmail
    InvitationProject <- MCInvitationProject
    InvitationEmail <- MCInvitationEmail
    ReturningChecked = FALSE
INVARIANTS
    AcceptedIsNotRevoked
CHECK_DEADLOCK FALSE
