----------------------- MODULE ProjectSharingProperties -----------------------
(***************************************************************************)
(* What ProjectSharing promises: its type, and the properties that relate  *)
(* the tables to each other and to the audit log.                          *)
(***************************************************************************)
EXTENDS ProjectSharing

TablesOK ==
    /\ live \in SUBSET Projects
    /\ owner \in [Projects -> Users \cup {None}]
    /\ members \in [Projects -> SUBSET Users]
    /\ status \in [Invitations -> Statuses]
    /\ lapsed \in [Invitations -> BOOLEAN]
    /\ log \in [Projects -> SUBSET Events]

RequestsOK ==
    /\ call \in [Requests -> Calls]
    /\ pc \in [Requests -> Steps]
    /\ code \in [Requests -> Codes]

LocksOK ==
    /\ projectLock \in [Projects -> Holder]
    /\ keyShare \in [Projects -> SUBSET Requests]
    /\ memberLock \in [Projects -> [Users -> Holder]]
    /\ invitationLock \in [Invitations -> Holder]
    /\ pendingLock \in [Projects -> [Emails -> Holder]]

(* Every variable has its type: no statement writes a row, a lock or an      *)
(* answer that the schema and errors.go do not have.                         *)
TypeOK == TablesOK /\ RequestsOK /\ LocksOK

(* The owner of a project is one of its members, whatever removals, leaves   *)
(* and acceptances run at the same time (001_init.sql: "The owner cannot     *)
(* remove their own invariant membership").                                  *)
OwnerIsMember == \A p \in live : owner[p] \in members[p]

(* No row outlives its project: nothing a concurrent request inserts is left *)
(* behind by DeleteProject (the ON DELETE CASCADE foreign keys).             *)
NoOrphans ==
    \A p \in Projects \ live :
        members[p] = {} /\ ProjectInvitations(p) = {} /\ log[p] = {}

(* A project has at most one pending invitation for an email, although       *)
(* CreateInvitation deletes the lapsed one and inserts the new one in two    *)
(* statements (project_invitation_pending_email_uq).                         *)
OnePendingPerEmail ==
    \A i, j \in Invitations : SamePending(i, j) /\ SamePending(j, i) => i = j

(* A token is good for one acceptance.                                       *)
AcceptedOnce ==
    \A p \in Projects : \A e, f \in log[p] :
        /\ e.action = "invitation.accepted" /\ f.action = "invitation.accepted"
        /\ e.subject = f.subject /\ e.subject # None
        => e = f

Joins(p, u) ==
    { e \in log[p] : e.action = "invitation.accepted" /\ e.actor = u /\ e.joined }

Departures(p, u) ==
    { e \in log[p] : e.action \in {"member.removed", "member.left"} /\ e.subject = u }

(* The audit log accounts for the membership: a user other than the owner is *)
(* a member exactly when they joined once more than they were removed or     *)
(* left, so racing removals and leaves write one event between them.         *)
AuditAccountsForMembership ==
    \A p \in live : \A u \in Users \ {owner[p]} :
        Cardinality(Joins(p, u)) =
            Cardinality(Departures(p, u)) + (IF u \in members[p] THEN 1 ELSE 0)

(* An invitation is not accepted once its revocation is in the audit log,    *)
(* even by a request that found it pending before.                           *)
NoAcceptAfterRevoke ==
    [][\A p \in Projects : \A e \in log'[p] \ log[p] :
          e.action = "invitation.accepted" =>
              ~\E f \in log[p] : f.action = "invitation.revoked" /\ f.subject = e.subject]_vars

(* Every request that was taken is answered: no cycle of row locks between   *)
(* a removal, an acceptance or an invitation and the deletion of the project *)
(* leaves a transaction waiting for ever.                                    *)
EveryRequestIsAnswered == \A r \in Requests : Running(r) ~> pc[r] = "done"

(* PostgreSQL never has to fail a transaction for a deadlock unless one      *)
(* deletes a project: removals, leaves, invitations, revocations and         *)
(* acceptances take their locks in an order that they share.                 *)
DeadlocksNeedADeletion ==
    (\E d \in Requests : call[d].op = "DeleteProject" /\ Running(d))
        \/ \A r \in Requests : ~(Running(r) /\ Deadlocked(r))

(* openapi.yaml:331 "Accepted invitations cannot be revoked this way."  No   *)
(* invitation is both accepted and revoked.                                  *)
AcceptedIsNotRevoked ==
    \A p \in Projects : \A e, f \in log[p] :
        e.action = "invitation.accepted" /\ f.action = "invitation.revoked"
            => e.subject # f.subject

(* openapi.yaml:109 "Project created; owner membership is created            *)
(* atomically.": an authenticated user's request is not refused with 500.    *)
CreateProjectIsServed ==
    \A r \in Requests : call[r].op = "CreateProject" /\ pc[r] = "done" => code[r] = "ok"

-----------------------------------------------------------------------------
(* The inductive invariant behind OwnerIsMember and NoOrphans *)

(* Which statements a transaction of each operation can be at, and what its  *)
(* arguments are.                                                            *)
ControlInv ==
    \A r \in Requests :
        LET o == call[r].op  s == pc[r] IN
        /\ s = "idle" <=> o = "none"
        /\ s = "deleteMember" => o \in {"RemoveMember", "LeaveProject"}
        /\ s \in {"audit", "shareProject"} =>
              o \in {"RemoveMember", "LeaveProject", "CreateInvitation", "DeleteInvitation"}
        /\ s \in {"lockProject", "cascadeMembers", "cascadeInvitations", "mutationState"} =>
              o = "DeleteProject"
        /\ s \in {"deleteLapsed", "insertInvitation"} => o = "CreateInvitation"
        /\ s \in {"readStatus", "deleteInvitation"} => o = "DeleteInvitation"
        /\ s \in {"lockInvitation", "insertMember", "acceptInvitation"} =>
              o = "AcceptInvitation"
        /\ o # "none" => call[r].u \in Users /\ call[r].p \in Projects
        /\ o \in {"RemoveMember", "LeaveProject"} => call[r].m \in Users
        /\ o \in {"CreateInvitation", "DeleteInvitation", "AcceptInvitation"} =>
              call[r].i \in Invitations
        /\ o \in {"CreateInvitation", "AcceptInvitation"} =>
              call[r].p = InvitationProject[call[r].i]

(* A project id is created once, and a request that removes a member is not  *)
(* about the owner: the check made before the DELETE still holds when the    *)
(* DELETE commits.                                                           *)
OwnerInv ==
    /\ \A p \in live : owner[p] # None
    /\ \A r \in Requests :
          call[r].op = "CreateProject" /\ pc[r] = "commit" =>
              /\ owner[call[r].p] = None
              /\ \A d \in Requests : /\ call[d].op = "CreateProject" /\ pc[d] = "commit"
                                     /\ call[d].p = call[r].p
                                     => d = r
    /\ \A r \in Requests :
          call[r].op \in {"RemoveMember", "LeaveProject"} /\ Running(r) =>
              owner[call[r].p] \notin {None, call[r].m}

(* Where a transaction can be when it has a member row locked.               *)
MemberLockInv ==
    \A r \in Requests, p \in Projects, u \in Users :
        LET o == call[r].op  s == pc[r] IN
        memberLock[p][u] = r =>
            /\ call[r].p = p
            /\ \/ o = "RemoveMember" /\ s \in {"audit", "shareProject", "commit"}
                    /\ call[r].m = u
               \/ o = "LeaveProject" /\ s = "commit" /\ call[r].m = u
               \/ o = "AcceptInvitation" /\ s \in {"acceptInvitation", "commit"}
                    /\ call[r].u = u
               \/ o = "DeleteProject" /\ s \in {"cascadeInvitations", "commit"}

(* The statements at which a transaction that writes to a project has        *)
(* checked its foreign key.                                                  *)
Shares(r) ==
    LET o == call[r].op  s == pc[r] IN
    \/ o = "LeaveProject" /\ s \in {"deleteMember", "commit"}
    \/ o \in {"CreateInvitation", "DeleteInvitation", "AcceptInvitation"} /\ s = "commit"
    \/ o = "RemoveMember" /\ s = "commit" /\ memberLock[call[r].p][call[r].m] = r

(* A project row that is key-shared exists and is not being deleted.         *)
SharedExists ==
    \A p \in Projects : keyShare[p] # {} => p \in live /\ projectLock[p] = None

(* It is shared by requests that insert rows into the project ...            *)
SharersWrite ==
    \A p \in Projects : \A r \in keyShare[p] :
        call[r].p = p /\ call[r].op \notin {"none", "CreateProject", "DeleteProject"}

(* ... and by all of those that will commit one.                             *)
WritersShare == \A r \in Requests : Shares(r) => r \in keyShare[call[r].p]

(* A project row that is locked exists and is being deleted ...              *)
LockedIsDeleted ==
    \A p \in Projects, r \in Requests :
        projectLock[p] = r =>
            /\ p \in live
            /\ call[r].op = "DeleteProject" /\ call[r].p = p
            /\ pc[r] \in {"cascadeMembers", "cascadeInvitations", "commit"}

(* ... and one that is being deleted is locked.                              *)
DeletedIsLocked ==
    \A r \in Requests :
        /\ call[r].op = "DeleteProject"
        /\ pc[r] \in {"cascadeMembers", "cascadeInvitations", "commit"}
        => projectLock[call[r].p] = r

ProjectLockInv ==
    SharedExists /\ SharersWrite /\ WritersShare /\ LockedIsDeleted /\ DeletedIsLocked

(* The projects and who may write to them: enough for OwnerIsMember and      *)
(* NoOrphans.                                                                *)
ProjectsInv ==
    TypeOK /\ ControlInv /\ OwnerInv /\ MemberLockInv /\ ProjectLockInv
      /\ OwnerIsMember /\ NoOrphans

-----------------------------------------------------------------------------
(* The inductive invariant behind OnePendingPerEmail and the audit log: what *)
(* request r knows of the rows it has locked.  Each part is about the locks  *)
(* of r, so that the steps of the others leave it alone.                     *)

(* Why r has an invitation locked, and that its row is there.                *)
LockedInvitations(r) ==
    LET c == call[r]  s == pc[r] IN
    \A i \in Invitations : invitationLock[i] = r =>
        /\ HasRow(i) /\ InvitationProject[i] = c.p
        /\ \/ /\ c.op = "CreateInvitation" /\ SamePending(c.i, i)
              /\ s \in {"insertInvitation", "audit", "shareProject", "commit"}
           \/ /\ c.op = "DeleteInvitation" /\ i = c.i
              /\ s \in {"audit", "shareProject", "commit"}
           \/ /\ c.op = "AcceptInvitation" /\ i = c.i /\ status[i] = "pending"
              /\ s \in {"insertMember", "acceptInvitation", "commit"}
           \/ c.op = "DeleteProject" /\ s = "commit"

(* The id of a new invitation is nobody else's until it commits.             *)
NewInvitation(r) ==
    call[r].op = "CreateInvitation" /\ Running(r) =>
        /\ status[call[r].i] = "unused"
        /\ \A d \in Requests : call[d].i = call[r].i => d = r

(* An acceptance has its invitation locked once it has found it acceptable.  *)
AcceptorLocks(r) ==
    LET c == call[r] IN
    /\ c.op = "AcceptInvitation"
    /\ pc[r] \in {"insertMember", "acceptInvitation", "commit"}
    => invitationLock[c.i] = r /\ VerifiedEmail[c.u] = InvitationEmail[c.i]

(* A revocation has it locked too, or it has found it gone.                  *)
RevokerLocks(r) ==
    LET c == call[r] IN
    c.op = "DeleteInvitation" =>
        /\ Running(r) => owner[c.p] = c.u
        /\ pc[r] \in {"deleteInvitation", "audit", "shareProject", "commit"} =>
              InvitationProject[c.i] = c.p /\ status[c.i] # "unused"
        /\ pc[r] \in {"audit", "shareProject", "commit"} =>
              invitationLock[c.i] = r \/ status[c.i] = "deleted"

(* Who has an entry in the unique index has locked the pending invitation it *)
(* is for, if there is one ...                                               *)
PendingEntries(r) ==
    \A p \in Projects, e \in Emails : pendingLock[p][e] = r =>
        \A i \in Invitations :
            status[i] = "pending" /\ InvitationProject[i] = p /\ InvitationEmail[i] = e
                => invitationLock[i] = r

(* ... and an invitation is not created without one.                         *)
CreatorHolds(r) ==
    LET c == call[r] IN
    c.op = "CreateInvitation" /\ pc[r] \in {"audit", "shareProject", "commit"} =>
        pendingLock[c.p][InvitationEmail[c.i]] = r

(* The deletion of a project has locked what it cascades to.                 *)
DeleterLocks(r) ==
    LET p == call[r].p IN
    call[r].op = "DeleteProject" =>
        /\ pc[r] \in {"cascadeInvitations", "commit"} =>
              \A u \in members[p] : memberLock[p][u] = r
        /\ pc[r] = "commit" =>
              \A i \in ProjectInvitations(p) : invitationLock[i] = r

(* A locked member row is still there, or not yet when r inserts it.         *)
LockedMembers(r) ==
    \A p \in Projects, u \in Users : memberLock[p][u] = r =>
        (u \in members[p] <=> call[r].op # "AcceptInvitation")

RowLocks(r) ==
    /\ LockedInvitations(r) /\ NewInvitation(r)
    /\ AcceptorLocks(r) /\ RevokerLocks(r)
    /\ PendingEntries(r) /\ CreatorHolds(r)
    /\ DeleterLocks(r) /\ LockedMembers(r)

InvitationsInv == OnePendingPerEmail /\ \A r \in Requests : RowLocks(r)

(* An audit row is of a request that has committed; that of an acceptance or *)
(* of a revocation still agrees with the invitation it is about.             *)
LogAgrees ==
    \A p \in Projects : \A e \in log[p] :
        /\ e.req \in Requests => pc[e.req] = "done"
        /\ e.action = "invitation.accepted" /\ e.subject # None =>
              e.subject \in Invitations /\ status[e.subject] \in {"accepted", "deleted"}
        /\ e.action = "invitation.revoked" =>
              e.subject \in Invitations /\ status[e.subject] = "deleted"

FiniteHistories ==
    \A p \in Projects, u \in Users :
        IsFiniteSet(Joins(p, u)) /\ IsFiniteSet(Departures(p, u))

LogInv ==
    LogAgrees /\ FiniteHistories /\ AcceptedOnce /\ AuditAccountsForMembership

TransactionsInv == ProjectsInv /\ InvitationsInv /\ LogInv

(* Where a transaction can be when it has an entry in the unique index.      *)
PendersInv ==
    \A r \in Requests, p \in Projects, e \in Emails :
        pendingLock[p][e] = r =>
            /\ call[r].op \in {"CreateInvitation", "DeleteInvitation", "AcceptInvitation"}
            /\ p = call[r].p /\ e = InvitationEmail[call[r].i]
            /\ pc[r] \in {"insertInvitation", "audit", "shareProject", "commit"}

SharingInv == TransactionsInv /\ PendersInv

-----------------------------------------------------------------------------
Contract == INSTANCE SharingContract

(* The transactions implement the contract: each one that commits changes    *)
(* the tables as one operation that is allowed when it commits, whatever it  *)
(* read before and whatever committed in between.                            *)
ImplementsContract == Contract!ContractSpec

=============================================================================
