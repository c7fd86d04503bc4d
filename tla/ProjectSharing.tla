--------------------------- MODULE ProjectSharing ---------------------------
(***************************************************************************)
(* Projects, their members and their invitations, as the tenancy API       *)
(* changes them (postgres-project-tenancy/internal/store/sharing.go and    *)
(* users_projects.go, with the policies, triggers and functions of         *)
(* migrations/001_init.sql).                                               *)
(*                                                                         *)
(* A request is one READ COMMITTED transaction and runs concurrently with  *)
(* the others.  A step is one SQL statement: it reads what is committed    *)
(* when it runs, waits for the row locks other transactions hold, and      *)
(* keeps the locks it takes until its transaction ends.  What a            *)
(* transaction wrote is what it has locked: it shows in the tables when    *)
(* the transaction commits, all at once.                                   *)
(***************************************************************************)
EXTENDS Naturals, FiniteSets

CONSTANTS
    Users, Emails, Projects, Invitations,
    Requests,          \* the requests of a behaviour, each served once
    Operations,        \* the endpoints that are called (bounds a run)
    VerifiedEmail,     \* the verified primary email of each user, or None
    InvitationProject, \* the project an invitation id is drawn for
    InvitationEmail,   \* and the email it is drawn for
    ReturningChecked,  \* does INSERT ... RETURNING apply the SELECT policy?
    None

AllOperations ==
    { "CreateProject", "DeleteProject", "RemoveMember", "LeaveProject",
      "CreateInvitation", "DeleteInvitation", "AcceptInvitation" }

ASSUME OperationsAssumption == Operations \subseteq AllOperations

ASSUME IdsAssumption ==
    /\ None \notin Users \cup Emails \cup Projects \cup Invitations \cup Requests
    /\ InvitationProject \in [Invitations -> Projects]
    /\ InvitationEmail \in [Invitations -> Emails]
    /\ ReturningChecked \in BOOLEAN

(* A verified email belongs to one account (user_account_verified_email_uq). *)
ASSUME EmailAssumption ==
    /\ VerifiedEmail \in [Users -> Emails \cup {None}]
    /\ \A u, v \in Users :
          VerifiedEmail[u] = VerifiedEmail[v] /\ VerifiedEmail[u] # None => u = v

VARIABLES
    live,       \* the rows of app.project
    owner,      \* project.owner_user_id, None for an id not yet generated
    members,    \* the rows of app.project_member, by project
    status,     \* project_invitation.status, "unused" or "deleted" without a row
    lapsed,     \* has the clock passed expires_at?
    log         \* the rows of app.project_audit_event, by project

VARIABLES
    call,       \* the operation of a request, its caller and its arguments
    pc,         \* the statement its transaction runs next
    code        \* the answer: the error of errors.go, or "ok"

VARIABLES
    projectLock,    \* the transaction that deletes a project row, or None
    keyShare,       \* those that hold FOR KEY SHARE on it, for a foreign key
    memberLock,     \* the transaction that inserts or deletes a member row
    invitationLock, \* the one that updates, deletes or selects FOR UPDATE
    pendingLock     \* the one with an uncommitted entry in the unique index
                    \* project_invitation_pending_email_uq

tables == <<live, owner, members, status, lapsed, log>>
locks  == <<projectLock, keyShare, memberLock, invitationLock, pendingLock>>
vars   == <<tables, call, pc, code, locks>>

-----------------------------------------------------------------------------
(* Identifiers and types *)

Statuses == { "unused", "pending", "accepted", "deleted" }

Codes == { "none", "ok", "notFound", "forbidden", "conflict", "precondition",
           "validation", "internal" }

Steps == { "idle", "deleteMember", "audit", "shareProject", "lockProject",
           "cascadeMembers", "cascadeInvitations", "mutationState",
           "deleteLapsed", "insertInvitation", "readStatus",
           "deleteInvitation", "lockInvitation", "insertMember",
           "acceptInvitation", "commit", "done" }

Actions == { "project.created", "member.removed", "member.left",
             "invitation.created", "invitation.revoked", "invitation.accepted" }

Calls == [ op : AllOperations \cup {"none"}, u : Users \cup {None},
           p : Projects \cup {None}, m : Users \cup {None},
           i : Invitations \cup {None}, stale : BOOLEAN ]

(* The call of op by u on project p, about member m or invitation i.         *)
(* "stale": for AcceptInvitation, expires_at had passed when its statement   *)
(* started; for DeleteProject, If-Match is not the version of the row.       *)
Call(op, u, p, m, i, stale) ==
    [op |-> op, u |-> u, p |-> p, m |-> m, i |-> i, stale |-> stale]

NoCall == Call("none", None, None, None, None, FALSE)

(* An audit row: the request that wrote it (None for one of an earlier       *)
(* request), its actor and the user or invitation it is about.  "joined" and *)
(* the invitation of an acceptance are not in the row: the first is the      *)
(* membership_created of the response, the second its request body.          *)
Events == [ req : Requests \cup {None}, action : Actions, actor : Users,
            subject : Users \cup Invitations \cup {None}, joined : BOOLEAN ]

Holder == Requests \cup {None}

-----------------------------------------------------------------------------
(* The authorization helpers and policies of the migration *)

HasProjectAccess(u, p) == u \in members[p]

IsProjectOwner(u, p) == p \in live /\ owner[p] = u

ProjectVisible(u, p) == p \in live /\ HasProjectAccess(u, p)

(* project_delete_owner, with the SELECT policy the WHERE clause adds.       *)
ProjectDeletable(u, p) == ProjectVisible(u, p) /\ IsProjectOwner(u, p)

(* project_member_delete_owner_or_self, with the SELECT policy that a DELETE *)
(* with a WHERE clause also applies.                                         *)
MemberDeletable(u, p, m) ==
    /\ m \in members[p]
    /\ HasProjectAccess(u, p)
    /\ \/ IsProjectOwner(u, p) /\ m # u
       \/ ~IsProjectOwner(u, p) /\ m = u

(* A bug: without the trigger. *)
NoOwnerMembership(u) == {}

(* The rows AFTER INSERT trigger add_owner_membership adds. *)
OwnerMembership(u) == {u}

EnsureOwner(u, p) ==
    IF ~ProjectVisible(u, p) THEN "notFound"
    ELSE IF owner[p] # u THEN "forbidden" ELSE "ok"

HasRow(i) == status[i] \in { "pending", "accepted" }

SamePending(i, j) ==
    /\ status[j] = "pending"
    /\ InvitationProject[j] = InvitationProject[i]
    /\ InvitationEmail[j] = InvitationEmail[i]

(* What CreateInvitation deletes before it inserts i. *)
LapsedPending(i) == { j \in Invitations : SamePending(i, j) /\ lapsed[j] }

-----------------------------------------------------------------------------
(* Transactions: serving a request, waiting for a lock, ending *)

Serve(r, c) ==
    /\ pc[r] = "idle"
    /\ c.op \in Operations
    /\ call' = [call EXCEPT ![r] = c]

Goto(r, step) == pc' = [pc EXCEPT ![r] = step] /\ UNCHANGED <<code, locks>>

Advance(r, step) == pc' = [pc EXCEPT ![r] = step] /\ UNCHANGED code

(* The locks of a transaction are released when it ends. *)
Release(r) ==
    /\ projectLock' =
         [p \in Projects |-> IF projectLock[p] = r THEN None ELSE projectLock[p]]
    /\ keyShare' = [p \in Projects |-> keyShare[p] \ {r}]
    /\ memberLock' =
         [p \in Projects |-> [u \in Users |->
             IF memberLock[p][u] = r THEN None ELSE memberLock[p][u]]]
    /\ invitationLock' =
         [i \in Invitations |->
             IF invitationLock[i] = r THEN None ELSE invitationLock[i]]
    /\ pendingLock' =
         [p \in Projects |-> [e \in Emails |->
             IF pendingLock[p][e] = r THEN None ELSE pendingLock[p][e]]]

(* A bug: withUserTx without the deferred Rollback. *)
AnswerWithoutRollback(r, c) ==
    /\ pc' = [pc EXCEPT ![r] = "done"]
    /\ code' = [code EXCEPT ![r] = c]
    /\ IF c # "ok" THEN UNCHANGED locks ELSE Release(r)

(* COMMIT or ROLLBACK, and the answer to the request. *)
Answer(r, c) ==
    /\ pc' = [pc EXCEPT ![r] = "done"]
    /\ code' = [code EXCEPT ![r] = c]
    /\ Release(r)

Others(r, S) == S \ {r, None}

(* A bug: rows without the foreign key to their project. *)
NoForeignKey(r) == {}

(* A bug: the project row is locked FOR UPDATE, and not FOR KEY SHARE.        *)
ForUpdateBlockers(r) ==
    Others(r, {projectLock[call[r].p]} \cup keyShare[call[r].p])

KeyShareBlockers(r) == Others(r, {projectLock[call[r].p]})

ProjectBlockers(r) ==
    Others(r, {projectLock[call[r].p]} \cup keyShare[call[r].p])

MemberBlockers(r, U) == Others(r, {memberLock[call[r].p][u] : u \in U})

InvitationBlockers(r, I) == Others(r, {invitationLock[i] : i \in I})

(* A bug: the unique index of pending invitations dropped for a SELECT. *)
NoUniqueIndex(r) == {}

PendingBlockers(r) ==
    Others(r, {pendingLock[call[r].p][InvitationEmail[call[r].i]]})

(* The rows of app.project_invitation that (project, id) selects for u under *)
(* the owner policies.                                                       *)
Selected(u, p, i) ==
    { j \in {i} : HasRow(j) /\ InvitationProject[j] = p /\ IsProjectOwner(u, p) }

ProjectInvitations(p) ==
    { i \in Invitations : InvitationProject[i] = p /\ HasRow(i) }

(* The next statement of r waits for the end of d.  A row that does not      *)
(* match the statement is not locked, and not waited for.                    *)
Waits(r, d) ==
    LET c == call[r] IN
    \/ /\ pc[r] = "deleteMember"
       /\ d \in MemberBlockers(r, {m \in {c.m} : MemberDeletable(c.u, c.p, m)})
    \/ pc[r] = "shareProject" /\ d \in KeyShareBlockers(r)
    \/ /\ pc[r] = "lockProject"
       /\ ProjectDeletable(c.u, c.p) /\ ~c.stale /\ d \in ProjectBlockers(r)
    \/ pc[r] = "cascadeMembers" /\ d \in MemberBlockers(r, members[c.p])
    \/ /\ pc[r] = "cascadeInvitations"
       /\ d \in InvitationBlockers(r, ProjectInvitations(c.p))
    \/ pc[r] = "deleteLapsed" /\ d \in InvitationBlockers(r, LapsedPending(c.i))
    \/ /\ pc[r] = "insertInvitation"
       /\ d \in PendingBlockers(r) \cup KeyShareBlockers(r)
    \/ /\ pc[r] = "deleteInvitation"
       /\ d \in InvitationBlockers(r, Selected(c.u, c.p, c.i))
    \/ /\ pc[r] = "lockInvitation"
       /\ d \in InvitationBlockers(r, {i \in {c.i} : HasRow(i)})
    \/ /\ pc[r] = "insertMember"
       /\ \/ d \in MemberBlockers(r, {c.u})
          \/ c.u \notin members[c.p] /\ d \in KeyShareBlockers(r)
    \/ pc[r] = "acceptInvitation" /\ d \in KeyShareBlockers(r)

Blockers(r) == { d \in Requests : Waits(r, d) }

At(r, step) == pc[r] = step /\ Blockers(r) = {}

(* The foreign key check of a row inserted for project p. *)
KeyShare(r, p) == keyShare' = [keyShare EXCEPT ![p] = @ \cup {r}]

-----------------------------------------------------------------------------
(* Requests: the checks before the first write *)

(* A project id is random: nobody names it before it is generated. *)
Generated(p) == owner[p] # None

Unnamed(p) == ~Generated(p) /\ \A r \in Requests : call[r].p # p

(* INSERT ... RETURNING: the row passes project_insert_owner.  RETURNING     *)
(* also applies project_select_member to it, before the trigger has added    *)
(* the owner's membership; its 42501 is none of the messages classify knows. *)
CreateProject(r, u, p) ==
    /\ Serve(r, Call("CreateProject", u, p, None, None, FALSE))
    /\ Unnamed(p)
    /\ IF ReturningChecked /\ ~HasProjectAccess(u, p)
       THEN Answer(r, "internal")
       ELSE Goto(r, "commit")
    /\ UNCHANGED tables

DeleteProject(r, u, p, stale) ==
    /\ Serve(r, Call("DeleteProject", u, p, None, None, stale))
    /\ Generated(p)
    /\ Goto(r, "lockProject")
    /\ UNCHANGED tables

RemoveMember(r, u, p, m) ==
    /\ Serve(r, Call("RemoveMember", u, p, m, None, FALSE))
    /\ Generated(p)
    /\ LET c == EnsureOwner(u, p) IN
       \/ c # "ok" /\ Answer(r, c)
       \/ c = "ok" /\ m = u /\ Answer(r, "conflict")
       \/ c = "ok" /\ m # u /\ Goto(r, "deleteMember")
    /\ UNCHANGED tables

LeaveProject(r, u, p) ==
    /\ Serve(r, Call("LeaveProject", u, p, u, None, FALSE))
    /\ Generated(p)
    /\ \/ ~ProjectVisible(u, p) /\ Answer(r, "notFound")
       \/ ProjectVisible(u, p) /\ owner[p] = u /\ Answer(r, "conflict")
       \/ ProjectVisible(u, p) /\ owner[p] # u /\ Goto(r, "audit")
    /\ UNCHANGED tables

CreateInvitation(r, u, i) ==
    LET p == InvitationProject[i]
        c == EnsureOwner(u, p)
    IN  /\ Serve(r, Call("CreateInvitation", u, p, None, i, FALSE))
        /\ Generated(p)
        /\ status[i] = "unused" /\ \A d \in Requests : call[d].i # i
        /\ \/ c # "ok" /\ Answer(r, c)
           \/ c = "ok" /\ Goto(r, "deleteLapsed")
        /\ UNCHANGED tables

DeleteInvitation(r, u, p, i) ==
    /\ Serve(r, Call("DeleteInvitation", u, p, None, i, FALSE))
    /\ Generated(p)
    /\ status[i] # "unused"
    /\ LET c == EnsureOwner(u, p) IN
       \/ c # "ok" /\ Answer(r, c)
       \/ c = "ok" /\ Goto(r, "readStatus")
    /\ UNCHANGED tables

(* The token of i in the body; statement_timestamp() is read here, before    *)
(* any wait for the invitation row.                                          *)
AcceptInvitation(r, u, i) ==
    /\ Serve(r, Call("AcceptInvitation", u, InvitationProject[i], None, i, lapsed[i]))
    /\ status[i] # "unused"
    /\ Goto(r, "lockInvitation")
    /\ UNCHANGED tables

-----------------------------------------------------------------------------
(* Statements shared by several operations *)

(* DELETE FROM app.project_member of RemoveMember and LeaveProject. *)
DeleteMemberRow(r) ==
    LET c == call[r] IN
    /\ At(r, "deleteMember")
    /\ IF MemberDeletable(c.u, c.p, c.m)
       THEN /\ memberLock' = [memberLock EXCEPT ![c.p][c.m] = r]
            /\ Advance(r, IF c.op = "RemoveMember" THEN "audit" ELSE "commit")
            /\ UNCHANGED <<projectLock, keyShare, invitationLock, pendingLock>>
       ELSE IF c.op = "RemoveMember" THEN Goto(r, "commit") ELSE Answer(r, "notFound")
    /\ UNCHANGED <<tables, call>>

(* write_project_audit_event: the access check ...                           *)
Audit(r) ==
    /\ At(r, "audit")
    /\ IF HasProjectAccess(call[r].u, call[r].p)
       THEN Goto(r, "shareProject")
       ELSE Answer(r, "forbidden")
    /\ UNCHANGED <<tables, call>>

(* ... then the insert, whose foreign key waits for a deletion of the        *)
(* project and fails (23503) once the project is gone.                       *)
ShareProject(r) ==
    LET c == call[r] IN
    /\ At(r, "shareProject")
    /\ IF c.p \in live
       THEN /\ KeyShare(r, c.p)
            /\ Advance(r, IF c.op = "LeaveProject" THEN "deleteMember" ELSE "commit")
            /\ UNCHANGED <<projectLock, memberLock, invitationLock, pendingLock>>
       ELSE Answer(r, "validation")
    /\ UNCHANGED <<tables, call>>

-----------------------------------------------------------------------------
(* DeleteProject: the row, then the rows that ON DELETE CASCADE reaches *)

LockProject(r) ==
    LET c == call[r] IN
    /\ At(r, "lockProject")
    /\ IF ProjectDeletable(c.u, c.p) /\ ~c.stale
       THEN /\ projectLock' = [projectLock EXCEPT ![c.p] = r]
            /\ Advance(r, "cascadeMembers")
            /\ UNCHANGED <<keyShare, memberLock, invitationLock, pendingLock>>
       ELSE Goto(r, "mutationState")
    /\ UNCHANGED <<tables, call>>

(* ErrPrecondition, or ErrConflict when an update, which this module leaves  *)
(* out, has made the version the one of If-Match by now.                     *)
ProjectMutationState(r) ==
    LET e == EnsureOwner(call[r].u, call[r].p) IN
    /\ At(r, "mutationState")
    /\ \E c \in IF e = "ok" THEN {"precondition", "conflict"} ELSE {e} : Answer(r, c)
    /\ UNCHANGED <<tables, call>>

CascadeMembers(r) ==
    LET p == call[r].p IN
    /\ At(r, "cascadeMembers")
    /\ memberLock' = [memberLock EXCEPT ![p] =
          [u \in Users |-> IF u \in members[p] THEN r ELSE memberLock[p][u]]]
    /\ Advance(r, "cascadeInvitations")
    /\ UNCHANGED <<tables, call, projectLock, keyShare, invitationLock, pendingLock>>

CascadeInvitations(r) ==
    /\ At(r, "cascadeInvitations")
    /\ invitationLock' = [i \in Invitations |->
          IF i \in ProjectInvitations(call[r].p) THEN r ELSE invitationLock[i]]
    /\ Advance(r, "commit")
    /\ UNCHANGED <<tables, call, projectLock, keyShare, memberLock, pendingLock>>

-----------------------------------------------------------------------------
(* CreateInvitation and DeleteInvitation *)

Pend(r) == pendingLock' =
    [pendingLock EXCEPT ![call[r].p][InvitationEmail[call[r].i]] = r]

DeleteLapsed(r) ==
    LET lapsedRows == LapsedPending(call[r].i) IN
    /\ At(r, "deleteLapsed")
    /\ invitationLock' =
         [j \in Invitations |-> IF j \in lapsedRows THEN r ELSE invitationLock[j]]
    /\ IF lapsedRows = {} THEN UNCHANGED pendingLock ELSE Pend(r)
    /\ Advance(r, "insertInvitation")
    /\ UNCHANGED <<tables, call, projectLock, keyShare, memberLock>>

(* A project deleted before the statement started fails the INSERT policy    *)
(* (42501, answered 500), one deleted while it waited fails the foreign key. *)
(* The waits for the index entry and for the project are one: who waits for  *)
(* the project with the entry claimed only keeps others of its own kind      *)
(* waiting, who wait for the project too.                                    *)
InsertInvitation(r) ==
    LET c == call[r]
        duplicates == { j \in Invitations : SamePending(c.i, j) /\ invitationLock[j] # r }
    IN  /\ At(r, "insertInvitation")
        /\ \/ /\ c.p \notin live
              /\ \E error \in {"internal", "validation"} : Answer(r, error)
           \/ c.p \in live /\ duplicates # {} /\ Answer(r, "conflict")
           \/ /\ c.p \in live /\ duplicates = {}
              /\ Pend(r)
              /\ KeyShare(r, c.p)
              /\ Advance(r, "audit")
              /\ UNCHANGED <<projectLock, memberLock, invitationLock>>
        /\ UNCHANGED <<tables, call>>

ReadStatus(r) ==
    LET c == call[r]
        row == Selected(c.u, c.p, c.i)
    IN  /\ At(r, "readStatus")
        /\ \/ row = {} /\ Answer(r, "ok")
           \/ row # {} /\ status[c.i] # "pending" /\ Answer(r, "conflict")
           \/ row # {} /\ status[c.i] = "pending" /\ Goto(r, "deleteInvitation")
        /\ UNCHANGED <<tables, call>>

(* The DELETE is by id, whatever the status is by now, and goes on to the    *)
(* audit event whether it found the row or not.                              *)
DeleteInvitationRow(r) ==
    LET row == Selected(call[r].u, call[r].p, call[r].i) IN
    /\ At(r, "deleteInvitation")
    /\ invitationLock' =
         [i \in Invitations |-> IF i \in row THEN r ELSE invitationLock[i]]
    /\ IF \E i \in row : status[i] = "pending" THEN Pend(r) ELSE UNCHANGED pendingLock
    /\ Advance(r, "audit")
    /\ UNCHANGED <<tables, call, projectLock, keyShare, memberLock>>

-----------------------------------------------------------------------------
(* AcceptInvitation: the statements of accept_project_invitation *)

(* A bug: the status is not looked at. *)
AcceptErrorWithoutStatus(r) ==
    LET c == call[r] IN
    IF ~HasRow(c.i) THEN "notFound"
    ELSE IF c.stale THEN "conflict"
    ELSE IF VerifiedEmail[c.u] # InvitationEmail[c.i] THEN "forbidden" ELSE "ok"

AcceptError(r) ==
    LET c == call[r] IN
    IF ~HasRow(c.i) THEN "notFound"
    ELSE IF status[c.i] # "pending" \/ c.stale THEN "conflict"
    ELSE IF VerifiedEmail[c.u] # InvitationEmail[c.i] THEN "forbidden" ELSE "ok"

(* A bug: SELECT without FOR UPDATE. *)
SelectInvitation(r) ==
    /\ pc[r] = "lockInvitation"
    /\ \/ AcceptError(r) # "ok" /\ Answer(r, AcceptError(r))
       \/ AcceptError(r) = "ok" /\ Goto(r, "insertMember")
    /\ UNCHANGED <<tables, call>>

LockInvitation(r) ==
    /\ At(r, "lockInvitation")
    /\ \/ AcceptError(r) # "ok" /\ Answer(r, AcceptError(r))
       \/ /\ AcceptError(r) = "ok"
          /\ invitationLock' = [invitationLock EXCEPT ![call[r].i] = r]
          /\ Advance(r, "insertMember")
          /\ UNCHANGED <<projectLock, keyShare, memberLock, pendingLock>>
    /\ UNCHANGED <<tables, call>>

(* ON CONFLICT DO NOTHING: a row that is there is neither changed nor locked. *)
InsertMember(r) ==
    LET c == call[r] IN
    /\ At(r, "insertMember")
    /\ IF c.u \in members[c.p]
       THEN Goto(r, "acceptInvitation")
       ELSE IF c.p \in live
       THEN /\ memberLock' = [memberLock EXCEPT ![c.p][c.u] = r]
            /\ KeyShare(r, c.p)
            /\ Advance(r, "acceptInvitation")
            /\ UNCHANGED <<projectLock, invitationLock, pendingLock>>
       ELSE Answer(r, "validation")
    /\ UNCHANGED <<tables, call>>

(* The UPDATE of the invitation and the INSERT of the audit event, one after *)
(* the other in the function; only the foreign keys of both rows can wait.   *)
MarkAccepted(r) ==
    LET c == call[r] IN
    /\ At(r, "acceptInvitation")
    /\ IF c.p \in live
       THEN /\ Pend(r)
            /\ KeyShare(r, c.p)
            /\ Advance(r, "commit")
            /\ UNCHANGED <<projectLock, memberLock, invitationLock>>
       ELSE Answer(r, "validation")
    /\ UNCHANGED <<tables, call>>

-----------------------------------------------------------------------------
(* COMMIT: what the transaction wrote becomes visible *)

Record(r, action, subject, joined) ==
    log' = [log EXCEPT ![call[r].p] = @ \cup
        {[req |-> r, action |-> action, actor |-> call[r].u,
          subject |-> subject, joined |-> joined]}]

CommitCreateProject(r) ==
    LET c == call[r] IN
    /\ c.op = "CreateProject"
    /\ live' = live \cup {c.p}
    /\ owner' = [owner EXCEPT ![c.p] = c.u]
    /\ members' = [members EXCEPT ![c.p] = OwnerMembership(c.u)]
    /\ Record(r, "project.created", None, FALSE)
    /\ UNCHANGED <<status, lapsed>>

CommitDeleteProject(r) ==
    LET p == call[r].p IN
    /\ call[r].op = "DeleteProject"
    /\ live' = live \ {p}
    /\ members' = [members EXCEPT ![p] = {}]
    /\ status' = [i \in Invitations |->
          IF i \in ProjectInvitations(p) THEN "deleted" ELSE status[i]]
    /\ log' = [log EXCEPT ![p] = {}]
    /\ UNCHANGED <<owner, lapsed>>

(* A bug: the audit event does not depend on RowsAffected. *)
CommitMemberDeletionAlwaysAudited(r) ==
    LET c == call[r] IN
    /\ c.op \in {"RemoveMember", "LeaveProject"}
    /\ members' = [members EXCEPT ![c.p] = @ \ {c.m}]
    /\ Record(r, IF c.op = "RemoveMember" THEN "member.removed" ELSE "member.left",
               c.m, FALSE)
    /\ UNCHANGED <<live, owner, status, lapsed>>

CommitMemberDeletion(r) ==
    LET c == call[r] IN
    /\ c.op \in {"RemoveMember", "LeaveProject"}
    /\ IF memberLock[c.p][c.m] = r
       THEN /\ members' = [members EXCEPT ![c.p] = @ \ {c.m}]
            /\ Record(r, IF c.op = "RemoveMember" THEN "member.removed"
                                                  ELSE "member.left", c.m, FALSE)
       ELSE UNCHANGED <<members, log>>
    /\ UNCHANGED <<live, owner, status, lapsed>>

CommitCreateInvitation(r) ==
    LET c == call[r] IN
    /\ c.op = "CreateInvitation"
    /\ status' = [j \in Invitations |->
          IF j = c.i THEN "pending"
          ELSE IF invitationLock[j] = r THEN "deleted" ELSE status[j]]
    /\ Record(r, "invitation.created", c.i, FALSE)
    /\ UNCHANGED <<live, owner, members, lapsed>>

CommitDeleteInvitation(r) ==
    LET c == call[r] IN
    /\ c.op = "DeleteInvitation"
    /\ status' = [j \in Invitations |->
          IF invitationLock[j] = r THEN "deleted" ELSE status[j]]
    /\ Record(r, "invitation.revoked", c.i, FALSE)
    /\ UNCHANGED <<live, owner, members, lapsed>>

CommitAcceptInvitation(r) ==
    LET c == call[r]
        joined == memberLock[c.p][c.u] = r
    IN  /\ c.op = "AcceptInvitation"
        /\ members' = IF joined THEN [members EXCEPT ![c.p] = @ \cup {c.u}] ELSE members
        /\ status' = [status EXCEPT ![c.i] = "accepted"]
        /\ Record(r, "invitation.accepted", c.i, joined)
        /\ UNCHANGED <<live, owner, lapsed>>

(* withUserTx answers with its result, or with the error of tx.Commit when   *)
(* the server has committed and its reply is lost.                           *)
Commit(r) ==
    /\ At(r, "commit")
    /\ \/ CommitCreateProject(r)
       \/ CommitDeleteProject(r)
       \/ CommitMemberDeletion(r)
       \/ CommitCreateInvitation(r)
       \/ CommitDeleteInvitation(r)
       \/ CommitAcceptInvitation(r)
    /\ \E c \in {"ok", "internal"} : Answer(r, c)
    /\ UNCHANGED call

-----------------------------------------------------------------------------
(* The environment: time, lost connections, deadlock detection *)

Lapse(i) ==
    /\ HasRow(i) /\ ~lapsed[i]
    /\ lapsed' = [lapsed EXCEPT ![i] = TRUE]
    /\ UNCHANGED <<live, owner, members, status, log, call, pc, code, locks>>

Running(r) == pc[r] \notin { "idle", "done" }

(* The client goes away, the connection breaks or the API stops before       *)
(* COMMIT is executed: the deferred Rollback of withUserTx, or PostgreSQL    *)
(* itself, undoes everything.                                                *)
Abort(r) ==
    /\ Running(r)
    /\ Answer(r, "internal")
    /\ UNCHANGED <<tables, call>>

(* r waits, through others, for itself: it is in every set of transactions   *)
(* that holds those it waits for and is closed under waiting.                *)
Deadlocked(r) ==
    \A S \in SUBSET Requests :
        Blockers(r) \subseteq S /\ (\A d \in S : Blockers(d) \subseteq S) => r \in S

(* PostgreSQL fails one of the waiting transactions with 40P01, which        *)
(* classify passes through and the API answers with 500.                     *)
DeadlockVictim(r) ==
    /\ Running(r)
    /\ Deadlocked(r)
    /\ Answer(r, "internal")
    /\ UNCHANGED <<tables, call>>

-----------------------------------------------------------------------------
(* Rows of earlier requests: any set of projects, with their owners and      *)
(* members who accepted an invitation, and open invitations.                 *)

JoinedEarlier(u) == [req |-> None, action |-> "invitation.accepted", actor |-> u,
                     subject |-> None, joined |-> TRUE]

InitTables ==
    /\ live \in SUBSET Projects
    /\ owner \in [Projects -> Users \cup {None}]
    /\ members \in [Projects -> SUBSET Users]
    /\ \A p \in Projects :
         /\ p \in live <=> owner[p] # None
         /\ p \in live => OwnerMembership(owner[p]) \subseteq members[p]
         /\ p \notin live => members[p] = {}
    /\ status \in [Invitations -> {"unused", "pending"}]
    /\ lapsed \in [Invitations -> BOOLEAN]
    /\ \A i \in Invitations :
         /\ status[i] = "unused" => ~lapsed[i]
         /\ status[i] = "pending" => InvitationProject[i] \in live
         /\ \A j \in Invitations : SamePending(i, j) /\ SamePending(j, i) => i = j
    /\ log = [p \in Projects |->
                {JoinedEarlier(u) : u \in members[p] \ {owner[p]}}]

Init ==
    /\ InitTables
    /\ call = [r \in Requests |-> NoCall]
    /\ pc = [r \in Requests |-> "idle"]
    /\ code = [r \in Requests |-> "none"]
    /\ projectLock = [p \in Projects |-> None]
    /\ keyShare = [p \in Projects |-> {}]
    /\ memberLock = [p \in Projects |-> [u \in Users |-> None]]
    /\ invitationLock = [i \in Invitations |-> None]
    /\ pendingLock = [p \in Projects |-> [e \in Emails |-> None]]

Arrive(r) ==
    \E u \in Users :
        \/ \E p \in Projects : CreateProject(r, u, p)
        \/ \E p \in Projects, stale \in BOOLEAN : DeleteProject(r, u, p, stale)
        \/ \E p \in Projects, m \in Users : RemoveMember(r, u, p, m)
        \/ \E p \in Projects : LeaveProject(r, u, p)
        \/ \E i \in Invitations : CreateInvitation(r, u, i)
        \/ \E p \in Projects, i \in Invitations : DeleteInvitation(r, u, p, i)
        \/ \E i \in Invitations : AcceptInvitation(r, u, i)

Step(r) ==
    \/ DeleteMemberRow(r)
    \/ Audit(r)
    \/ ShareProject(r)
    \/ LockProject(r)
    \/ ProjectMutationState(r)
    \/ CascadeMembers(r)
    \/ CascadeInvitations(r)
    \/ DeleteLapsed(r)
    \/ InsertInvitation(r)
    \/ ReadStatus(r)
    \/ DeleteInvitationRow(r)
    \/ LockInvitation(r)
    \/ InsertMember(r)
    \/ MarkAccepted(r)
    \/ Commit(r)

Next ==
    \/ \E r \in Requests : Arrive(r) \/ Step(r) \/ DeadlockVictim(r) \/ Abort(r)
    \/ \E i \in Invitations : Lapse(i)

Spec == Init /\ [][Next]_vars

(* The pool runs the next statement of a transaction that can run, and       *)
(* PostgreSQL looks for deadlocks (deadlock_timeout).  Nobody has to call    *)
(* the API, and no connection has to break.                                  *)
Fairness == \A r \in Requests : WF_vars(Step(r)) /\ WF_vars(DeadlockVictim(r))

FairSpec == Spec /\ Fairness

=============================================================================
