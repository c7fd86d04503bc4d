------------------------ MODULE ProjectSharingProofs ------------------------
(***************************************************************************)
(* Proofs about ProjectSharing for every set of users, projects,           *)
(* invitations and concurrent requests.                                    *)
(***************************************************************************)
EXTENDS ProjectSharingProperties, FiniteSetTheorems, TLAPS

-----------------------------------------------------------------------------
(* What a statement waits for *)

LEMMA Waiting ==
    ASSUME TypeOK, ControlInv, NEW r \in Requests, Blockers(r) = {}
    PROVE  /\ pc[r] \in {"shareProject", "insertInvitation", "acceptInvitation"}
                => projectLock[call[r].p] \in {r, None}
           /\ pc[r] = "insertMember" /\ call[r].u \notin members[call[r].p]
                => projectLock[call[r].p] \in {r, None}
           /\ pc[r] = "lockProject" /\ ProjectDeletable(call[r].u, call[r].p)
                /\ ~call[r].stale
                => projectLock[call[r].p] \in {r, None}
                     /\ keyShare[call[r].p] \subseteq {r}
<1>1. ASSUME NEW d \in Requests PROVE ~Waits(r, d)
  BY DEF Blockers
<1>2. pc[r] # "idle" =>
          /\ projectLock[call[r].p] \in Requests \cup {None}
          /\ keyShare[call[r].p] \subseteq Requests
  BY DEF TypeOK, RequestsOK, LocksOK, ControlInv, Holder
<1>3. ASSUME projectLock[call[r].p] \notin {r, None}, pc[r] # "idle"
      PROVE  /\ projectLock[call[r].p] \in Requests
             /\ projectLock[call[r].p] \in KeyShareBlockers(r)
             /\ projectLock[call[r].p] \in ProjectBlockers(r)
  BY <1>2, <1>3 DEF KeyShareBlockers, ProjectBlockers, Others
<1>4. CASE pc[r] \in {"shareProject", "insertInvitation", "acceptInvitation"}
  BY <1>1, <1>3, <1>4 DEF Waits
<1>5. CASE pc[r] = "insertMember"
  BY <1>1, <1>3, <1>5 DEF Waits
<1>6. CASE pc[r] = "lockProject"
  <2>1. \A d \in keyShare[call[r].p] : d # r =>
            d \in Requests /\ d \in ProjectBlockers(r)
    BY <1>2, <1>6, IdsAssumption DEF ProjectBlockers, Others
  <2>. QED
    BY <1>1, <1>3, <1>6, <2>1 DEF Waits
<1>. QED
  BY <1>4, <1>5, <1>6

-----------------------------------------------------------------------------
(* The end of a transaction *)

(* An answer releases the locks of its request and no others. *)
LEMMA Released ==
    ASSUME TypeOK, NEW r \in Requests, Release(r)
    PROVE  /\ LocksOK'
           /\ \A p \in Projects :
                 /\ keyShare'[p] = keyShare[p] \ {r}
                 /\ projectLock[p] # r => projectLock'[p] = projectLock[p]
                 /\ projectLock'[p] # r
           /\ \A p \in Projects, u \in Users :
                 /\ memberLock[p][u] # r => memberLock'[p][u] = memberLock[p][u]
                 /\ memberLock'[p][u] # r
           /\ \A p \in Projects : projectLock'[p] \in {None, projectLock[p]}
           /\ \A p \in Projects, u \in Users :
                 memberLock'[p][u] \in {None, memberLock[p][u]}
<1>1. r # None
  BY IdsAssumption
<1>2. LocksOK'
  BY DEF TypeOK, LocksOK, Release, Holder
<1>. QED
  BY <1>1, <1>2 DEF Release

(* A transaction that ends without having written anything. *)
LEMMA Answering ==
    ASSUME ProjectsInv, NEW r \in Requests, NEW c \in Codes,
           Answer(r, c), UNCHANGED <<tables, call>>, pc[r] # "idle"
    PROVE  ProjectsInv'
<1>. USE DEF ProjectsInv
<1>1. Release(r)
  BY DEF Answer
<1>2. /\ pc' \in [Requests -> Steps] /\ code' \in [Requests -> Codes]
      /\ pc'[r] = "done" /\ \A d \in Requests : d # r => pc'[d] = pc[d]
  BY DEF Answer, TypeOK, RequestsOK, Steps
<1>3. TypeOK'
  BY <1>1, <1>2, Released DEF TypeOK, TablesOK, RequestsOK, tables
<1>4. ControlInv'
  BY <1>2 DEF ControlInv
<1>5. OwnerInv'
  BY <1>2 DEF OwnerInv, Running, tables
<1>6. MemberLockInv'
  BY <1>1, <1>2, Released, IdsAssumption DEF MemberLockInv
<1>7. ProjectLockInv'
  <2>. USE <1>1, <1>2, Released, IdsAssumption DEF ProjectLockInv
  <2>1. SharedExists' /\ SharersWrite'
    BY DEF SharedExists, SharersWrite, tables
  <2>2. WritersShare'
    BY DEF WritersShare, Shares, ControlInv, MemberLockInv
  <2>3. LockedIsDeleted' /\ DeletedIsLocked'
    BY DEF LockedIsDeleted, DeletedIsLocked, ControlInv, tables
  <2>. QED
    BY <2>1, <2>2, <2>3
<1>8. OwnerIsMember' /\ NoOrphans'
  BY DEF OwnerIsMember, NoOrphans, ProjectInvitations, HasRow, tables
<1>. QED
  BY <1>3, <1>4, <1>5, <1>6, <1>7, <1>8

-----------------------------------------------------------------------------
(* The arrival of a request *)

(* A call that the router passes on: its caller and its arguments exist. *)
WellFormed(c) ==
    /\ c \in Calls
    /\ c.op \in AllOperations
    /\ c.u \in Users /\ c.p \in Projects
    /\ c.op \in {"RemoveMember", "LeaveProject"} => c.m \in Users
    /\ c.op \in {"CreateInvitation", "DeleteInvitation", "AcceptInvitation"} =>
          c.i \in Invitations
    /\ c.op \in {"CreateInvitation", "AcceptInvitation"} => c.p = InvitationProject[c.i]

LEMMA CallsWellFormed ==
    ASSUME NEW op \in AllOperations, NEW u \in Users, NEW p \in Projects,
           NEW m \in Users \cup {None}, NEW i \in Invitations \cup {None},
           NEW stale \in BOOLEAN,
           op \in {"RemoveMember", "LeaveProject"} => m \in Users,
           op \in {"CreateInvitation", "DeleteInvitation", "AcceptInvitation"} =>
               i \in Invitations,
           op \in {"CreateInvitation", "AcceptInvitation"} => p = InvitationProject[i]
    PROVE  WellFormed(Call(op, u, p, m, i, stale))
  BY DEF Call, WellFormed, Calls, AllOperations

(* A request that is refused at once. *)
LEMMA ArrivalRefused ==
    ASSUME ProjectsInv, NEW r \in Requests, NEW c, WellFormed(c), NEW e \in Codes,
           Serve(r, c), Answer(r, e), UNCHANGED tables
    PROVE  ProjectsInv'
<1>. USE DEF ProjectsInv
<1>1. Release(r)
  BY DEF Answer
<1>2. /\ pc' \in [Requests -> Steps] /\ code' \in [Requests -> Codes]
      /\ pc'[r] = "done" /\ \A d \in Requests : d # r => pc'[d] = pc[d]
  BY DEF Answer, TypeOK, RequestsOK, Steps
<1>3. /\ call' \in [Requests -> Calls] /\ pc[r] = "idle"
      /\ call'[r] = c /\ \A d \in Requests : d # r => call'[d] = call[d]
  BY DEF Serve, TypeOK, RequestsOK, WellFormed
<1>4. TypeOK'
  BY <1>1, <1>2, <1>3, Released DEF TypeOK, TablesOK, RequestsOK, tables
<1>5. ControlInv'
  BY <1>2, <1>3 DEF ControlInv, WellFormed, AllOperations
<1>6. OwnerInv'
  BY <1>2, <1>3 DEF OwnerInv, Running, tables
<1>7. MemberLockInv'
  BY <1>1, <1>2, <1>3, Released, IdsAssumption DEF MemberLockInv
<1>8. ProjectLockInv'
  <2>1. ASSUME NEW p \in Projects
        PROVE  /\ keyShare'[p] \subseteq keyShare[p] /\ keyShare[p] \subseteq Requests
               /\ r \notin keyShare'[p] /\ projectLock'[p] \in {None, projectLock[p]}
    BY <1>1, Released DEF TypeOK, LocksOK
  <2>2. SharedExists'
    BY <2>1 DEF ProjectLockInv, SharedExists, tables
  <2>3. SharersWrite'
    BY <1>3, <2>1 DEF ProjectLockInv, SharersWrite
  <2>. USE <1>1, <1>2, <1>3, Released, IdsAssumption DEF ProjectLockInv
  <2>4. WritersShare'
    BY DEF WritersShare, Shares, ControlInv, MemberLockInv
  <2>5. LockedIsDeleted' /\ DeletedIsLocked'
    BY DEF LockedIsDeleted, DeletedIsLocked, ControlInv, tables
  <2>. QED
    BY <2>2, <2>3, <2>4, <2>5
<1>9. OwnerIsMember' /\ NoOrphans'
  BY DEF OwnerIsMember, NoOrphans, ProjectInvitations, HasRow, tables
<1>. QED
  BY <1>4, <1>5, <1>6, <1>7, <1>8, <1>9

(* A request that goes on, to the first statement of its operation. *)
FirstStep(c, s) ==
    \/ c.op = "CreateProject" /\ s = "commit"
    \/ c.op = "DeleteProject" /\ s = "lockProject"
    \/ c.op = "RemoveMember" /\ s = "deleteMember"
    \/ c.op = "LeaveProject" /\ s = "audit"
    \/ c.op = "CreateInvitation" /\ s = "deleteLapsed"
    \/ c.op = "DeleteInvitation" /\ s = "readStatus"
    \/ c.op = "AcceptInvitation" /\ s = "lockInvitation"

LEMMA ArrivalTaken ==
    ASSUME ProjectsInv, NEW r \in Requests, NEW c, WellFormed(c), NEW s, FirstStep(c, s),
           Serve(r, c), Goto(r, s), UNCHANGED tables,
           c.op = "CreateProject" => Unnamed(c.p),
           c.op \in {"RemoveMember", "LeaveProject"} => owner[c.p] \notin {None, c.m}
    PROVE  ProjectsInv'
<1>. USE DEF ProjectsInv
<1>1. s \in Steps /\ UNCHANGED <<code, locks>>
  BY DEF FirstStep, Steps, Goto
<1>2. /\ pc' \in [Requests -> Steps]
      /\ pc'[r] = s /\ \A d \in Requests : d # r => pc'[d] = pc[d]
  BY <1>1 DEF Goto, TypeOK, RequestsOK
<1>3. /\ call' \in [Requests -> Calls] /\ pc[r] = "idle"
      /\ call'[r] = c /\ \A d \in Requests : d # r => call'[d] = call[d]
  BY DEF Serve, TypeOK, RequestsOK, WellFormed
<1>4. TypeOK'
  BY <1>1, <1>2, <1>3 DEF TypeOK, TablesOK, RequestsOK, LocksOK, tables, locks
<1>5. ControlInv'
  BY <1>2, <1>3 DEF ControlInv, WellFormed, AllOperations, FirstStep
<1>6. OwnerInv'
  BY <1>2, <1>3 DEF OwnerInv, Running, Unnamed, Generated, FirstStep, tables
<1>7. MemberLockInv'
  BY <1>1, <1>2, <1>3 DEF MemberLockInv, locks
<1>8. ProjectLockInv'
  <2>. USE <1>1, <1>2, <1>3 DEF ProjectLockInv, locks, tables
  <2>1. SharedExists' /\ SharersWrite'
    BY DEF SharedExists, SharersWrite, ControlInv, TypeOK, LocksOK
  <2>2. WritersShare'
    BY DEF WritersShare, Shares, FirstStep
  <2>3. LockedIsDeleted' /\ DeletedIsLocked'
    BY DEF LockedIsDeleted, DeletedIsLocked, ControlInv, FirstStep
  <2>. QED
    BY <2>1, <2>2, <2>3
<1>9. OwnerIsMember' /\ NoOrphans'
  BY DEF OwnerIsMember, NoOrphans, ProjectInvitations, HasRow, tables
<1>. QED
  BY <1>4, <1>5, <1>6, <1>7, <1>8, <1>9

LEMMA Arriving ==
    ASSUME ProjectsInv, NEW r \in Requests, Arrive(r)
    PROVE  ProjectsInv'
<1>1. PICK u \in Users :
        \/ \E p \in Projects : CreateProject(r, u, p)
        \/ \E p \in Projects, stale \in BOOLEAN : DeleteProject(r, u, p, stale)
        \/ \E p \in Projects, m \in Users : RemoveMember(r, u, p, m)
        \/ \E p \in Projects : LeaveProject(r, u, p)
        \/ \E i \in Invitations : CreateInvitation(r, u, i)
        \/ \E p \in Projects, i \in Invitations : DeleteInvitation(r, u, p, i)
        \/ \E i \in Invitations : AcceptInvitation(r, u, i)
  BY DEF Arrive
<1>2. {"notFound", "forbidden", "conflict", "internal"} \subseteq Codes
  BY DEF Codes
<1>3. \A p : EnsureOwner(u, p) \in Codes
  BY DEF EnsureOwner, Codes
<1>4. ASSUME NEW p \in Projects, CreateProject(r, u, p) PROVE ProjectsInv'
  <2>. DEFINE c == Call("CreateProject", u, p, None, None, FALSE)
  <2>1. WellFormed(c) /\ c.op = "CreateProject" /\ c.p = p
    BY CallsWellFormed DEF AllOperations, Call
  <2>2. FirstStep(c, "commit")
    BY <2>1 DEF FirstStep
  <2>. QED
    BY <1>2, <1>4, <2>1, <2>2, ArrivalRefused, ArrivalTaken DEF CreateProject
<1>5. ASSUME NEW p \in Projects, NEW stale \in BOOLEAN, DeleteProject(r, u, p, stale)
      PROVE  ProjectsInv'
  <2>. DEFINE c == Call("DeleteProject", u, p, None, None, stale)
  <2>1. WellFormed(c) /\ c.op = "DeleteProject"
    BY CallsWellFormed DEF AllOperations, Call
  <2>2. FirstStep(c, "lockProject")
    BY <2>1 DEF FirstStep
  <2>. QED
    BY <1>5, <2>1, <2>2, ArrivalTaken DEF DeleteProject
<1>6. ASSUME NEW p \in Projects, NEW m \in Users, RemoveMember(r, u, p, m)
      PROVE  ProjectsInv'
  <2>. DEFINE c == Call("RemoveMember", u, p, m, None, FALSE)
  <2>1. WellFormed(c) /\ c.op = "RemoveMember" /\ c.p = p /\ c.m = m
    BY CallsWellFormed DEF AllOperations, Call
  <2>2. FirstStep(c, "deleteMember")
    BY <2>1 DEF FirstStep
  <2>3. EnsureOwner(u, p) = "ok" => owner[p] = u
    BY DEF EnsureOwner
  <2>4. UNCHANGED tables /\ Serve(r, c) /\ owner[p] # None
    BY <1>6 DEF RemoveMember, Generated
  <2>5. CASE EnsureOwner(u, p) # "ok" /\ Answer(r, EnsureOwner(u, p))
    BY <1>3, <2>1, <2>4, <2>5, ArrivalRefused
  <2>6. CASE Answer(r, "conflict")
    BY <1>2, <2>1, <2>4, <2>6, ArrivalRefused
  <2>7. CASE EnsureOwner(u, p) = "ok" /\ m # u /\ Goto(r, "deleteMember")
    BY <2>1, <2>2, <2>3, <2>4, <2>7, ArrivalTaken
  <2>. QED
    BY <1>6, <2>5, <2>6, <2>7 DEF RemoveMember
<1>7. ASSUME NEW p \in Projects, LeaveProject(r, u, p) PROVE ProjectsInv'
  <2>. DEFINE c == Call("LeaveProject", u, p, u, None, FALSE)
  <2>1. WellFormed(c) /\ c.op = "LeaveProject" /\ c.p = p /\ c.m = u
    BY CallsWellFormed DEF AllOperations, Call
  <2>2. FirstStep(c, "audit")
    BY <2>1 DEF FirstStep
  <2>3. UNCHANGED tables /\ Serve(r, c) /\ owner[p] # None
    BY <1>7 DEF LeaveProject, Generated
  <2>4. CASE \E e \in {"notFound", "conflict"} : Answer(r, e)
    BY <1>2, <2>1, <2>3, <2>4, ArrivalRefused
  <2>5. CASE owner[p] # u /\ Goto(r, "audit")
    BY <2>1, <2>2, <2>3, <2>5, ArrivalTaken
  <2>. QED
    BY <1>7, <2>4, <2>5 DEF LeaveProject
<1>8. ASSUME NEW i \in Invitations, CreateInvitation(r, u, i) PROVE ProjectsInv'
  <2>. DEFINE p == InvitationProject[i]
              c == Call("CreateInvitation", u, p, None, i, FALSE)
  <2>1. WellFormed(c) /\ c.op = "CreateInvitation"
    BY CallsWellFormed, IdsAssumption DEF AllOperations, Call
  <2>2. FirstStep(c, "deleteLapsed")
    BY <2>1 DEF FirstStep
  <2>3. UNCHANGED tables /\ Serve(r, c)
    BY <1>8 DEF CreateInvitation
  <2>4. CASE Answer(r, EnsureOwner(u, p))
    BY <1>3, <2>1, <2>3, <2>4, ArrivalRefused
  <2>5. CASE Goto(r, "deleteLapsed")
    BY <2>1, <2>2, <2>3, <2>5, ArrivalTaken
  <2>. QED
    BY <1>8, <2>4, <2>5 DEF CreateInvitation
<1>9. ASSUME NEW p \in Projects, NEW i \in Invitations, DeleteInvitation(r, u, p, i)
      PROVE  ProjectsInv'
  <2>. DEFINE c == Call("DeleteInvitation", u, p, None, i, FALSE)
  <2>1. WellFormed(c) /\ c.op = "DeleteInvitation"
    BY CallsWellFormed DEF AllOperations, Call
  <2>2. FirstStep(c, "readStatus")
    BY <2>1 DEF FirstStep
  <2>3. UNCHANGED tables /\ Serve(r, c)
    BY <1>9 DEF DeleteInvitation
  <2>4. CASE Answer(r, EnsureOwner(u, p))
    BY <1>3, <2>1, <2>3, <2>4, ArrivalRefused
  <2>5. CASE Goto(r, "readStatus")
    BY <2>1, <2>2, <2>3, <2>5, ArrivalTaken
  <2>. QED
    BY <1>9, <2>4, <2>5 DEF DeleteInvitation
<1>10. ASSUME NEW i \in Invitations, AcceptInvitation(r, u, i) PROVE ProjectsInv'
  <2>. DEFINE c == Call("AcceptInvitation", u, InvitationProject[i], None, i, lapsed[i])
  <2>1. WellFormed(c) /\ c.op = "AcceptInvitation"
    BY CallsWellFormed, IdsAssumption
    DEF AllOperations, Call, ProjectsInv, TypeOK, TablesOK
  <2>2. FirstStep(c, "lockInvitation")
    BY <2>1 DEF FirstStep
  <2>. QED
    BY <1>10, <2>1, <2>2, ArrivalTaken DEF AcceptInvitation
<1>. QED
  BY <1>1, <1>4, <1>5, <1>6, <1>7, <1>8, <1>9, <1>10

-----------------------------------------------------------------------------
(* The statements *)

(* Whatever locks a statement takes, it leaves the tables alone. *)
LEMMA Stepping ==
    ASSUME ProjectsInv, NEW r \in Requests, NEW s \in Steps \ {"idle"},
           pc[r] # "idle", pc[r] # "done", call[r].op # "CreateProject",
           Advance(r, s), UNCHANGED <<tables, call>>, LocksOK'
    PROVE  /\ TypeOK' /\ OwnerInv' /\ OwnerIsMember' /\ NoOrphans'
           /\ pc'[r] = s /\ \A d \in Requests : d # r => pc'[d] = pc[d]
<1>. USE DEF ProjectsInv
<1>1. /\ pc' \in [Requests -> Steps]
      /\ pc'[r] = s /\ \A d \in Requests : d # r => pc'[d] = pc[d]
  BY DEF Advance, TypeOK, RequestsOK
<1>2. TypeOK'
  BY <1>1 DEF Advance, TypeOK, TablesOK, RequestsOK, tables
<1>3. OwnerInv'
  BY <1>1 DEF OwnerInv, Running, tables
<1>4. OwnerIsMember' /\ NoOrphans'
  BY DEF OwnerIsMember, NoOrphans, ProjectInvitations, HasRow, tables
<1>. QED
  BY <1>1, <1>2, <1>3, <1>4

(* A statement that neither writes nor locks. *)
LEMMA Going ==
    ASSUME ProjectsInv, NEW r \in Requests, NEW s, Goto(r, s),
           UNCHANGED <<tables, call>>,
           \/ pc[r] = "audit" /\ s = "shareProject"
           \/ pc[r] = "lockProject" /\ s = "mutationState"
           \/ pc[r] = "readStatus" /\ s = "deleteInvitation"
           \/ pc[r] = "insertMember" /\ s = "acceptInvitation"
           \/ pc[r] = "deleteMember" /\ s = "commit" /\ call[r].op = "RemoveMember"
    PROVE  ProjectsInv'
<1>. USE DEF ProjectsInv
<1>1. /\ s \in Steps \ {"idle"} /\ pc[r] # "idle" /\ pc[r] # "done"
      /\ call[r].op # "CreateProject" /\ Advance(r, s) /\ UNCHANGED locks
  BY DEF Steps, ControlInv, Goto, Advance
<1>2. LocksOK'
  BY <1>1 DEF TypeOK, LocksOK, locks
<1>3. /\ TypeOK' /\ OwnerInv' /\ OwnerIsMember' /\ NoOrphans'
      /\ pc'[r] = s /\ \A d \in Requests : d # r => pc'[d] = pc[d]
  BY <1>1, <1>2, Stepping
<1>4. ControlInv'
  BY <1>1, <1>3 DEF ControlInv
<1>5. MemberLockInv'
  BY <1>1, <1>3 DEF MemberLockInv, locks
<1>6. ProjectLockInv'
  <2>. USE <1>1, <1>3 DEF ProjectLockInv, locks, tables
  <2>1. SharedExists' /\ SharersWrite'
    BY DEF SharedExists, SharersWrite
  <2>2. WritersShare'
    BY DEF WritersShare, Shares, ControlInv, MemberLockInv
  <2>3. LockedIsDeleted' /\ DeletedIsLocked'
    BY DEF LockedIsDeleted, DeletedIsLocked, ControlInv
  <2>. QED
    BY <2>1, <2>2, <2>3
<1>. QED
  BY <1>3, <1>4, <1>5, <1>6

(* A statement that takes row locks of invitations only. *)
LEMMA LockingInvitations ==
    ASSUME ProjectsInv, NEW r \in Requests, NEW s, Advance(r, s), LocksOK',
           UNCHANGED <<tables, call, projectLock, keyShare, memberLock>>,
           \/ pc[r] = "cascadeInvitations" /\ s = "commit"
           \/ pc[r] = "deleteLapsed" /\ s = "insertInvitation"
           \/ pc[r] = "deleteInvitation" /\ s = "audit"
           \/ pc[r] = "lockInvitation" /\ s = "insertMember"
    PROVE  ProjectsInv'
<1>. USE DEF ProjectsInv
<1>1. /\ s \in Steps \ {"idle"} /\ pc[r] # "idle" /\ pc[r] # "done"
      /\ call[r].op # "CreateProject"
  BY DEF Steps, ControlInv
<1>2. /\ TypeOK' /\ OwnerInv' /\ OwnerIsMember' /\ NoOrphans'
      /\ pc'[r] = s /\ \A d \in Requests : d # r => pc'[d] = pc[d]
  BY <1>1, Stepping
<1>3. ControlInv'
  BY <1>2 DEF ControlInv
<1>4. MemberLockInv'
  BY <1>2 DEF MemberLockInv, ControlInv
<1>5. ProjectLockInv'
  <2>. USE <1>2 DEF ProjectLockInv, tables
  <2>1. SharedExists' /\ SharersWrite'
    BY DEF SharedExists, SharersWrite
  <2>2. WritersShare'
    BY DEF WritersShare, Shares, ControlInv
  <2>3. LockedIsDeleted' /\ DeletedIsLocked'
    BY DEF LockedIsDeleted, DeletedIsLocked, ControlInv
  <2>. QED
    BY <2>1, <2>2, <2>3
<1>. QED
  BY <1>2, <1>3, <1>4, <1>5

(* A statement that locks member rows, for its own write or the cascade. *)
LEMMA LockingMembers ==
    ASSUME ProjectsInv, NEW r \in Requests, NEW s, Advance(r, s), LocksOK',
           UNCHANGED <<tables, call, projectLock, keyShare, invitationLock, pendingLock>>,
           \A p \in Projects, u \in Users :
               \/ memberLock'[p][u] = memberLock[p][u]
               \/ p = call[r].p /\ memberLock'[p][u] = r
                    /\ (call[r].op # "DeleteProject" => u = call[r].m),
           \/ pc[r] = "cascadeMembers" /\ s = "cascadeInvitations"
           \/ pc[r] = "deleteMember" /\ call[r].op = "RemoveMember" /\ s = "audit"
           \/ pc[r] = "deleteMember" /\ call[r].op = "LeaveProject" /\ s = "commit"
    PROVE  ProjectsInv'
<1>. USE DEF ProjectsInv
<1>1. /\ s \in Steps \ {"idle"} /\ pc[r] # "idle" /\ pc[r] # "done"
      /\ call[r].op # "CreateProject"
  BY DEF Steps, ControlInv
<1>2. /\ TypeOK' /\ OwnerInv' /\ OwnerIsMember' /\ NoOrphans'
      /\ pc'[r] = s /\ \A d \in Requests : d # r => pc'[d] = pc[d]
  BY <1>1, Stepping
<1>3. ControlInv'
  BY <1>2 DEF ControlInv
<1>4. MemberLockInv'
  BY <1>2 DEF MemberLockInv, ControlInv
<1>5. ProjectLockInv'
  <2>. USE <1>2 DEF ProjectLockInv, tables
  <2>1. SharedExists' /\ SharersWrite'
    BY DEF SharedExists, SharersWrite
  <2>2. WritersShare'
    BY DEF WritersShare, Shares, ControlInv
  <2>3. LockedIsDeleted' /\ DeletedIsLocked'
    BY DEF LockedIsDeleted, DeletedIsLocked, ControlInv
  <2>. QED
    BY <2>1, <2>2, <2>3
<1>. QED
  BY <1>2, <1>3, <1>4, <1>5

(* A statement whose foreign key check shares the project row.  Nobody       *)
(* deletes the row now, and nobody will before this transaction ends.        *)
LEMMA Sharing ==
    ASSUME ProjectsInv, NEW r \in Requests, NEW s, Advance(r, s), LocksOK',
           UNCHANGED <<tables, call, projectLock>>,
           KeyShare(r, call[r].p), call[r].p \in live,
           projectLock[call[r].p] \in {r, None},
           \A p \in Projects, u \in Users :
               \/ memberLock'[p][u] = memberLock[p][u]
               \/ /\ pc[r] = "insertMember"
                  /\ p = call[r].p /\ u = call[r].u /\ memberLock'[p][u] = r,
           \/ pc[r] = "shareProject" /\ call[r].op = "LeaveProject" /\ s = "deleteMember"
           \/ pc[r] = "shareProject" /\ call[r].op # "LeaveProject" /\ s = "commit"
           \/ pc[r] = "insertInvitation" /\ s = "audit"
           \/ pc[r] = "insertMember" /\ s = "acceptInvitation"
           \/ pc[r] = "acceptInvitation" /\ s = "commit"
    PROVE  ProjectsInv'
<1>. USE DEF ProjectsInv
<1>1. /\ s \in Steps \ {"idle"} /\ pc[r] # "idle" /\ pc[r] # "done"
      /\ call[r].op \notin {"none", "CreateProject", "DeleteProject"}
      /\ call[r].p \in Projects
  BY DEF Steps, ControlInv
<1>2. /\ TypeOK' /\ OwnerInv' /\ OwnerIsMember' /\ NoOrphans'
      /\ pc'[r] = s /\ \A d \in Requests : d # r => pc'[d] = pc[d]
  BY <1>1, Stepping
<1>3. ControlInv'
  BY <1>2 DEF ControlInv
<1>4. MemberLockInv'
  BY <1>2 DEF MemberLockInv, ControlInv
<1>5. ProjectLockInv'
  <2>1. /\ keyShare'[call[r].p] = keyShare[call[r].p] \cup {r}
        /\ \A p \in Projects : p # call[r].p => keyShare'[p] = keyShare[p]
        /\ \A p \in Projects : keyShare[p] \subseteq keyShare'[p]
    BY <1>1 DEF KeyShare, TypeOK, LocksOK
  <2>2. projectLock[call[r].p] = None
    BY <1>1 DEF ProjectLockInv, LockedIsDeleted
  <2>. USE <1>2, <2>1, <2>2 DEF ProjectLockInv, tables
  <2>3. SharedExists' /\ SharersWrite'
    BY <1>1 DEF SharedExists, SharersWrite
  <2>4. WritersShare'
    <3>1. r \in keyShare'[call'[r].p]
      BY <1>1
    <3>2. \A d \in Requests : d # r /\ Shares(d)' => Shares(d)
      BY <1>1 DEF Shares, ControlInv
    <3>3. \A d \in Requests : d # r /\ Shares(d)' => call[d].p \in Projects
      BY DEF Shares, ControlInv
    <3>. QED
      BY <3>1, <3>2, <3>3 DEF WritersShare
  <2>5. LockedIsDeleted' /\ DeletedIsLocked'
    BY <1>1 DEF LockedIsDeleted, DeletedIsLocked, ControlInv
  <2>. QED
    BY <2>3, <2>4, <2>5
<1>. QED
  BY <1>2, <1>3, <1>4, <1>5

(* The DELETE of a project row waits for all who share it. *)
LEMMA LockingProject ==
    ASSUME ProjectsInv, NEW r \in Requests, LockProject(r)
    PROVE  ProjectsInv'
<1>. DEFINE p == call[r].p
<1>. USE DEF ProjectsInv
<1>1. /\ pc[r] = "lockProject" /\ Blockers(r) = {} /\ UNCHANGED <<tables, call>>
      /\ call[r].op = "DeleteProject" /\ p \in Projects
  BY DEF LockProject, At, ControlInv
<1>2. CASE ~(ProjectDeletable(call[r].u, p) /\ ~call[r].stale)
  <2>1. Goto(r, "mutationState")
    BY <1>2 DEF LockProject
  <2>. QED
    BY <1>1, <2>1, Going
<1>3. CASE ProjectDeletable(call[r].u, p) /\ ~call[r].stale
  <2>0. /\ projectLock' = [projectLock EXCEPT ![p] = r]
        /\ Advance(r, "cascadeMembers")
        /\ UNCHANGED <<keyShare, memberLock, invitationLock, pendingLock>>
    BY <1>3 DEF LockProject
  <2>1. p \in live /\ projectLock[p] \in {r, None} /\ keyShare[p] = {}
    <3>1. keyShare[p] \subseteq {r} /\ projectLock[p] \in {r, None} /\ p \in live
      BY <1>1, <1>3, Waiting DEF ProjectDeletable, ProjectVisible
    <3>2. r \notin keyShare[p]
      BY <1>1 DEF ProjectLockInv, SharersWrite
    <3>. QED
      BY <3>1, <3>2
  <2>2. /\ projectLock'[p] = r
        /\ \A q \in Projects : q # p => projectLock'[q] = projectLock[q]
        /\ LocksOK'
    BY <1>1, <2>0 DEF TypeOK, LocksOK, Holder
  <2>3. /\ TypeOK' /\ OwnerInv' /\ OwnerIsMember' /\ NoOrphans'
        /\ pc'[r] = "cascadeMembers" /\ \A d \in Requests : d # r => pc'[d] = pc[d]
    BY <1>1, <2>0, <2>2, Stepping DEF Steps
  <2>4. ControlInv'
    BY <1>1, <2>3 DEF ControlInv
  <2>5. MemberLockInv'
    BY <1>1, <2>0, <2>3 DEF MemberLockInv
  <2>6. ProjectLockInv'
    <3>. USE <1>1, <2>0, <2>1, <2>2, <2>3, IdsAssumption DEF ProjectLockInv, tables
    <3>1. SharedExists' /\ SharersWrite'
      BY DEF SharedExists, SharersWrite
    <3>2. WritersShare'
      BY DEF WritersShare, Shares
    <3>3. LockedIsDeleted' /\ DeletedIsLocked'
      BY DEF LockedIsDeleted, DeletedIsLocked, ControlInv
    <3>. QED
      BY <3>1, <3>2, <3>3
  <2>. QED
    BY <2>3, <2>4, <2>5, <2>6
<1>. QED
  BY <1>2, <1>3

-----------------------------------------------------------------------------
(* COMMIT *)

(* A transaction that commits is not creating a project: the projects and    *)
(* their owners stay, rows appear only in a project that exists, and no      *)
(* owner leaves.                                                             *)
LEMMA Committing ==
    ASSUME ProjectsInv, NEW r \in Requests, pc[r] = "commit", TablesOK',
           NEW answer \in Codes, Answer(r, answer), UNCHANGED <<call, live, owner>>,
           \A p \in live : owner[p] \in members[p] => owner[p] \in members'[p],
           \A p \in Projects \ live :
               /\ members'[p] = members[p] /\ log'[p] = log[p]
               /\ \A i \in Invitations :
                     InvitationProject[i] = p /\ HasRow(i)' => HasRow(i)
    PROVE  ProjectsInv'
<1>. USE DEF ProjectsInv
<1>1. Release(r)
  BY DEF Answer
<1>2. /\ pc' \in [Requests -> Steps] /\ code' \in [Requests -> Codes]
      /\ pc'[r] = "done" /\ \A d \in Requests : d # r => pc'[d] = pc[d]
  BY DEF Answer, TypeOK, RequestsOK, Steps, Codes
<1>3. TypeOK'
  BY <1>1, <1>2, Released DEF TypeOK, RequestsOK
<1>4. ControlInv'
  BY <1>2 DEF ControlInv
<1>5. OwnerInv'
  BY <1>2 DEF OwnerInv, Running
<1>6. MemberLockInv'
  BY <1>1, <1>2, Released, IdsAssumption DEF MemberLockInv
<1>7. ProjectLockInv'
  <2>. USE <1>1, <1>2, Released, IdsAssumption DEF ProjectLockInv
  <2>1. SharedExists' /\ SharersWrite'
    BY DEF SharedExists, SharersWrite
  <2>2. WritersShare'
    BY DEF WritersShare, Shares, ControlInv, MemberLockInv
  <2>3. LockedIsDeleted' /\ DeletedIsLocked'
    BY DEF LockedIsDeleted, DeletedIsLocked, ControlInv
  <2>. QED
    BY <2>1, <2>2, <2>3
<1>8. OwnerIsMember'
  BY DEF OwnerIsMember
<1>9. NoOrphans'
  BY DEF NoOrphans, ProjectInvitations, HasRow
<1>. QED
  BY <1>3, <1>4, <1>5, <1>6, <1>7, <1>8, <1>9

(* An audit row has its type, and is one of the caller's project. *)
LEMMA RecordTypes ==
    ASSUME ProjectsInv, NEW r \in Requests, NEW action \in Actions,
           NEW subject \in Users \cup Invitations \cup {None}, NEW joined \in BOOLEAN,
           pc[r] # "idle", Record(r, action, subject, joined)
    PROVE  /\ log' \in [Projects -> SUBSET Events]
           /\ \A p \in Projects : p # call[r].p => log'[p] = log[p]
<1>1. call[r].u \in Users
  BY DEF ProjectsInv, ControlInv
<1>2. [req |-> r, action |-> action, actor |-> call[r].u,
       subject |-> subject, joined |-> joined] \in Events
  BY <1>1 DEF Events
<1>. QED
  BY <1>2 DEF Record, ProjectsInv, TypeOK, TablesOK

(* The new project gets its owner and its owner's membership at once. *)
LEMMA CommittingCreation ==
    ASSUME ProjectsInv, NEW r \in Requests, pc[r] = "commit",
           CommitCreateProject(r), NEW answer \in Codes, Answer(r, answer), UNCHANGED call
    PROVE  ProjectsInv'
<1>. DEFINE q == call[r].p
<1>. USE DEF ProjectsInv
<1>1. /\ call[r].op = "CreateProject" /\ q \in Projects /\ call[r].u \in Users
      /\ owner[q] = None
      /\ live' = live \cup {q} /\ UNCHANGED <<status, lapsed>>
  BY DEF CommitCreateProject, ControlInv, OwnerInv
<1>2. q \notin live
  BY <1>1 DEF OwnerInv
<1>3. /\ owner'[q] = call[r].u /\ members'[q] = {call[r].u}
      /\ \A p \in Projects : p # q =>
            owner'[p] = owner[p] /\ members'[p] = members[p] /\ log'[p] = log[p]
  BY <1>1 DEF CommitCreateProject, OwnerMembership, Record, TypeOK, TablesOK
<1>4. Release(r)
  BY DEF Answer
<1>5. /\ pc' \in [Requests -> Steps] /\ code' \in [Requests -> Codes]
      /\ pc'[r] = "done" /\ \A d \in Requests : d # r => pc'[d] = pc[d]
  BY DEF Answer, TypeOK, RequestsOK, Steps, Codes
<1>6. TypeOK'
  <2>1. "project.created" \in Actions
    BY DEF Actions
  <2>2. log' \in [Projects -> SUBSET Events]
    BY <2>1, RecordTypes DEF CommitCreateProject
  <2>3. /\ owner' \in [Projects -> Users \cup {None}]
        /\ members' \in [Projects -> SUBSET Users]
    BY <1>1 DEF CommitCreateProject, OwnerMembership, TypeOK, TablesOK
  <2>. QED
    BY <1>1, <1>4, <1>5, <2>2, <2>3, Released DEF TypeOK, TablesOK, RequestsOK
<1>7. ControlInv'
  BY <1>5 DEF ControlInv
<1>8. OwnerInv'
  <2>1. \A p \in live' : owner'[p] # None
    BY <1>1, <1>3, IdsAssumption DEF OwnerInv, TypeOK, TablesOK
  <2>2. ASSUME NEW d \in Requests, call[d].op = "CreateProject", pc'[d] = "commit"
        PROVE  /\ owner'[call[d].p] = None
               /\ \A e \in Requests : /\ call[e].op = "CreateProject" /\ pc'[e] = "commit"
                                      /\ call[e].p = call[d].p
                                      => e = d
    BY <1>1, <1>3, <1>5, <2>2 DEF OwnerInv, ControlInv
  <2>3. ASSUME NEW d \in Requests, call[d].op \in {"RemoveMember", "LeaveProject"},
               Running(d)'
        PROVE  owner'[call[d].p] \notin {None, call[d].m}
    BY <1>1, <1>3, <1>5, <2>3 DEF OwnerInv, ControlInv, Running
  <2>. QED
    BY <2>1, <2>2, <2>3 DEF OwnerInv
<1>9. MemberLockInv'
  BY <1>4, <1>5, Released, IdsAssumption DEF MemberLockInv
<1>10. ProjectLockInv'
  <2>. USE <1>1, <1>4, <1>5, Released, IdsAssumption DEF ProjectLockInv
  <2>1. SharedExists' /\ SharersWrite'
    BY DEF SharedExists, SharersWrite
  <2>2. WritersShare'
    BY DEF WritersShare, Shares, ControlInv, MemberLockInv
  <2>3. LockedIsDeleted' /\ DeletedIsLocked'
    BY DEF LockedIsDeleted, DeletedIsLocked, ControlInv
  <2>. QED
    BY <2>1, <2>2, <2>3
<1>11. OwnerIsMember'
  BY <1>1, <1>3 DEF OwnerIsMember, TypeOK, TablesOK
<1>12. NoOrphans'
  BY <1>1, <1>3 DEF NoOrphans, ProjectInvitations, HasRow
<1>. QED
  BY <1>6, <1>7, <1>8, <1>9, <1>10, <1>11, <1>12

(* The project goes, and with it every row: whoever would commit another one *)
(* shares the project row, which its deletion has locked.                    *)
LEMMA CommittingDeletion ==
    ASSUME ProjectsInv, NEW r \in Requests, pc[r] = "commit",
           CommitDeleteProject(r), NEW answer \in Codes, Answer(r, answer), UNCHANGED call
    PROVE  ProjectsInv'
<1>. DEFINE q == call[r].p
<1>. USE DEF ProjectsInv
<1>1. /\ call[r].op = "DeleteProject" /\ q \in Projects
      /\ live' = live \ {q} /\ UNCHANGED <<owner, lapsed>>
  BY DEF CommitDeleteProject, ControlInv
<1>2. projectLock[q] = r /\ keyShare[q] = {}
  <2>1. projectLock[q] = r
    BY <1>1 DEF ProjectLockInv, DeletedIsLocked
  <2>. QED
    BY <1>1, <2>1, IdsAssumption DEF ProjectLockInv, SharedExists
<1>3. /\ members'[q] = {} /\ log'[q] = {}
      /\ \A p \in Projects : p # q => members'[p] = members[p] /\ log'[p] = log[p]
  BY <1>1 DEF CommitDeleteProject, TypeOK, TablesOK
<1>4. /\ status' \in [Invitations -> Statuses]
      /\ \A i \in Invitations :
            status'[i] = IF InvitationProject[i] = q /\ HasRow(i) THEN "deleted" ELSE status[i]
  BY <1>1 DEF CommitDeleteProject, ProjectInvitations, TypeOK, TablesOK, Statuses
<1>5. Release(r)
  BY DEF Answer
<1>6. /\ pc' \in [Requests -> Steps] /\ code' \in [Requests -> Codes]
      /\ pc'[r] = "done" /\ \A d \in Requests : d # r => pc'[d] = pc[d]
  BY DEF Answer, TypeOK, RequestsOK, Steps, Codes
<1>7. TypeOK'
  BY <1>1, <1>4, <1>5, <1>6, Released
  DEF CommitDeleteProject, TypeOK, TablesOK, RequestsOK
<1>8. ControlInv'
  BY <1>6 DEF ControlInv
<1>9. OwnerInv'
  BY <1>1, <1>6 DEF OwnerInv, Running
<1>10. MemberLockInv'
  BY <1>5, <1>6, Released, IdsAssumption DEF MemberLockInv
<1>11. ProjectLockInv'
  <2>. USE <1>1, <1>2, <1>5, <1>6, Released, IdsAssumption DEF ProjectLockInv
  <2>1. SharedExists' /\ SharersWrite'
    BY DEF SharedExists, SharersWrite
  <2>2. WritersShare'
    BY DEF WritersShare, Shares, ControlInv, MemberLockInv
  <2>3. LockedIsDeleted' /\ DeletedIsLocked'
    BY DEF LockedIsDeleted, DeletedIsLocked, ControlInv
  <2>. QED
    BY <2>1, <2>2, <2>3
<1>12. OwnerIsMember'
  BY <1>1, <1>3 DEF OwnerIsMember, TypeOK, TablesOK
<1>13. NoOrphans'
  BY <1>1, <1>3, <1>4 DEF NoOrphans, ProjectInvitations, HasRow
<1>. QED
  BY <1>7, <1>8, <1>9, <1>10, <1>11, <1>12, <1>13

LEMMA CommittingMemberDeletion ==
    ASSUME ProjectsInv, NEW r \in Requests, pc[r] = "commit",
           CommitMemberDeletion(r), NEW answer \in Codes, Answer(r, answer), UNCHANGED call
    PROVE  ProjectsInv'
<1>. DEFINE c == call[r]
            action == IF c.op = "RemoveMember" THEN "member.removed" ELSE "member.left"
<1>. USE DEF ProjectsInv
<1>1. /\ c.op \in {"RemoveMember", "LeaveProject"} /\ c.p \in Projects /\ c.m \in Users
      /\ UNCHANGED <<live, owner, status, lapsed>> /\ owner[c.p] # c.m
  BY DEF CommitMemberDeletion, ControlInv, OwnerInv, Running
<1>2. CASE memberLock[c.p][c.m] = r
  <2>1. members' = [members EXCEPT ![c.p] = @ \ {c.m}] /\ Record(r, action, c.m, FALSE)
    BY <1>2 DEF CommitMemberDeletion
  <2>2. action \in Actions
    BY DEF Actions
  <2>3. /\ log' \in [Projects -> SUBSET Events]
        /\ \A p \in Projects : p # c.p => log'[p] = log[p]
    BY <1>1, <2>1, <2>2, RecordTypes
  <2>4. TablesOK'
    BY <1>1, <2>1, <2>3 DEF TypeOK, TablesOK
  <2>5. c.p \in live
    BY <1>1, <1>2 DEF ProjectLockInv, WritersShare, SharedExists, Shares
  <2>6. \A p \in live : owner[p] \in members[p] => owner[p] \in members'[p]
    BY <1>1, <2>1 DEF TypeOK, TablesOK
  <2>7. \A p \in Projects \ live :
           /\ members'[p] = members[p] /\ log'[p] = log[p]
           /\ \A i \in Invitations : HasRow(i)' => HasRow(i)
    BY <1>1, <2>1, <2>3, <2>5 DEF TypeOK, TablesOK, HasRow
  <2>. QED
    BY <1>1, <2>4, <2>6, <2>7, Committing
<1>3. CASE memberLock[c.p][c.m] # r
  <2>1. UNCHANGED <<members, log>>
    BY <1>3 DEF CommitMemberDeletion
  <2>2. TablesOK'
    BY <1>1, <2>1 DEF TypeOK, TablesOK
  <2>. QED
    BY <1>1, <2>1, <2>2, Committing DEF HasRow
<1>. QED
  BY <1>2, <1>3

(* The three operations on invitations change statuses in their own project, *)
(* which exists because they share it.                                       *)
LEMMA CommittingInvitation ==
    ASSUME ProjectsInv, NEW r \in Requests, pc[r] = "commit",
           CommitCreateInvitation(r) \/ CommitDeleteInvitation(r)
             \/ CommitAcceptInvitation(r),
           NEW answer \in Codes, Answer(r, answer), UNCHANGED call
    PROVE  ProjectsInv'
<1>. DEFINE c == call[r]
            joined == memberLock[c.p][c.u] = r
<1>. USE DEF ProjectsInv
<1>1. /\ c.op \in {"CreateInvitation", "DeleteInvitation", "AcceptInvitation"}
      /\ c.p \in Projects /\ c.u \in Users /\ c.i \in Invitations
      /\ c.op # "DeleteInvitation" => c.p = InvitationProject[c.i]
      /\ UNCHANGED <<live, owner, lapsed>>
  BY DEF CommitCreateInvitation, CommitDeleteInvitation, CommitAcceptInvitation, ControlInv
<1>2. c.p \in live
  BY <1>1 DEF ProjectLockInv, WritersShare, SharedExists, Shares
<1>3. \E action \in Actions, j \in BOOLEAN : Record(r, action, c.i, j)
  <2>1. {"invitation.created", "invitation.revoked", "invitation.accepted"} \subseteq Actions
    BY DEF Actions
  <2>2. joined \in BOOLEAN
    OBVIOUS
  <2>3. \/ Record(r, "invitation.created", c.i, FALSE)
        \/ Record(r, "invitation.revoked", c.i, FALSE)
        \/ Record(r, "invitation.accepted", c.i, joined)
    BY DEF CommitCreateInvitation, CommitDeleteInvitation, CommitAcceptInvitation
  <2>. QED
    BY <2>1, <2>2, <2>3
<1>4. /\ log' \in [Projects -> SUBSET Events]
      /\ \A p \in Projects : p # c.p => log'[p] = log[p]
  BY <1>1, <1>3, RecordTypes
<1>5. /\ members' \in [Projects -> SUBSET Users]
      /\ \A p \in Projects : members[p] \subseteq members'[p]
      /\ \A p \in Projects : p # c.p => members'[p] = members[p]
  <2>1. members' \in {members, [members EXCEPT ![c.p] = @ \cup {c.u}]}
    BY DEF CommitCreateInvitation, CommitDeleteInvitation, CommitAcceptInvitation
  <2>. QED
    BY <1>1, <2>1 DEF TypeOK, TablesOK
<1>6. /\ status' \in [Invitations -> Statuses]
      /\ \A i \in Invitations : HasRow(i)' => HasRow(i) \/ InvitationProject[i] = c.p
  <2>1. status \in [Invitations -> Statuses] /\ {"pending", "deleted", "accepted"} \subseteq Statuses
    BY DEF TypeOK, TablesOK, Statuses
  <2>2. CASE CommitCreateInvitation(r)
    BY <1>1, <2>1, <2>2 DEF CommitCreateInvitation, HasRow
  <2>3. CASE CommitDeleteInvitation(r)
    BY <1>1, <2>1, <2>3 DEF CommitDeleteInvitation, HasRow
  <2>4. CASE CommitAcceptInvitation(r)
    BY <1>1, <2>1, <2>4 DEF CommitAcceptInvitation, HasRow
  <2>. QED
    BY <2>2, <2>3, <2>4
<1>7. TablesOK'
  BY <1>1, <1>4, <1>5, <1>6 DEF TypeOK, TablesOK
<1>8. \A p \in live : owner[p] \in members[p] => owner[p] \in members'[p]
  BY <1>5 DEF TypeOK, TablesOK
<1>9. \A p \in Projects \ live :
         /\ members'[p] = members[p] /\ log'[p] = log[p]
         /\ \A i \in Invitations :
               InvitationProject[i] = p /\ HasRow(i)' => HasRow(i)
  BY <1>2, <1>4, <1>5, <1>6
<1>. QED
  BY <1>1, <1>7, <1>8, <1>9, Committing

-----------------------------------------------------------------------------
(* Every step *)

LEMMA PendTypes ==
    ASSUME LocksOK, NEW r \in Requests, Pend(r)
    PROVE  pendingLock' \in [Projects -> [Emails -> Holder]]
  BY DEF LocksOK, Pend, Holder

(* A statement of a transaction, or its COMMIT. *)
LEMMA StatementStep ==
    ASSUME ProjectsInv, NEW r \in Requests, Step(r)
    PROVE  ProjectsInv'
<1>. DEFINE c == call[r]
<1>. USE DEF ProjectsInv
<1>1. {"ok", "notFound", "forbidden", "conflict", "precondition", "validation", "internal"}
         \subseteq Codes
  BY DEF Codes
<1>2. LocksOK
  BY DEF TypeOK
<1>3. pc[r] # "idle" => c.p \in Projects /\ c.u \in Users
  BY DEF ControlInv
<1>4. CASE DeleteMemberRow(r)
  <2>1. /\ pc[r] = "deleteMember" /\ UNCHANGED <<tables, call>>
        /\ c.op \in {"RemoveMember", "LeaveProject"} /\ c.m \in Users
    BY <1>4 DEF DeleteMemberRow, At, ControlInv
  <2>2. CASE MemberDeletable(c.u, c.p, c.m)
    <3>1. /\ memberLock' = [memberLock EXCEPT ![c.p][c.m] = r]
          /\ Advance(r, IF c.op = "RemoveMember" THEN "audit" ELSE "commit")
          /\ UNCHANGED <<projectLock, keyShare, invitationLock, pendingLock>>
      BY <1>4, <2>2 DEF DeleteMemberRow
    <3>2. LocksOK'
      BY <1>2, <3>1 DEF LocksOK, Holder
    <3>3. \A p \in Projects, u \in Users :
             \/ memberLock'[p][u] = memberLock[p][u]
             \/ p = c.p /\ memberLock'[p][u] = r /\ u = c.m
      BY <1>2, <3>1 DEF LocksOK
    <3>. QED
      BY <2>1, <3>1, <3>2, <3>3, LockingMembers
  <2>3. CASE ~MemberDeletable(c.u, c.p, c.m)
    <3>1. \/ c.op = "RemoveMember" /\ Goto(r, "commit")
          \/ Answer(r, "notFound")
      BY <1>4, <2>3 DEF DeleteMemberRow
    <3>. QED
      BY <1>1, <2>1, <3>1, Going, Answering
  <2>. QED
    BY <2>2, <2>3
<1>5. CASE Audit(r)
  BY <1>1, <1>5, Going, Answering DEF Audit, At
<1>6. CASE ShareProject(r)
  <2>1. pc[r] = "shareProject" /\ Blockers(r) = {} /\ UNCHANGED <<tables, call>>
    BY <1>6 DEF ShareProject, At
  <2>2. CASE c.p \in live
    <3>1. /\ KeyShare(r, c.p)
          /\ Advance(r, IF c.op = "LeaveProject" THEN "deleteMember" ELSE "commit")
          /\ UNCHANGED <<projectLock, memberLock, invitationLock, pendingLock>>
      BY <1>6, <2>2 DEF ShareProject
    <3>2. LocksOK'
      BY <1>2, <3>1 DEF LocksOK, KeyShare
    <3>3. projectLock[c.p] \in {r, None}
      BY <2>1, Waiting
    <3>. QED
      BY <2>1, <2>2, <3>1, <3>2, <3>3, Sharing
  <2>3. CASE c.p \notin live
    <3>1. Answer(r, "validation")
      BY <1>6, <2>3 DEF ShareProject
    <3>. QED
      BY <1>1, <2>1, <3>1, Answering
  <2>. QED
    BY <2>2, <2>3
<1>7. CASE LockProject(r)
  BY <1>7, LockingProject
<1>8. CASE ProjectMutationState(r)
  <2>1. \E e \in Codes : Answer(r, e)
    BY <1>1, <1>8 DEF ProjectMutationState, EnsureOwner
  <2>. QED
    BY <1>8, <2>1, Answering DEF ProjectMutationState, At
<1>9. CASE CascadeMembers(r)
  <2>1. /\ pc[r] = "cascadeMembers" /\ c.op = "DeleteProject"
        /\ memberLock' = [memberLock EXCEPT ![c.p] =
              [u \in Users |-> IF u \in members[c.p] THEN r ELSE memberLock[c.p][u]]]
        /\ Advance(r, "cascadeInvitations")
        /\ UNCHANGED <<tables, call, projectLock, keyShare, invitationLock, pendingLock>>
    BY <1>9 DEF CascadeMembers, At, ControlInv
  <2>2. LocksOK'
    BY <1>2, <1>3, <2>1 DEF LocksOK, Holder
  <2>3. \A p \in Projects, u \in Users :
           \/ memberLock'[p][u] = memberLock[p][u]
           \/ p = c.p /\ memberLock'[p][u] = r
    BY <1>2, <2>1 DEF LocksOK
  <2>. QED
    BY <2>1, <2>2, <2>3, LockingMembers
<1>10. CASE CascadeInvitations(r)
  <2>1. LocksOK'
    BY <1>2, <1>10 DEF CascadeInvitations, LocksOK, Holder
  <2>. QED
    BY <1>10, <2>1, LockingInvitations DEF CascadeInvitations, At
<1>11. CASE DeleteLapsed(r)
  <2>1. LocksOK'
    <3>1. Pend(r) \/ UNCHANGED pendingLock
      BY <1>11 DEF DeleteLapsed
    <3>. QED
      BY <1>2, <1>11, <3>1, PendTypes DEF DeleteLapsed, LocksOK, Holder
  <2>. QED
    BY <1>11, <2>1, LockingInvitations DEF DeleteLapsed, At
<1>12. CASE InsertInvitation(r)
  <2>1. pc[r] = "insertInvitation" /\ Blockers(r) = {} /\ UNCHANGED <<tables, call>>
    BY <1>12 DEF InsertInvitation, At
  <2>2. CASE /\ c.p \in live /\ Pend(r) /\ KeyShare(r, c.p) /\ Advance(r, "audit")
             /\ UNCHANGED <<projectLock, memberLock, invitationLock>>
    <3>1. LocksOK'
      BY <1>2, <2>2 DEF LocksOK, KeyShare, Pend, Holder
    <3>2. projectLock[c.p] \in {r, None}
      BY <2>1, Waiting
    <3>. QED
      BY <2>1, <2>2, <3>1, <3>2, Sharing
  <2>3. CASE \E e \in Codes : Answer(r, e)
    BY <2>1, <2>3, Answering
  <2>. QED
    BY <1>1, <1>12, <2>2, <2>3 DEF InsertInvitation
<1>13. CASE ReadStatus(r)
  BY <1>1, <1>13, Going, Answering DEF ReadStatus, At
<1>14. CASE DeleteInvitationRow(r)
  <2>1. LocksOK'
    <3>1. Pend(r) \/ UNCHANGED pendingLock
      BY <1>14 DEF DeleteInvitationRow
    <3>. QED
      BY <1>2, <1>14, <3>1, PendTypes DEF DeleteInvitationRow, LocksOK, Holder
  <2>. QED
    BY <1>14, <2>1, LockingInvitations DEF DeleteInvitationRow, At
<1>15. CASE LockInvitation(r)
  <2>1. pc[r] = "lockInvitation" /\ UNCHANGED <<tables, call>>
    BY <1>15 DEF LockInvitation, At
  <2>2. CASE Answer(r, AcceptError(r))
    <3>1. AcceptError(r) \in Codes
      BY <1>1 DEF AcceptError
    <3>. QED
      BY <2>1, <2>2, <3>1, Answering
  <2>3. CASE /\ invitationLock' = [invitationLock EXCEPT ![c.i] = r]
             /\ Advance(r, "insertMember")
             /\ UNCHANGED <<projectLock, keyShare, memberLock, pendingLock>>
    <3>1. LocksOK'
      BY <1>2, <2>3 DEF LocksOK, Holder
    <3>. QED
      BY <2>1, <2>3, <3>1, LockingInvitations
  <2>. QED
    BY <1>15, <2>2, <2>3 DEF LockInvitation
<1>16. CASE InsertMember(r)
  <2>1. pc[r] = "insertMember" /\ Blockers(r) = {} /\ UNCHANGED <<tables, call>>
    BY <1>16 DEF InsertMember, At
  <2>2. CASE c.u \in members[c.p]
    BY <1>16, <2>1, <2>2, Going DEF InsertMember
  <2>3. CASE c.u \notin members[c.p] /\ c.p \in live
    <3>1. /\ memberLock' = [memberLock EXCEPT ![c.p][c.u] = r]
          /\ KeyShare(r, c.p)
          /\ Advance(r, "acceptInvitation")
          /\ UNCHANGED <<projectLock, invitationLock, pendingLock>>
      BY <1>16, <2>3 DEF InsertMember
    <3>2. LocksOK'
      BY <1>2, <3>1 DEF LocksOK, KeyShare, Holder
    <3>3. projectLock[c.p] \in {r, None}
      BY <2>1, <2>3, Waiting
    <3>4. \A p \in Projects, u \in Users :
             \/ memberLock'[p][u] = memberLock[p][u]
             \/ p = c.p /\ u = c.u /\ memberLock'[p][u] = r
      BY <1>2, <3>1 DEF LocksOK
    <3>. QED
      BY <2>1, <2>3, <3>1, <3>2, <3>3, <3>4, Sharing
  <2>4. CASE c.u \notin members[c.p] /\ c.p \notin live
    BY <1>1, <1>16, <2>1, <2>4, Answering DEF InsertMember
  <2>. QED
    BY <2>2, <2>3, <2>4
<1>17. CASE MarkAccepted(r)
  <2>1. pc[r] = "acceptInvitation" /\ Blockers(r) = {} /\ UNCHANGED <<tables, call>>
    BY <1>17 DEF MarkAccepted, At
  <2>2. CASE c.p \in live
    <3>1. /\ Pend(r) /\ KeyShare(r, c.p) /\ Advance(r, "commit")
          /\ UNCHANGED <<projectLock, memberLock, invitationLock>>
      BY <1>17, <2>2 DEF MarkAccepted
    <3>2. LocksOK'
      BY <1>2, <3>1 DEF LocksOK, KeyShare, Pend, Holder
    <3>3. projectLock[c.p] \in {r, None}
      BY <2>1, Waiting
    <3>. QED
      BY <2>1, <2>2, <3>1, <3>2, <3>3, Sharing
  <2>3. CASE c.p \notin live
    BY <1>1, <1>17, <2>1, <2>3, Answering DEF MarkAccepted
  <2>. QED
    BY <2>2, <2>3
<1>18. CASE Commit(r)
  <2>1. PICK answer \in Codes : pc[r] = "commit" /\ Answer(r, answer) /\ UNCHANGED call
    BY <1>18 DEF Commit, At, Codes
  <2>2. CASE CommitCreateProject(r)
    BY <2>1, <2>2, CommittingCreation
  <2>3. CASE CommitDeleteProject(r)
    BY <2>1, <2>3, CommittingDeletion
  <2>4. CASE CommitMemberDeletion(r)
    BY <2>1, <2>4, CommittingMemberDeletion
  <2>5. CASE CommitCreateInvitation(r) \/ CommitDeleteInvitation(r)
               \/ CommitAcceptInvitation(r)
    BY <2>1, <2>5, CommittingInvitation
  <2>. QED
    BY <1>18, <2>2, <2>3, <2>4, <2>5 DEF Commit
<1>. QED
  BY <1>4, <1>5, <1>6, <1>7, <1>8, <1>9, <1>10, <1>11, <1>12, <1>13, <1>14, <1>15,
     <1>16, <1>17, <1>18 DEF Step

(* An invitation expires. *)
LEMMA Lapsing ==
    ASSUME ProjectsInv, NEW i \in Invitations, Lapse(i)
    PROVE  ProjectsInv'
<1>. USE DEF ProjectsInv, Lapse, locks
<1>1. TypeOK' /\ ControlInv'
  BY DEF TypeOK, TablesOK, RequestsOK, LocksOK, ControlInv
<1>2. OwnerInv' /\ MemberLockInv'
  BY DEF OwnerInv, Running, MemberLockInv
<1>3. ProjectLockInv'
  BY DEF ProjectLockInv, SharedExists, SharersWrite, WritersShare, Shares,
         LockedIsDeleted, DeletedIsLocked
<1>4. OwnerIsMember' /\ NoOrphans'
  BY DEF OwnerIsMember, NoOrphans, ProjectInvitations, HasRow
<1>. QED
  BY <1>1, <1>2, <1>3, <1>4

LEMMA Stuttering ==
    ASSUME ProjectsInv, UNCHANGED vars
    PROVE  ProjectsInv'
<1>. USE DEF ProjectsInv, vars, tables, locks
<1>1. TypeOK' /\ ControlInv'
  BY DEF TypeOK, TablesOK, RequestsOK, LocksOK, ControlInv
<1>2. OwnerInv' /\ MemberLockInv'
  BY DEF OwnerInv, Running, MemberLockInv
<1>3. ProjectLockInv'
  BY DEF ProjectLockInv, SharedExists, SharersWrite, WritersShare, Shares,
         LockedIsDeleted, DeletedIsLocked
<1>4. OwnerIsMember' /\ NoOrphans'
  BY DEF OwnerIsMember, NoOrphans, ProjectInvitations, HasRow
<1>. QED
  BY <1>1, <1>2, <1>3, <1>4

(* Any step keeps the part of the invariant that is about projects. *)
LEMMA ProjectsStep == ProjectsInv /\ [Next]_vars => ProjectsInv'
<1>. SUFFICES ASSUME ProjectsInv, [Next]_vars PROVE ProjectsInv'
  OBVIOUS
<1>1. ASSUME NEW r \in Requests, Arrive(r) PROVE ProjectsInv'
  BY <1>1, Arriving
<1>2. ASSUME NEW r \in Requests, Step(r) PROVE ProjectsInv'
  BY <1>2, StatementStep
<1>3. ASSUME NEW r \in Requests, DeadlockVictim(r) \/ Abort(r) PROVE ProjectsInv'
  BY <1>3, Answering DEF DeadlockVictim, Abort, Running, Codes
<1>4. ASSUME NEW i \in Invitations, Lapse(i) PROVE ProjectsInv'
  BY <1>4, Lapsing
<1>5. CASE UNCHANGED vars
  BY <1>5, Stuttering
<1>. QED
  BY <1>1, <1>2, <1>3, <1>4, <1>5 DEF Next

(* The rows of earlier requests satisfy it. *)
LEMMA ProjectsStart == Init => ProjectsInv
<1>. SUFFICES ASSUME Init PROVE ProjectsInv
  OBVIOUS
<1>1. /\ call = [r \in Requests |-> NoCall] /\ pc = [r \in Requests |-> "idle"]
      /\ code = [r \in Requests |-> "none"]
      /\ \A p \in Projects : projectLock[p] = None /\ keyShare[p] = {}
      /\ \A p \in Projects, u \in Users : memberLock[p][u] = None
  BY DEF Init
<1>2. NoCall \in Calls /\ NoCall.op = "none"
  BY DEF NoCall, Call, Calls
<1>3. TypeOK
  <2>1. \A u \in Users : JoinedEarlier(u) \in Events
    BY DEF JoinedEarlier, Events, Actions
  <2>2. log \in [Projects -> SUBSET Events]
    BY <2>1 DEF Init, InitTables
  <2>3. TablesOK
    BY <2>2 DEF Init, InitTables, TablesOK, Statuses
  <2>4. RequestsOK
    BY <1>1, <1>2 DEF RequestsOK, Steps, Codes
  <2>5. LocksOK
    BY DEF Init, LocksOK, Holder
  <2>. QED
    BY <2>3, <2>4, <2>5 DEF TypeOK
<1>4. ControlInv
  BY <1>1, <1>2 DEF ControlInv
<1>5. OwnerInv
  BY <1>1, <1>2 DEF OwnerInv, Init, InitTables
<1>6. MemberLockInv /\ ProjectLockInv
  BY <1>1, <1>2, IdsAssumption
  DEF MemberLockInv, ProjectLockInv, SharedExists, SharersWrite, WritersShare, Shares,
      LockedIsDeleted, DeletedIsLocked
<1>7. OwnerIsMember
  BY DEF OwnerIsMember, OwnerMembership, Init, InitTables
<1>8. NoOrphans
  <2>1. ASSUME NEW p \in Projects \ live PROVE members[p] = {} /\ log[p] = {}
    BY <2>1 DEF Init, InitTables
  <2>2. \A i \in Invitations : HasRow(i) => InvitationProject[i] \in live
    BY DEF Init, InitTables, HasRow
  <2>. QED
    BY <2>1, <2>2 DEF NoOrphans, ProjectInvitations
<1>. QED
  BY <1>3, <1>4, <1>5, <1>6, <1>7, <1>8 DEF ProjectsInv

-----------------------------------------------------------------------------
(* Row locks: a statement takes only rows that nobody else has locked *)

(* A step of r gives row locks to r or back, and takes none from another. *)
OwnLocks(r) ==
    /\ \A i \in Invitations :
          \/ invitationLock'[i] = invitationLock[i]
          \/ invitationLock[i] \in {r, None} /\ invitationLock'[i] \in {r, None}
    /\ \A p \in Projects, u \in Users :
          \/ memberLock'[p][u] = memberLock[p][u]
          \/ memberLock[p][u] \in {r, None} /\ memberLock'[p][u] \in {r, None}
    /\ \A p \in Projects, e \in Emails :
          \/ pendingLock'[p][e] = pendingLock[p][e]
          \/ pendingLock[p][e] \in {r, None} /\ pendingLock'[p][e] \in {r, None}

(* What the other requests know of their rows stays true. *)
LEMMA Bystander ==
    ASSUME TransactionsInv, NEW r \in Requests, UNCHANGED tables, OwnLocks(r),
           \A d \in Requests : d # r => call'[d] = call[d] /\ pc'[d] = pc[d],
           NEW d \in Requests, d # r,
           call[d].op = "CreateInvitation" /\ Running(d) => call'[r].i # call[d].i
    PROVE  RowLocks(d)'
<1>1. /\ RowLocks(d) /\ call'[d] = call[d] /\ pc'[d] = pc[d] /\ d # None
      /\ call[d].op = "none" <=> pc[d] = "idle"
  BY IdsAssumption DEF TransactionsInv, InvitationsInv, ProjectsInv, ControlInv
<1>2. /\ \A i \in Invitations : invitationLock'[i] = d <=> invitationLock[i] = d
      /\ \A p \in Projects, u \in Users : memberLock'[p][u] = d <=> memberLock[p][u] = d
      /\ \A p \in Projects, e \in Emails : pendingLock'[p][e] = d <=> pendingLock[p][e] = d
  BY <1>1 DEF OwnLocks
<1>3. call[d].op \in {"CreateInvitation", "DeleteInvitation", "AcceptInvitation"} =>
          call[d].i \in Invitations
  BY DEF TransactionsInv, ProjectsInv, ControlInv
<1>4. call[d].op # "none" => call[d].p \in Projects
  BY DEF TransactionsInv, ProjectsInv, ControlInv
<1>. USE <1>1, <1>2 DEF RowLocks, tables
<1>5. LockedInvitations(d)' /\ AcceptorLocks(d)' /\ RevokerLocks(d)'
  BY <1>3 DEF LockedInvitations, AcceptorLocks, RevokerLocks, HasRow, SamePending, Running
<1>6. NewInvitation(d)'
  BY DEF NewInvitation, Running
<1>7. PendingEntries(d)'
  BY DEF PendingEntries
<1>8. CreatorHolds(d)'
  BY <1>3, <1>4, IdsAssumption DEF CreatorHolds
<1>9. DeleterLocks(d)' /\ LockedMembers(d)'
  <2>1. members \in [Projects -> SUBSET Users]
    BY DEF TransactionsInv, ProjectsInv, TypeOK, TablesOK
  <2>. QED
    BY <1>4, <2>1 DEF DeleterLocks, LockedMembers, ProjectInvitations, HasRow
<1>. QED
  BY <1>5, <1>6, <1>7, <1>8, <1>9

(* The audit log agrees with what it agreed with when nothing is written. *)
LEMMA Unwritten ==
    ASSUME TransactionsInv, UNCHANGED tables,
           \A d \in Requests : pc[d] = "done" => pc'[d] = "done"
    PROVE  OnePendingPerEmail' /\ LogInv'
<1>. USE DEF TransactionsInv, InvitationsInv, LogInv, tables
<1>1. OnePendingPerEmail'
  BY DEF OnePendingPerEmail, SamePending
<1>2. LogAgrees' /\ AcceptedOnce'
  BY DEF LogAgrees, AcceptedOnce
<1>3. \A p, u : Joins(p, u)' = Joins(p, u) /\ Departures(p, u)' = Departures(p, u)
  BY DEF Joins, Departures
<1>4. FiniteHistories' /\ AuditAccountsForMembership'
  BY <1>3 DEF FiniteHistories, AuditAccountsForMembership
<1>. QED
  BY <1>1, <1>2, <1>4

(* So a step that writes no table is about the locks of its own request. *)
LEMMA Unshared ==
    ASSUME TransactionsInv, NEW r \in Requests, UNCHANGED tables, OwnLocks(r), RowLocks(r)',
           \A d \in Requests : d # r => call'[d] = call[d] /\ pc'[d] = pc[d],
           pc[r] # "done",
           \A d \in Requests : d # r /\ call[d].op = "CreateInvitation" /\ Running(d)
               => call'[r].i # call[d].i
    PROVE  InvitationsInv' /\ LogInv'
<1>1. OnePendingPerEmail' /\ LogInv'
  BY Unwritten
<1>2. \A d \in Requests : d # r => RowLocks(d)'
  BY Bystander
<1>. QED
  BY <1>1, <1>2 DEF InvitationsInv

(* A transaction that has ended has no locks. *)
LEMMA Ended ==
    ASSUME TransactionsInv, NEW r \in Requests, Release(r), pc'[r] = "done"
    PROVE  RowLocks(r)' /\ OwnLocks(r)
<1>1. TypeOK /\ r # None
  BY IdsAssumption DEF TransactionsInv, ProjectsInv
<1>2. /\ \A i \in Invitations :
            invitationLock'[i] = IF invitationLock[i] = r THEN None ELSE invitationLock[i]
      /\ \A p \in Projects, u \in Users :
            memberLock'[p][u] = IF memberLock[p][u] = r THEN None ELSE memberLock[p][u]
      /\ \A p \in Projects, e \in Emails :
            pendingLock'[p][e] = IF pendingLock[p][e] = r THEN None ELSE pendingLock[p][e]
  BY DEF Release
<1>3. OwnLocks(r)
  BY <1>2 DEF OwnLocks
<1>4. RowLocks(r)'
  BY <1>1, <1>2 DEF RowLocks, LockedInvitations, NewInvitation, AcceptorLocks, RevokerLocks,
                    PendingEntries, CreatorHolds, DeleterLocks, LockedMembers, Running
<1>. QED
  BY <1>3, <1>4

LEMMA RollingBack ==
    ASSUME TransactionsInv, NEW r \in Requests, NEW c \in Codes, Answer(r, c), Running(r),
           UNCHANGED <<tables, call>>
    PROVE  InvitationsInv' /\ LogInv'
<1>1. /\ Release(r) /\ pc'[r] = "done" /\ \A d \in Requests : d # r => pc'[d] = pc[d]
      /\ pc[r] # "done"
  BY DEF Answer, Running, TransactionsInv, ProjectsInv, TypeOK, RequestsOK
<1>2. RowLocks(r)' /\ OwnLocks(r)
  BY <1>1, Ended
<1>3. \A d \in Requests : d # r /\ call[d].op = "CreateInvitation" /\ Running(d)
          => call[r].i # call[d].i
  BY DEF TransactionsInv, InvitationsInv, RowLocks, NewInvitation
<1>. QED
  BY <1>1, <1>2, <1>3, Unshared

(* A request that arrives has locked nothing; if it creates an invitation,   *)
(* nobody else names it.                                                     *)
LEMMA ArrivingUnlocked ==
    ASSUME TransactionsInv, NEW r \in Requests, NEW c, WellFormed(c), Serve(r, c),
           UNCHANGED tables,
           \/ \E s : FirstStep(c, s) /\ Goto(r, s)
           \/ \E e \in Codes : Answer(r, e),
           c.op = "CreateInvitation" =>
               status[c.i] = "unused" /\ \A d \in Requests : call[d].i # c.i,
           c.op # "CreateInvitation" /\ c.i # None => status[c.i] # "unused",
           c.op = "DeleteInvitation" => pc'[r] = "done" \/ owner[c.p] = c.u
    PROVE  InvitationsInv' /\ LogInv'
<1>. USE DEF TransactionsInv
<1>1. /\ call[r].op = "none" /\ pc[r] = "idle"
      /\ call'[r] = c /\ \A d \in Requests : d # r => call'[d] = call[d] /\ pc'[d] = pc[d]
  BY DEF Serve, Goto, Answer, ProjectsInv, ControlInv, TypeOK, RequestsOK
<1>2. ASSUME NEW d \in Requests, d # r, call[d].op = "CreateInvitation", Running(d)
      PROVE  c.i # call[d].i
  <2>1. call[d].i \in Invitations
    BY <1>2 DEF ProjectsInv, ControlInv
  <2>2. status[call[d].i] = "unused"
    BY <1>2 DEF InvitationsInv, RowLocks, NewInvitation
  <2>. QED
    BY <1>2, <2>1, <2>2, IdsAssumption DEF WellFormed
<1>3. RowLocks(r)' /\ OwnLocks(r)
  <2>1. CASE \E e \in Codes : Answer(r, e)
    <3>1. Release(r) /\ pc'[r] = "done"
      BY <2>1 DEF Answer, ProjectsInv, TypeOK, RequestsOK
    <3>. QED
      BY <3>1, Ended
  <2>2. ASSUME NEW s, FirstStep(c, s), Goto(r, s) PROVE RowLocks(r)' /\ OwnLocks(r)
    <3>1. pc'[r] = s /\ UNCHANGED locks
      BY <2>2 DEF Goto, ProjectsInv, TypeOK, RequestsOK
    <3>2. OwnLocks(r)
      BY <3>1 DEF OwnLocks, locks
    <3>3. /\ \A i \in Invitations : invitationLock[i] # r
          /\ \A p \in Projects, u \in Users : memberLock[p][u] # r
      BY <1>1 DEF InvitationsInv, RowLocks, LockedInvitations, ProjectsInv, MemberLockInv
    <3>4. /\ s # "commit" \/ c.op = "CreateProject"
          /\ s \notin {"insertMember", "acceptInvitation", "deleteInvitation", "shareProject",
                       "cascadeInvitations"}
          /\ s = "audit" => c.op = "LeaveProject"
      BY <2>2 DEF FirstStep
    <3>5. LockedInvitations(r)' /\ LockedMembers(r)'
      BY <3>1, <3>3 DEF LockedInvitations, LockedMembers, locks
    <3>6. NewInvitation(r)'
      BY <1>1 DEF NewInvitation, tables
    <3>7. AcceptorLocks(r)' /\ CreatorHolds(r)' /\ DeleterLocks(r)'
      BY <1>1, <3>1, <3>4 DEF AcceptorLocks, CreatorHolds, DeleterLocks
    <3>8. RevokerLocks(r)'
      <4>1. s # "done"
        BY <2>2 DEF FirstStep
      <4>. QED
        BY <1>1, <3>1, <3>4, <4>1 DEF RevokerLocks, tables
    <3>9. PendingEntries(r)'
      BY <3>1 DEF InvitationsInv, RowLocks, PendingEntries, locks, tables
    <3>. QED
      BY <3>2, <3>5, <3>6, <3>7, <3>8, <3>9 DEF RowLocks
  <2>. QED
    BY <2>1, <2>2
<1>. QED
  BY <1>1, <1>2, <1>3, Unshared

(* The arrivals, and what EnsureOwner has found. *)
LEMMA ArrivingKeepsInvitations ==
    ASSUME TransactionsInv, NEW r \in Requests, Arrive(r)
    PROVE  InvitationsInv' /\ LogInv'
<1>1. PICK u \in Users :
        \/ \E p \in Projects : CreateProject(r, u, p)
        \/ \E p \in Projects, stale \in BOOLEAN : DeleteProject(r, u, p, stale)
        \/ \E p \in Projects, m \in Users : RemoveMember(r, u, p, m)
        \/ \E p \in Projects : LeaveProject(r, u, p)
        \/ \E i \in Invitations : CreateInvitation(r, u, i)
        \/ \E p \in Projects, i \in Invitations : DeleteInvitation(r, u, p, i)
        \/ \E i \in Invitations : AcceptInvitation(r, u, i)
  BY DEF Arrive
<1>2. /\ {"notFound", "forbidden", "conflict", "internal"} \subseteq Codes
      /\ \A p : EnsureOwner(u, p) \in Codes
      /\ \A p : EnsureOwner(u, p) = "ok" => owner[p] = u
  BY DEF Codes, EnsureOwner
<1>3. ASSUME NEW op \in {"CreateProject", "DeleteProject", "RemoveMember", "LeaveProject"},
             NEW p \in Projects, NEW m \in Users \cup {None}, NEW stale \in BOOLEAN,
             op \in {"RemoveMember", "LeaveProject"} => m \in Users,
             Serve(r, Call(op, u, p, m, None, stale)), UNCHANGED tables,
             \/ \E s : FirstStep(Call(op, u, p, m, None, stale), s) /\ Goto(r, s)
             \/ \E e \in Codes : Answer(r, e)
      PROVE  InvitationsInv' /\ LogInv'
  <2>. DEFINE c == Call(op, u, p, m, None, stale)
  <2>1. WellFormed(c) /\ c.op = op /\ c.i = None
    BY <1>3, CallsWellFormed DEF AllOperations, Call
  <2>. QED
    BY <1>3, <2>1, ArrivingUnlocked
<1>4. ASSUME NEW p \in Projects, CreateProject(r, u, p) PROVE InvitationsInv' /\ LogInv'
  BY <1>2, <1>3, <1>4 DEF CreateProject, FirstStep, Call
<1>5. ASSUME NEW p \in Projects, NEW stale \in BOOLEAN, DeleteProject(r, u, p, stale)
      PROVE  InvitationsInv' /\ LogInv'
  BY <1>2, <1>3, <1>5 DEF DeleteProject, FirstStep, Call
<1>6. ASSUME NEW p \in Projects, NEW m \in Users, RemoveMember(r, u, p, m)
      PROVE  InvitationsInv' /\ LogInv'
  BY <1>2, <1>3, <1>6 DEF RemoveMember, FirstStep, Call
<1>7. ASSUME NEW p \in Projects, LeaveProject(r, u, p) PROVE InvitationsInv' /\ LogInv'
  BY <1>2, <1>3, <1>7 DEF LeaveProject, FirstStep, Call
<1>8. ASSUME NEW i \in Invitations, CreateInvitation(r, u, i)
      PROVE  InvitationsInv' /\ LogInv'
  <2>. DEFINE c == Call("CreateInvitation", u, InvitationProject[i], None, i, FALSE)
  <2>1. WellFormed(c) /\ c.op = "CreateInvitation" /\ c.i = i
    BY CallsWellFormed, IdsAssumption DEF AllOperations, Call
  <2>2. FirstStep(c, "deleteLapsed")
    BY <2>1 DEF FirstStep
  <2>. QED
    BY <1>2, <1>8, <2>1, <2>2, ArrivingUnlocked DEF CreateInvitation
<1>9. ASSUME NEW p \in Projects, NEW i \in Invitations, DeleteInvitation(r, u, p, i)
      PROVE  InvitationsInv' /\ LogInv'
  <2>. DEFINE c == Call("DeleteInvitation", u, p, None, i, FALSE)
  <2>1. /\ WellFormed(c) /\ c.op = "DeleteInvitation" /\ c.i = i /\ c.p = p /\ c.u = u
        /\ Serve(r, c) /\ UNCHANGED tables /\ status[i] # "unused"
    BY <1>9, CallsWellFormed DEF AllOperations, Call, DeleteInvitation
  <2>2. CASE Answer(r, EnsureOwner(u, p))
    <3>1. pc'[r] = "done"
      BY <2>2 DEF Answer, TransactionsInv, ProjectsInv, TypeOK, RequestsOK
    <3>. QED
      BY <1>2, <2>1, <2>2, <3>1, ArrivingUnlocked
  <2>3. CASE EnsureOwner(u, p) = "ok" /\ Goto(r, "readStatus")
    BY <1>2, <2>1, <2>3, ArrivingUnlocked DEF FirstStep
  <2>. QED
    BY <1>9, <2>2, <2>3 DEF DeleteInvitation
<1>10. ASSUME NEW i \in Invitations, AcceptInvitation(r, u, i)
       PROVE  InvitationsInv' /\ LogInv'
  <2>. DEFINE c == Call("AcceptInvitation", u, InvitationProject[i], None, i, lapsed[i])
  <2>1. WellFormed(c) /\ c.op = "AcceptInvitation" /\ c.i = i
    BY CallsWellFormed, IdsAssumption
    DEF AllOperations, Call, TransactionsInv, ProjectsInv, TypeOK, TablesOK
  <2>2. FirstStep(c, "lockInvitation")
    BY <2>1 DEF FirstStep
  <2>. QED
    BY <1>10, <2>1, <2>2, ArrivingUnlocked DEF AcceptInvitation
<1>. QED
  BY <1>1, <1>4, <1>5, <1>6, <1>7, <1>8, <1>9, <1>10

-----------------------------------------------------------------------------
(* The statements, and the row locks they take *)

(* The rows a statement is about are not locked by anybody else when it runs. *)
LEMMA NotWaiting ==
    ASSUME TransactionsInv, NEW r \in Requests, Blockers(r) = {}
    PROVE  LET c == call[r] IN
           /\ pc[r] = "deleteMember" /\ MemberDeletable(c.u, c.p, c.m)
                => memberLock[c.p][c.m] \in {r, None}
           /\ pc[r] = "cascadeMembers"
                => \A u \in members[c.p] : memberLock[c.p][u] \in {r, None}
           /\ pc[r] = "cascadeInvitations"
                => \A i \in ProjectInvitations(c.p) : invitationLock[i] \in {r, None}
           /\ pc[r] = "deleteLapsed"
                => \A i \in LapsedPending(c.i) : invitationLock[i] \in {r, None}
           /\ pc[r] = "insertInvitation"
                => pendingLock[c.p][InvitationEmail[c.i]] \in {r, None}
           /\ pc[r] = "deleteInvitation"
                => \A i \in Selected(c.u, c.p, c.i) : invitationLock[i] \in {r, None}
           /\ pc[r] = "lockInvitation" /\ HasRow(c.i) => invitationLock[c.i] \in {r, None}
           /\ pc[r] = "insertMember" => memberLock[c.p][c.u] \in {r, None}
<1>. DEFINE c == call[r]
<1>1. \A d \in Requests : ~Waits(r, d)
  BY DEF Blockers
<1>2. /\ TypeOK /\ ControlInv
      /\ members \in [Projects -> SUBSET Users]
      /\ \A p \in Projects, u \in Users : memberLock[p][u] \in Requests \cup {None}
      /\ \A i \in Invitations : invitationLock[i] \in Requests \cup {None}
      /\ \A p \in Projects, e \in Emails : pendingLock[p][e] \in Requests \cup {None}
  BY DEF TransactionsInv, ProjectsInv, TypeOK, TablesOK, LocksOK, Holder
<1>3. pc[r] # "idle" => c.p \in Projects /\ c.u \in Users
  BY <1>2 DEF ControlInv
<1>4. ASSUME NEW U \in SUBSET Users, \A d \in Requests : d \notin MemberBlockers(r, U),
             pc[r] # "idle"
      PROVE  \A u \in U : memberLock[c.p][u] \in {r, None}
  BY <1>2, <1>3, <1>4 DEF MemberBlockers, Others
<1>5. ASSUME NEW I \in SUBSET Invitations,
             \A d \in Requests : d \notin InvitationBlockers(r, I)
      PROVE  \A i \in I : invitationLock[i] \in {r, None}
  BY <1>2, <1>5 DEF InvitationBlockers, Others
<1>6. CASE pc[r] \in {"deleteMember", "cascadeMembers", "insertMember"}
  <2>1. pc[r] = "deleteMember" => c.m \in Users
    BY <1>2 DEF ControlInv
  <2>2. /\ pc[r] = "deleteMember" => {m \in {c.m} : MemberDeletable(c.u, c.p, m)} \in SUBSET Users
        /\ members[c.p] \in SUBSET Users /\ {c.u} \in SUBSET Users
    BY <1>2, <1>3, <1>6, <2>1
  <2>3. CASE pc[r] = "deleteMember"
    <3>1. \A d \in Requests :
             d \notin MemberBlockers(r, {m \in {c.m} : MemberDeletable(c.u, c.p, m)})
      BY <1>1, <2>3 DEF Waits
    <3>. QED
      BY <1>4, <2>2, <2>3, <3>1
  <2>4. CASE pc[r] = "cascadeMembers"
    <3>1. \A d \in Requests : d \notin MemberBlockers(r, members[c.p])
      BY <1>1, <2>4 DEF Waits
    <3>. QED
      BY <1>4, <2>2, <2>4, <3>1
  <2>5. CASE pc[r] = "insertMember"
    <3>1. \A d \in Requests : d \notin MemberBlockers(r, {c.u})
      BY <1>1, <2>5 DEF Waits
    <3>. QED
      BY <1>4, <2>2, <2>5, <3>1
  <2>. QED
    BY <1>6, <2>3, <2>4, <2>5
<1>7. CASE pc[r] \in {"cascadeInvitations", "deleteLapsed", "deleteInvitation", "lockInvitation"}
  <2>1. pc[r] \in {"deleteInvitation", "lockInvitation"} => c.i \in Invitations
    BY <1>2 DEF ControlInv
  <2>2. CASE pc[r] = "cascadeInvitations"
    <3>1. \A d \in Requests : d \notin InvitationBlockers(r, ProjectInvitations(c.p))
      BY <1>1, <2>2 DEF Waits
    <3>. QED
      BY <1>5, <2>2, <3>1 DEF ProjectInvitations
  <2>3. CASE pc[r] = "deleteLapsed"
    <3>1. \A d \in Requests : d \notin InvitationBlockers(r, LapsedPending(c.i))
      BY <1>1, <2>3 DEF Waits
    <3>. QED
      BY <1>5, <2>3, <3>1 DEF LapsedPending
  <2>4. CASE pc[r] = "deleteInvitation"
    <3>1. \A d \in Requests : d \notin InvitationBlockers(r, Selected(c.u, c.p, c.i))
      BY <1>1, <2>4 DEF Waits
    <3>. QED
      BY <1>5, <2>1, <2>4, <3>1 DEF Selected
  <2>5. CASE pc[r] = "lockInvitation"
    <3>1. \A d \in Requests : d \notin InvitationBlockers(r, {i \in {c.i} : HasRow(i)})
      BY <1>1, <2>5 DEF Waits
    <3>. QED
      BY <1>5, <2>1, <2>5, <3>1
  <2>. QED
    BY <1>7, <2>2, <2>3, <2>4, <2>5
<1>8. CASE pc[r] = "insertInvitation"
  <2>1. InvitationEmail[c.i] \in Emails
    BY <1>2, <1>8, IdsAssumption DEF ControlInv
  <2>. QED
    BY <1>1, <1>2, <1>3, <1>8, <2>1 DEF Waits, PendingBlockers, Others
<1>. QED
  BY <1>6, <1>7, <1>8

(* A statement of r that goes on: what is left to show is about r alone. *)
LEMMA GoingOn ==
    ASSUME TransactionsInv, NEW r \in Requests, NEW s, Advance(r, s), Running(r),
           UNCHANGED <<tables, call>>, OwnLocks(r), RowLocks(r)'
    PROVE  InvitationsInv' /\ LogInv'
<1>1. /\ pc[r] # "done" /\ \A d \in Requests : d # r => pc'[d] = pc[d]
  BY DEF Advance, Running, TransactionsInv, ProjectsInv, TypeOK, RequestsOK
<1>2. \A d \in Requests : d # r /\ call[d].op = "CreateInvitation" /\ Running(d)
          => call[r].i # call[d].i
  BY DEF TransactionsInv, InvitationsInv, RowLocks, NewInvitation
<1>. QED
  BY <1>1, <1>2, Unshared

(* The statements that lock no member, no invitation and no index entry. *)
LEMMA Quiet ==
    ASSUME TransactionsInv, NEW r \in Requests, NEW s, Advance(r, s),
           UNCHANGED <<tables, call, memberLock, invitationLock, pendingLock>>,
           \/ pc[r] = "audit" /\ s = "shareProject"
           \/ pc[r] = "shareProject" /\ call[r].op = "LeaveProject" /\ s = "deleteMember"
           \/ pc[r] = "shareProject" /\ call[r].op # "LeaveProject" /\ s = "commit"
           \/ pc[r] = "lockProject" /\ s \in {"cascadeMembers", "mutationState"}
           \/ pc[r] = "insertMember" /\ s = "acceptInvitation"
           \/ pc[r] = "deleteMember" /\ s = "commit"
           \/ /\ pc[r] = "readStatus" /\ s = "deleteInvitation"
              /\ InvitationProject[call[r].i] = call[r].p /\ status[call[r].i] # "unused"
    PROVE  InvitationsInv' /\ LogInv'
<1>1. RowLocks(r) /\ Running(r) /\ ControlInv
  BY DEF TransactionsInv, ProjectsInv, InvitationsInv, Running
<1>2. pc'[r] = s /\ call'[r] = call[r]
  BY DEF Advance, TransactionsInv, ProjectsInv, TypeOK, RequestsOK
<1>. USE <1>1, <1>2 DEF RowLocks, tables
<1>3. LockedInvitations(r)' /\ LockedMembers(r)'
  BY DEF LockedInvitations, LockedMembers, HasRow, SamePending, ControlInv
<1>4. NewInvitation(r)' /\ PendingEntries(r)'
  BY DEF NewInvitation, PendingEntries, Running
<1>5. AcceptorLocks(r)' /\ CreatorHolds(r)' /\ DeleterLocks(r)'
  BY DEF AcceptorLocks, CreatorHolds, DeleterLocks, ControlInv
<1>6. RevokerLocks(r)'
  BY DEF RevokerLocks, ControlInv, Running
<1>. QED
  BY <1>3, <1>4, <1>5, <1>6, GoingOn DEF OwnLocks

(* The statements that lock members. *)
LEMMA LockingMemberRows ==
    ASSUME TransactionsInv, NEW r \in Requests, NEW s, Advance(r, s),
           UNCHANGED <<tables, call, invitationLock, pendingLock>>,
           \A p \in Projects, u \in Users :
               \/ memberLock'[p][u] = memberLock[p][u]
               \/ /\ memberLock[p][u] \in {r, None} /\ memberLock'[p][u] = r
                  /\ u \in members[p] <=> call[r].op # "AcceptInvitation",
           \/ pc[r] = "deleteMember" /\ s \in {"audit", "commit"}
                /\ call[r].op \in {"RemoveMember", "LeaveProject"}
           \/ /\ pc[r] = "cascadeMembers" /\ s = "cascadeInvitations"
              /\ \A u \in members[call[r].p] : memberLock'[call[r].p][u] = r
           \/ pc[r] = "insertMember" /\ s = "acceptInvitation"
    PROVE  InvitationsInv' /\ LogInv'
<1>1. RowLocks(r) /\ Running(r) /\ ControlInv
  BY DEF TransactionsInv, ProjectsInv, InvitationsInv, Running
<1>2. pc'[r] = s /\ call'[r] = call[r]
  BY DEF Advance, TransactionsInv, ProjectsInv, TypeOK, RequestsOK
<1>. USE <1>1, <1>2 DEF RowLocks, tables
<1>3. LockedInvitations(r)' /\ LockedMembers(r)'
  BY DEF LockedInvitations, LockedMembers, HasRow, SamePending, ControlInv
<1>4. NewInvitation(r)' /\ PendingEntries(r)'
  BY DEF NewInvitation, PendingEntries, Running, ControlInv
<1>5. AcceptorLocks(r)' /\ CreatorHolds(r)' /\ DeleterLocks(r)'
  BY DEF AcceptorLocks, CreatorHolds, DeleterLocks, ControlInv
<1>6. RevokerLocks(r)'
  BY DEF RevokerLocks, ControlInv, Running
<1>. QED
  BY <1>3, <1>4, <1>5, <1>6, GoingOn DEF OwnLocks

(* Nobody has the index entry of a pending invitation that nobody else has   *)
(* locked: a DELETE or an UPDATE of it need not wait for one.                *)
LEMMA PendingFree ==
    ASSUME TransactionsInv, NEW r \in Requests, NEW j \in Invitations, status[j] = "pending",
           invitationLock[j] \in {r, None}
    PROVE  pendingLock[InvitationProject[j]][InvitationEmail[j]] \in {r, None}
<1>. DEFINE p == InvitationProject[j]  e == InvitationEmail[j]
<1>1. p \in Projects /\ e \in Emails
  BY IdsAssumption
<1>2. pendingLock[p][e] \in Requests \cup {None}
  BY <1>1 DEF TransactionsInv, ProjectsInv, TypeOK, LocksOK, Holder
<1>3. ASSUME pendingLock[p][e] \in Requests PROVE invitationLock[j] = pendingLock[p][e]
  BY <1>1, <1>3 DEF TransactionsInv, InvitationsInv, RowLocks, PendingEntries
<1>. QED
  BY <1>2, <1>3, IdsAssumption

LEMMA PendedEntry ==
    ASSUME TransactionsInv, NEW r \in Requests, Pend(r), call[r].p \in Projects,
           call[r].i \in Invitations
    PROVE  \A p \in Projects, e \in Emails :
              pendingLock'[p][e] =
                  IF p = call[r].p /\ e = InvitationEmail[call[r].i]
                  THEN r ELSE pendingLock[p][e]
  BY DEF Pend, TransactionsInv, ProjectsInv, TypeOK, LocksOK

(* Pending invitations of the same project and email are the same.           *)
LEMMA SamePendingIsOne ==
    ASSUME TransactionsInv, NEW i, NEW j \in Invitations, NEW k \in Invitations,
           SamePending(i, j), SamePending(i, k)
    PROVE  j = k
  BY DEF TransactionsInv, InvitationsInv, OnePendingPerEmail, SamePending

LEMMA DeletingLapsed ==
    ASSUME TransactionsInv, NEW r \in Requests, DeleteLapsed(r)
    PROVE  InvitationsInv' /\ LogInv'
<1>. DEFINE c == call[r]
            lapsedRows == LapsedPending(c.i)
<1>1. /\ pc[r] = "deleteLapsed" /\ Blockers(r) = {} /\ c.op = "CreateInvitation"
      /\ c.i \in Invitations /\ c.p \in Projects /\ c.p = InvitationProject[c.i]
      /\ InvitationEmail[c.i] \in Emails
      /\ Advance(r, "insertInvitation") /\ UNCHANGED <<tables, call, memberLock>>
      /\ RowLocks(r) /\ Running(r)
  BY IdsAssumption
  DEF DeleteLapsed, At, TransactionsInv, ProjectsInv, ControlInv, InvitationsInv, Running
<1>2. pc'[r] = "insertInvitation" /\ call'[r] = c
  BY <1>1 DEF Advance, TransactionsInv, ProjectsInv, TypeOK, RequestsOK
<1>3. /\ \A i \in lapsedRows : invitationLock[i] \in {r, None} /\ SamePending(c.i, i)
      /\ \A i \in Invitations :
            invitationLock'[i] = IF i \in lapsedRows THEN r ELSE invitationLock[i]
      /\ lapsedRows \in SUBSET Invitations
  BY <1>1, NotWaiting DEF DeleteLapsed, LapsedPending
<1>4. \A i \in Invitations : SamePending(c.i, i) /\ lapsedRows # {} => i \in lapsedRows
  BY <1>3, SamePendingIsOne
<1>5. \A p \in Projects, e \in Emails :
         \/ pendingLock'[p][e] = pendingLock[p][e]
         \/ /\ lapsedRows # {} /\ p = c.p /\ e = InvitationEmail[c.i]
            /\ pendingLock[p][e] \in {r, None} /\ pendingLock'[p][e] = r
  <2>1. CASE lapsedRows = {}
    BY <2>1 DEF DeleteLapsed
  <2>2. CASE lapsedRows # {}
    <3>1. Pend(r)
      BY <2>2 DEF DeleteLapsed
    <3>2. PICK j \in lapsedRows : TRUE
      BY <2>2
    <3>3. pendingLock[c.p][InvitationEmail[c.i]] \in {r, None}
      BY <1>1, <1>3, <3>2, PendingFree DEF SamePending
    <3>. QED
      BY <1>1, <2>2, <3>1, <3>3, PendedEntry
  <2>. QED
    BY <2>1, <2>2
<1>. USE <1>1, <1>2 DEF RowLocks, tables
<1>6. OwnLocks(r)
  BY <1>3, <1>5 DEF OwnLocks
<1>7. LockedInvitations(r)'
  BY <1>3 DEF LockedInvitations, HasRow, SamePending
<1>8. PendingEntries(r)'
  BY <1>3, <1>4, <1>5 DEF PendingEntries, SamePending
<1>9. NewInvitation(r)' /\ LockedMembers(r)'
  BY DEF NewInvitation, LockedMembers, Running
<1>10. AcceptorLocks(r)' /\ RevokerLocks(r)' /\ CreatorHolds(r)' /\ DeleterLocks(r)'
  BY DEF AcceptorLocks, RevokerLocks, CreatorHolds, DeleterLocks
<1>. QED
  BY <1>6, <1>7, <1>8, <1>9, <1>10, GoingOn

LEMMA InsertingInvitation ==
    ASSUME TransactionsInv, NEW r \in Requests, pc[r] = "insertInvitation", Blockers(r) = {},
           \A j \in Invitations : SamePending(call[r].i, j) => invitationLock[j] = r,
           Pend(r), Advance(r, "audit"),
           UNCHANGED <<tables, call, memberLock, invitationLock>>
    PROVE  InvitationsInv' /\ LogInv'
<1>. DEFINE c == call[r]
<1>1. /\ c.op = "CreateInvitation"
      /\ c.i \in Invitations /\ c.p \in Projects /\ c.p = InvitationProject[c.i]
      /\ InvitationEmail[c.i] \in Emails
      /\ RowLocks(r) /\ Running(r)
  BY IdsAssumption
  DEF TransactionsInv, ProjectsInv, ControlInv, InvitationsInv, Running
<1>2. pc'[r] = "audit" /\ call'[r] = c
  BY <1>1 DEF Advance, TransactionsInv, ProjectsInv, TypeOK, RequestsOK
<1>3. /\ pendingLock[c.p][InvitationEmail[c.i]] \in {r, None}
      /\ \A p \in Projects, e \in Emails :
            pendingLock'[p][e] =
                IF p = c.p /\ e = InvitationEmail[c.i] THEN r ELSE pendingLock[p][e]
  BY <1>1, NotWaiting, PendedEntry
<1>. USE <1>1, <1>2 DEF RowLocks, tables
<1>4. OwnLocks(r)
  BY <1>3 DEF OwnLocks
<1>5. LockedInvitations(r)'
  BY DEF LockedInvitations, HasRow, SamePending
<1>6. PendingEntries(r)' /\ CreatorHolds(r)'
  BY <1>3 DEF PendingEntries, CreatorHolds, SamePending
<1>7. NewInvitation(r)' /\ LockedMembers(r)'
  BY DEF NewInvitation, LockedMembers, Running
<1>8. AcceptorLocks(r)' /\ RevokerLocks(r)' /\ DeleterLocks(r)'
  BY DEF AcceptorLocks, RevokerLocks, DeleterLocks
<1>. QED
  BY <1>4, <1>5, <1>6, <1>7, <1>8, GoingOn

LEMMA DeletingInvitationRow ==
    ASSUME TransactionsInv, NEW r \in Requests, DeleteInvitationRow(r)
    PROVE  InvitationsInv' /\ LogInv'
<1>. DEFINE c == call[r]
            row == Selected(c.u, c.p, c.i)
<1>1. /\ pc[r] = "deleteInvitation" /\ Blockers(r) = {} /\ c.op = "DeleteInvitation"
      /\ c.i \in Invitations /\ c.p \in Projects /\ InvitationEmail[c.i] \in Emails
      /\ Advance(r, "audit") /\ UNCHANGED <<tables, call, memberLock>>
      /\ RowLocks(r) /\ Running(r)
  BY IdsAssumption
  DEF DeleteInvitationRow, At, TransactionsInv, ProjectsInv, ControlInv, InvitationsInv, Running
<1>2. pc'[r] = "audit" /\ call'[r] = c
  BY <1>1 DEF Advance, TransactionsInv, ProjectsInv, TypeOK, RequestsOK
<1>3. /\ owner[c.p] = c.u /\ InvitationProject[c.i] = c.p /\ status[c.i] # "unused"
  BY <1>1 DEF RowLocks, RevokerLocks
<1>4. /\ \A i \in row : invitationLock[i] \in {r, None} /\ HasRow(i) /\ i = c.i
      /\ \A i \in Invitations : invitationLock'[i] = IF i \in row THEN r ELSE invitationLock[i]
  BY <1>1, NotWaiting DEF DeleteInvitationRow, Selected
<1>5. c.i \in row \/ status[c.i] = "deleted"
  <2>1. c.p \notin live => ~HasRow(c.i)
    BY <1>1, <1>3 DEF TransactionsInv, ProjectsInv, NoOrphans, ProjectInvitations
  <2>2. HasRow(c.i) => c.i \in row
    BY <1>3, <2>1 DEF Selected, IsProjectOwner
  <2>3. status[c.i] \in {"unused", "pending", "accepted", "deleted"}
    BY <1>1 DEF TransactionsInv, ProjectsInv, TypeOK, TablesOK, Statuses
  <2>. QED
    BY <1>3, <2>2, <2>3 DEF HasRow
<1>6. \A p \in Projects, e \in Emails :
         \/ pendingLock'[p][e] = pendingLock[p][e]
         \/ /\ c.i \in row /\ status[c.i] = "pending" /\ p = c.p /\ e = InvitationEmail[c.i]
            /\ pendingLock[p][e] \in {r, None} /\ pendingLock'[p][e] = r
  <2>1. CASE ~\E i \in row : status[i] = "pending"
    BY <2>1 DEF DeleteInvitationRow
  <2>2. CASE \E i \in row : status[i] = "pending"
    <3>1. Pend(r)
      BY <2>2 DEF DeleteInvitationRow
    <3>2. c.i \in row /\ status[c.i] = "pending"
      BY <1>4, <2>2
    <3>3. pendingLock[c.p][InvitationEmail[c.i]] \in {r, None}
      BY <1>1, <1>3, <1>4, <3>2, PendingFree
    <3>. QED
      BY <1>1, <3>1, <3>2, <3>3, PendedEntry
  <2>. QED
    BY <2>1, <2>2
<1>. USE <1>1, <1>2 DEF RowLocks, tables
<1>7. OwnLocks(r)
  BY <1>4, <1>6 DEF OwnLocks
<1>8. LockedInvitations(r)'
  BY <1>3, <1>4 DEF LockedInvitations, HasRow, SamePending
<1>9. PendingEntries(r)'
  <2>1. c.i \in row /\ status[c.i] = "pending" =>
          \A i \in Invitations : SamePending(c.i, i) => i = c.i
    BY <1>3, SamePendingIsOne DEF SamePending
  <2>. QED
    BY <1>3, <1>4, <1>6, <2>1 DEF PendingEntries, SamePending
<1>10. RevokerLocks(r)'
  BY <1>3, <1>4, <1>5 DEF RevokerLocks
<1>11. NewInvitation(r)' /\ LockedMembers(r)'
  BY DEF NewInvitation, LockedMembers
<1>12. AcceptorLocks(r)' /\ CreatorHolds(r)' /\ DeleterLocks(r)'
  BY DEF AcceptorLocks, CreatorHolds, DeleterLocks
<1>. QED
  BY <1>7, <1>8, <1>9, <1>10, <1>11, <1>12, GoingOn

LEMMA LockingAccepted ==
    ASSUME TransactionsInv, NEW r \in Requests, pc[r] = "lockInvitation", Blockers(r) = {},
           AcceptError(r) = "ok",
           invitationLock' = [invitationLock EXCEPT ![call[r].i] = r],
           Advance(r, "insertMember"),
           UNCHANGED <<tables, call, memberLock, pendingLock>>
    PROVE  InvitationsInv' /\ LogInv'
<1>. DEFINE c == call[r]
<1>1. /\ c.op = "AcceptInvitation" /\ c.i \in Invitations /\ c.p = InvitationProject[c.i]
      /\ RowLocks(r) /\ Running(r)
  BY DEF TransactionsInv, ProjectsInv, ControlInv, InvitationsInv, Running
<1>2. pc'[r] = "insertMember" /\ call'[r] = c
  BY <1>1 DEF Advance, TransactionsInv, ProjectsInv, TypeOK, RequestsOK
<1>3. HasRow(c.i) /\ status[c.i] = "pending" /\ VerifiedEmail[c.u] = InvitationEmail[c.i]
  BY DEF AcceptError
<1>4. /\ invitationLock[c.i] \in {r, None}
      /\ \A i \in Invitations : invitationLock'[i] = IF i = c.i THEN r ELSE invitationLock[i]
  BY <1>1, <1>3, NotWaiting DEF TransactionsInv, ProjectsInv, TypeOK, LocksOK
<1>. USE <1>1, <1>2 DEF RowLocks, tables
<1>5. OwnLocks(r)
  BY <1>4 DEF OwnLocks
<1>6. LockedInvitations(r)' /\ AcceptorLocks(r)'
  BY <1>3, <1>4 DEF LockedInvitations, AcceptorLocks, HasRow, SamePending
<1>7. PendingEntries(r)'
  BY <1>4 DEF PendingEntries
<1>8. NewInvitation(r)' /\ LockedMembers(r)'
  BY DEF NewInvitation, LockedMembers
<1>9. RevokerLocks(r)' /\ CreatorHolds(r)' /\ DeleterLocks(r)'
  BY DEF RevokerLocks, CreatorHolds, DeleterLocks
<1>. QED
  BY <1>5, <1>6, <1>7, <1>8, <1>9, GoingOn

LEMMA MarkingAccepted ==
    ASSUME TransactionsInv, NEW r \in Requests, pc[r] = "acceptInvitation", Pend(r),
           Advance(r, "commit"), UNCHANGED <<tables, call, memberLock, invitationLock>>
    PROVE  InvitationsInv' /\ LogInv'
<1>. DEFINE c == call[r]
<1>1. /\ c.op = "AcceptInvitation" /\ c.i \in Invitations /\ c.p \in Projects
      /\ c.p = InvitationProject[c.i] /\ InvitationEmail[c.i] \in Emails
      /\ RowLocks(r) /\ Running(r)
  BY IdsAssumption DEF TransactionsInv, ProjectsInv, ControlInv, InvitationsInv, Running
<1>2. pc'[r] = "commit" /\ call'[r] = c
  BY <1>1 DEF Advance, TransactionsInv, ProjectsInv, TypeOK, RequestsOK
<1>3. invitationLock[c.i] = r /\ status[c.i] = "pending"
  BY <1>1, IdsAssumption DEF RowLocks, AcceptorLocks, LockedInvitations
<1>4. /\ pendingLock[c.p][InvitationEmail[c.i]] \in {r, None}
      /\ \A p \in Projects, e \in Emails :
            pendingLock'[p][e] =
                IF p = c.p /\ e = InvitationEmail[c.i] THEN r ELSE pendingLock[p][e]
  BY <1>1, <1>3, PendingFree, PendedEntry
<1>. USE <1>1, <1>2 DEF RowLocks, tables
<1>5. OwnLocks(r)
  BY <1>4 DEF OwnLocks
<1>6. LockedInvitations(r)' /\ AcceptorLocks(r)'
  BY DEF LockedInvitations, AcceptorLocks, HasRow, SamePending
<1>7. PendingEntries(r)'
  <2>1. \A i \in Invitations : SamePending(c.i, i) => i = c.i
    BY <1>3, SamePendingIsOne DEF SamePending
  <2>. QED
    BY <1>3, <1>4, <2>1 DEF PendingEntries, SamePending
<1>8. NewInvitation(r)' /\ LockedMembers(r)'
  BY DEF NewInvitation, LockedMembers
<1>9. RevokerLocks(r)' /\ CreatorHolds(r)' /\ DeleterLocks(r)'
  BY DEF RevokerLocks, CreatorHolds, DeleterLocks
<1>. QED
  BY <1>5, <1>6, <1>7, <1>8, <1>9, GoingOn

LEMMA LockingCascade ==
    ASSUME TransactionsInv, NEW r \in Requests, CascadeInvitations(r)
    PROVE  InvitationsInv' /\ LogInv'
<1>. DEFINE c == call[r]
<1>1. /\ pc[r] = "cascadeInvitations" /\ Blockers(r) = {} /\ c.op = "DeleteProject"
      /\ Advance(r, "commit") /\ UNCHANGED <<tables, call, memberLock, pendingLock>>
      /\ RowLocks(r) /\ Running(r)
  BY DEF CascadeInvitations, At, TransactionsInv, ProjectsInv, ControlInv, InvitationsInv, Running
<1>2. pc'[r] = "commit" /\ call'[r] = c
  BY <1>1 DEF Advance, TransactionsInv, ProjectsInv, TypeOK, RequestsOK
<1>3. /\ \A i \in ProjectInvitations(c.p) :
            invitationLock[i] \in {r, None} /\ HasRow(i) /\ InvitationProject[i] = c.p
      /\ \A i \in Invitations :
            invitationLock'[i] = IF i \in ProjectInvitations(c.p) THEN r ELSE invitationLock[i]
  BY <1>1, NotWaiting DEF CascadeInvitations, ProjectInvitations
<1>. USE <1>1, <1>2 DEF RowLocks, tables
<1>4. OwnLocks(r)
  BY <1>3 DEF OwnLocks
<1>5. LockedInvitations(r)'
  BY <1>3 DEF LockedInvitations, HasRow, SamePending
<1>6. DeleterLocks(r)'
  BY <1>3 DEF DeleterLocks, ProjectInvitations, HasRow
<1>7. PendingEntries(r)'
  BY <1>3 DEF PendingEntries
<1>8. NewInvitation(r)' /\ LockedMembers(r)'
  BY DEF NewInvitation, LockedMembers
<1>9. AcceptorLocks(r)' /\ RevokerLocks(r)' /\ CreatorHolds(r)'
  BY DEF AcceptorLocks, RevokerLocks, CreatorHolds
<1>. QED
  BY <1>4, <1>5, <1>6, <1>7, <1>8, <1>9, GoingOn

(* Every statement but COMMIT. *)
LEMMA StatementKeepsInvitations ==
    ASSUME TransactionsInv, NEW r \in Requests, Step(r), ~Commit(r)
    PROVE  InvitationsInv' /\ LogInv'
<1>. DEFINE c == call[r]
<1>1. {"ok", "notFound", "forbidden", "conflict", "precondition", "validation", "internal"}
         \subseteq Codes
  BY DEF Codes
<1>2. /\ pc[r] # "idle" => c.p \in Projects /\ c.u \in Users
      /\ memberLock \in [Projects -> [Users -> Requests \cup {None}]]
      /\ ControlInv
  BY DEF TransactionsInv, ProjectsInv, ControlInv, TypeOK, LocksOK, Holder
<1>3. CASE DeleteMemberRow(r)
  <2>1. /\ pc[r] = "deleteMember" /\ Blockers(r) = {} /\ UNCHANGED <<tables, call>>
        /\ c.op \in {"RemoveMember", "LeaveProject"} /\ c.m \in Users
    BY <1>2, <1>3 DEF DeleteMemberRow, At, ControlInv
  <2>2. CASE MemberDeletable(c.u, c.p, c.m)
    <3>1. /\ memberLock' = [memberLock EXCEPT ![c.p][c.m] = r]
          /\ Advance(r, IF c.op = "RemoveMember" THEN "audit" ELSE "commit")
          /\ UNCHANGED <<projectLock, keyShare, invitationLock, pendingLock>>
      BY <1>3, <2>2 DEF DeleteMemberRow
    <3>2. memberLock[c.p][c.m] \in {r, None} /\ c.m \in members[c.p]
      BY <2>1, <2>2, NotWaiting DEF MemberDeletable
    <3>. QED
      BY <1>2, <2>1, <3>1, <3>2, LockingMemberRows
  <2>3. CASE ~MemberDeletable(c.u, c.p, c.m)
    <3>1. Goto(r, "commit") \/ Answer(r, "notFound")
      BY <1>3, <2>3 DEF DeleteMemberRow
    <3>. QED
      BY <1>1, <2>1, <3>1, Quiet, RollingBack DEF Goto, Advance, locks, Running
  <2>. QED
    BY <2>2, <2>3
<1>4. CASE Audit(r)
  <2>1. Goto(r, "shareProject") \/ Answer(r, "forbidden")
    BY <1>4 DEF Audit
  <2>. QED
    BY <1>1, <1>4, <2>1, Quiet, RollingBack DEF Audit, At, Goto, Advance, locks, Running
<1>5. CASE ShareProject(r)
  <2>1. CASE /\ Advance(r, IF c.op = "LeaveProject" THEN "deleteMember" ELSE "commit")
             /\ UNCHANGED <<projectLock, memberLock, invitationLock, pendingLock>>
    BY <1>5, <2>1, Quiet DEF ShareProject, At
  <2>2. CASE Answer(r, "validation")
    BY <1>1, <1>5, <2>2, RollingBack DEF ShareProject, At, Running
  <2>. QED
    BY <1>5, <2>1, <2>2 DEF ShareProject
<1>6. CASE LockProject(r)
  <2>1. CASE /\ Advance(r, "cascadeMembers")
             /\ UNCHANGED <<keyShare, memberLock, invitationLock, pendingLock>>
    BY <1>6, <2>1, Quiet DEF LockProject, At
  <2>2. CASE Goto(r, "mutationState")
    BY <1>6, <2>2, Quiet DEF LockProject, At, Goto, Advance, locks
  <2>. QED
    BY <1>6, <2>1, <2>2 DEF LockProject
<1>7. CASE ProjectMutationState(r)
  <2>1. \E e \in Codes : Answer(r, e)
    BY <1>1, <1>7 DEF ProjectMutationState, EnsureOwner
  <2>. QED
    BY <1>7, <2>1, RollingBack DEF ProjectMutationState, At, Running
<1>8. CASE CascadeMembers(r)
  <2>1. /\ pc[r] = "cascadeMembers" /\ Blockers(r) = {} /\ c.op = "DeleteProject"
        /\ memberLock' = [memberLock EXCEPT ![c.p] =
              [u \in Users |-> IF u \in members[c.p] THEN r ELSE memberLock[c.p][u]]]
        /\ Advance(r, "cascadeInvitations")
        /\ UNCHANGED <<tables, call, invitationLock, pendingLock>>
    BY <1>2, <1>8 DEF CascadeMembers, At, ControlInv
  <2>2. \A u \in members[c.p] : memberLock[c.p][u] \in {r, None} /\ u \in Users
    BY <1>2, <2>1, NotWaiting DEF TransactionsInv, ProjectsInv, TypeOK, TablesOK
  <2>. QED
    BY <1>2, <2>1, <2>2, LockingMemberRows
<1>9. CASE CascadeInvitations(r)
  BY <1>9, LockingCascade
<1>10. CASE DeleteLapsed(r)
  BY <1>10, DeletingLapsed
<1>11. CASE InsertInvitation(r)
  <2>1. CASE \E e \in Codes : Answer(r, e)
    BY <1>11, <2>1, RollingBack DEF InsertInvitation, At, Running
  <2>2. CASE /\ {j \in Invitations : SamePending(c.i, j) /\ invitationLock[j] # r} = {}
             /\ Pend(r) /\ Advance(r, "audit")
             /\ UNCHANGED <<projectLock, memberLock, invitationLock>>
    BY <1>11, <2>2, InsertingInvitation DEF InsertInvitation, At
  <2>. QED
    BY <1>1, <1>11, <2>1, <2>2 DEF InsertInvitation
<1>12. CASE ReadStatus(r)
  <2>1. CASE \E e \in Codes : Answer(r, e)
    BY <1>12, <2>1, RollingBack DEF ReadStatus, At, Running
  <2>2. CASE /\ Selected(c.u, c.p, c.i) # {} /\ status[c.i] = "pending"
             /\ Goto(r, "deleteInvitation")
    BY <1>12, <2>2, Quiet DEF ReadStatus, At, Goto, Advance, locks, Selected
  <2>. QED
    BY <1>1, <1>12, <2>1, <2>2 DEF ReadStatus
<1>13. CASE DeleteInvitationRow(r)
  BY <1>13, DeletingInvitationRow
<1>14. CASE LockInvitation(r)
  <2>1. CASE \E e \in Codes : Answer(r, e)
    BY <1>14, <2>1, RollingBack DEF LockInvitation, At, Running
  <2>2. CASE /\ AcceptError(r) = "ok"
             /\ invitationLock' = [invitationLock EXCEPT ![c.i] = r]
             /\ Advance(r, "insertMember")
             /\ UNCHANGED <<projectLock, keyShare, memberLock, pendingLock>>
    BY <1>14, <2>2, LockingAccepted DEF LockInvitation, At
  <2>3. AcceptError(r) \in Codes
    BY <1>1 DEF AcceptError
  <2>. QED
    BY <1>14, <2>1, <2>2, <2>3 DEF LockInvitation
<1>15. CASE InsertMember(r)
  <2>1. /\ pc[r] = "insertMember" /\ Blockers(r) = {} /\ UNCHANGED <<tables, call>>
        /\ c.op = "AcceptInvitation"
    BY <1>2, <1>15 DEF InsertMember, At, ControlInv
  <2>2. CASE Goto(r, "acceptInvitation")
    BY <2>1, <2>2, Quiet DEF Goto, Advance, locks
  <2>3. CASE /\ c.u \notin members[c.p]
             /\ memberLock' = [memberLock EXCEPT ![c.p][c.u] = r]
             /\ Advance(r, "acceptInvitation")
             /\ UNCHANGED <<projectLock, invitationLock, pendingLock>>
    <3>1. memberLock[c.p][c.u] \in {r, None}
      BY <2>1, NotWaiting
    <3>. QED
      BY <1>2, <2>1, <2>3, <3>1, LockingMemberRows
  <2>4. CASE Answer(r, "validation")
    BY <1>1, <2>1, <2>4, RollingBack DEF Running
  <2>. QED
    BY <1>15, <2>2, <2>3, <2>4 DEF InsertMember
<1>16. CASE MarkAccepted(r)
  <2>1. CASE /\ Pend(r) /\ Advance(r, "commit")
             /\ UNCHANGED <<projectLock, memberLock, invitationLock>>
    BY <1>16, <2>1, MarkingAccepted DEF MarkAccepted, At
  <2>2. CASE Answer(r, "validation")
    BY <1>1, <1>16, <2>2, RollingBack DEF MarkAccepted, At, Running
  <2>. QED
    BY <1>16, <2>1, <2>2 DEF MarkAccepted
<1>. QED
  BY <1>3, <1>4, <1>5, <1>6, <1>7, <1>8, <1>9, <1>10, <1>11, <1>12, <1>13, <1>14, <1>15,
     <1>16 DEF Step

-----------------------------------------------------------------------------
(* COMMIT: a transaction writes the rows it has locked, or new ones *)

OwnWrites(r) ==
    /\ \A i \in Invitations :
          \/ status'[i] = status[i]
          \/ invitationLock[i] = r /\ status'[i] \in {"accepted", "deleted"}
          \/ /\ call[r].op = "CreateInvitation" /\ i = call[r].i
             /\ status'[i] = "pending"
    /\ \A p \in Projects, u \in Users :
          \/ u \in members'[p] <=> u \in members[p]
          \/ memberLock[p][u] = r
          \/ call[r].op = "CreateProject" /\ p = call[r].p
    /\ \A p \in Projects : owner'[p] = owner[p] \/ owner[p] = None

(* Nobody who has locked a row of a project is creating it. *)
LEMMA LockedProjectExists ==
    ASSUME TransactionsInv, NEW d \in Requests, NEW p \in Projects,
           \/ \E u \in Users : memberLock[p][u] = d
           \/ /\ call[d].op = "DeleteProject" /\ p = call[d].p
              /\ pc[d] \in {"cascadeInvitations", "commit"}
    PROVE  owner[p] # None
<1>. USE DEF TransactionsInv, ProjectsInv
<1>1. p \in live => owner[p] # None
  BY DEF OwnerInv
<1>2. CASE call[d].op = "DeleteProject" /\ p = call[d].p
             /\ pc[d] \in {"cascadeInvitations", "commit"}
  BY <1>1, <1>2 DEF ProjectLockInv, DeletedIsLocked, LockedIsDeleted
<1>3. ASSUME NEW u \in Users, memberLock[p][u] = d PROVE owner[p] # None
  <2>1. CASE call[d].op \in {"RemoveMember", "LeaveProject"}
    BY <1>3, <2>1 DEF MemberLockInv, OwnerInv, Running
  <2>2. CASE call[d].op = "AcceptInvitation"
    <3>1. /\ pc[d] \in {"acceptInvitation", "commit"} /\ call[d].p = p
          /\ call[d].i \in Invitations
      BY <1>3, <2>2 DEF MemberLockInv, ControlInv
    <3>2. HasRow(call[d].i) /\ InvitationProject[call[d].i] = p
      BY <2>2, <3>1 DEF InvitationsInv, RowLocks, AcceptorLocks, LockedInvitations
    <3>3. p \in live
      BY <3>1, <3>2 DEF NoOrphans, ProjectInvitations
    <3>. QED
      BY <1>1, <3>3
  <2>. QED
    BY <1>2, <1>3, <2>1, <2>2 DEF MemberLockInv
<1>. QED
  BY <1>2, <1>3

(* What the others know of their rows stays true. *)
LEMMA BystanderOfCommit ==
    ASSUME TransactionsInv, NEW r \in Requests, pc[r] = "commit",
           NEW answer \in Codes, Answer(r, answer),
           UNCHANGED call, OwnWrites(r), ProjectsInv', NEW d \in Requests, d # r
    PROVE  RowLocks(d)'
<1>. DEFINE c == call[r]  b == call[d]
<1>. USE DEF TransactionsInv
<1>1. /\ pc'[d] = pc[d] /\ d # None /\ RowLocks(d) /\ RowLocks(r) /\ ControlInv
      /\ TypeOK
  BY IdsAssumption DEF Answer, ProjectsInv, InvitationsInv, TypeOK, RequestsOK
<1>2. /\ \A i \in Invitations : invitationLock'[i] = d <=> invitationLock[i] = d
      /\ \A p \in Projects, u \in Users : memberLock'[p][u] = d <=> memberLock[p][u] = d
      /\ \A p \in Projects, e \in Emails : pendingLock'[p][e] = d <=> pendingLock[p][e] = d
  BY <1>1 DEF Answer, Release
<1>3. b.op # "none" => b.p \in Projects /\ b.u \in Users
  BY <1>1 DEF ControlInv
<1>4. /\ b.op \in {"CreateInvitation", "DeleteInvitation", "AcceptInvitation"} =>
            b.i \in Invitations
      /\ c.op = "CreateInvitation" =>
            /\ c.i \in Invitations /\ c.p = InvitationProject[c.i] /\ c.p \in Projects
            /\ InvitationEmail[c.i] \in Emails
            /\ status[c.i] = "unused" /\ \A e \in Requests : call[e].i = c.i => e = r
            /\ pendingLock[c.p][InvitationEmail[c.i]] = r
  BY <1>1, IdsAssumption DEF ControlInv, RowLocks, NewInvitation, CreatorHolds, Running
<1>5. \A i \in Invitations :
         /\ invitationLock[i] = r => HasRow(i)
         /\ invitationLock[i] = d => HasRow(i) /\ status'[i] = status[i]
         /\ status[i] # "unused" => status'[i] # "unused"
         /\ status[i] = "deleted" => status'[i] = "deleted"
  <2>1. \A i \in Invitations : invitationLock[i] \in {r, d} => HasRow(i)
    BY <1>1 DEF RowLocks, LockedInvitations
  <2>. QED
    BY <1>4, <2>1 DEF OwnWrites, HasRow
<1>6. LockedInvitations(d)'
  <2>1. ASSUME NEW i \in Invitations, invitationLock'[i] = d
        PROVE  /\ invitationLock[i] = d /\ status'[i] = status[i]
               /\ HasRow(i)' = HasRow(i) /\ SamePending(b.i, i)' = SamePending(b.i, i)
    BY <1>2, <1>5, <2>1 DEF HasRow, SamePending
  <2>. QED
    BY <1>1, <2>1 DEF RowLocks, LockedInvitations
<1>7. NewInvitation(d)'
  <2>1. ASSUME b.op = "CreateInvitation", Running(d)
        PROVE  /\ status'[b.i] = "unused"
               /\ \A e \in Requests : call[e].i = b.i => e = d
    <3>1. status[b.i] = "unused" /\ \A e \in Requests : call[e].i = b.i => e = d
      BY <1>1, <2>1 DEF RowLocks, NewInvitation
    <3>2. invitationLock[b.i] # r
      BY <1>4, <1>5, <2>1, <3>1 DEF HasRow
    <3>. QED
      BY <1>4, <2>1, <3>1, <3>2 DEF OwnWrites
  <2>. QED
    BY <1>1, <2>1 DEF NewInvitation, Running
<1>8. AcceptorLocks(d)' /\ CreatorHolds(d)'
  BY <1>1, <1>2, <1>3, <1>4, IdsAssumption DEF RowLocks, AcceptorLocks, CreatorHolds
<1>9. RevokerLocks(d)'
  <2>1. ASSUME b.op = "DeleteInvitation", Running(d) PROVE owner'[b.p] = b.u
    <3>1. owner[b.p] = b.u /\ b.u # None /\ b.p \in Projects
      BY <1>1, <1>3, <2>1, IdsAssumption DEF RowLocks, RevokerLocks
    <3>. QED
      BY <3>1 DEF OwnWrites
  <2>. QED
    BY <1>1, <1>2, <1>4, <1>5, <2>1 DEF RowLocks, RevokerLocks, Running
<1>10. PendingEntries(d)'
  <2>1. ASSUME NEW p \in Projects, NEW e \in Emails, pendingLock'[p][e] = d,
               NEW i \in Invitations, status'[i] = "pending",
               InvitationProject[i] = p, InvitationEmail[i] = e
        PROVE  invitationLock'[i] = d
    <3>1. pendingLock[p][e] = d
      BY <1>2, <2>1
    <3>2. status[i] = "pending"
      BY <1>4, <2>1, <3>1 DEF OwnWrites
    <3>. QED
      BY <1>1, <1>2, <2>1, <3>1, <3>2 DEF RowLocks, PendingEntries
  <2>. QED
    BY <2>1 DEF PendingEntries
<1>11. DeleterLocks(d)'
  <2>1. ASSUME b.op = "DeleteProject", pc[d] \in {"cascadeInvitations", "commit"}
        PROVE  /\ members'[b.p] \subseteq members[b.p]
               /\ \A i \in ProjectInvitations(b.p)' : i \in ProjectInvitations(b.p)
    <3>1. b.p \in Projects /\ projectLock[b.p] = d /\ keyShare[b.p] = {}
      BY <1>1, <1>3, <2>1 DEF ProjectsInv, ProjectLockInv, DeletedIsLocked, SharedExists
    <3>2. c.op \in {"CreateInvitation", "AcceptInvitation"} => c.p # b.p
      BY <3>1 DEF ProjectsInv, ProjectLockInv, WritersShare, Shares
    <3>3. owner[b.p] # None
      BY <2>1, <3>1, LockedProjectExists
    <3>4. c.op = "CreateProject" => c.p # b.p
      BY <3>3 DEF ProjectsInv, OwnerInv
    <3>5. members'[b.p] \subseteq members[b.p]
      <4>1. members' \in [Projects -> SUBSET Users]
        BY DEF ProjectsInv, TypeOK, TablesOK
      <4>2. ASSUME NEW u \in Users, memberLock[b.p][u] = r, u \notin members[b.p] PROVE FALSE
        BY <1>1, <3>1, <3>2, <4>2 DEF RowLocks, LockedMembers, ProjectsInv, MemberLockInv
      <4>. QED
        BY <3>1, <3>4, <4>1, <4>2 DEF OwnWrites
    <3>6. ASSUME NEW i \in ProjectInvitations(b.p)' PROVE i \in ProjectInvitations(b.p)
      <4>1. i \in Invitations /\ InvitationProject[i] = b.p /\ HasRow(i)'
        BY <3>6 DEF ProjectInvitations
      <4>2. HasRow(i)
        BY <1>4, <1>5, <3>2, <4>1 DEF OwnWrites, HasRow
      <4>. QED
        BY <4>1, <4>2 DEF ProjectInvitations
    <3>. QED
      BY <3>5, <3>6
  <2>2. \A i \in ProjectInvitations(b.p) : i \in Invitations
    BY DEF ProjectInvitations
  <2>. QED
    BY <1>1, <1>2, <1>3, <2>1, <2>2 DEF RowLocks, DeleterLocks, TypeOK, TablesOK
<1>12. LockedMembers(d)'
  <2>1. ASSUME NEW p \in Projects, NEW u \in Users, memberLock'[p][u] = d
        PROVE  u \in members'[p] <=> b.op # "AcceptInvitation"
    <3>1. memberLock[p][u] = d
      BY <1>2, <2>1
    <3>2. owner[p] # None
      BY <3>1, LockedProjectExists
    <3>3. ~(c.op = "CreateProject" /\ p = c.p)
      BY <3>2 DEF ProjectsInv, OwnerInv
    <3>. QED
      BY <1>1, <3>1, <3>3 DEF OwnWrites, RowLocks, LockedMembers
  <2>. QED
    BY <2>1 DEF LockedMembers
<1>. QED
  BY <1>6, <1>7, <1>8, <1>9, <1>10, <1>11, <1>12 DEF RowLocks

(* The audit row that r writes, if it writes one. *)
Event(r, action, subject, joined) ==
    [req |-> r, action |-> action, actor |-> call[r].u,
     subject |-> subject, joined |-> joined]

(* What every COMMIT leaves to show: that the index is unique, and that the  *)
(* new audit row e, if any, agrees with the invitation it is about.          *)
LEMMA CommittingRows ==
    ASSUME TransactionsInv, NEW r \in Requests, pc[r] = "commit",
           NEW answer \in Codes, Answer(r, answer),
           UNCHANGED call, OwnWrites(r), ProjectsInv',
           OnePendingPerEmail',
           NEW e, e.req = r,
           \A p \in Projects : log'[p] \subseteq log[p] \cup {e},
           e.action = "invitation.accepted" =>
               /\ e.subject \in Invitations
               /\ status[e.subject] = "pending" /\ status'[e.subject] = "accepted",
           e.action = "invitation.revoked" =>
               e.subject \in Invitations /\ status'[e.subject] = "deleted"
    PROVE  InvitationsInv' /\ LogAgrees' /\ AcceptedOnce'
<1>. USE DEF TransactionsInv
<1>1. pc'[r] = "done" /\ \A d \in Requests : d # r => pc'[d] = pc[d]
  BY DEF Answer, ProjectsInv, TypeOK, RequestsOK
<1>2. InvitationsInv'
  <2>1. RowLocks(r)'
    BY <1>1, Ended DEF Answer
  <2>. QED
    BY <2>1, BystanderOfCommit DEF InvitationsInv
<1>3. \A i \in Invitations :
         /\ status[i] \in {"accepted", "deleted"} => status'[i] \in {"accepted", "deleted"}
         /\ status[i] = "deleted" => status'[i] = "deleted"
  <2>1. \A i \in Invitations : invitationLock[i] = r => HasRow(i)
    BY DEF InvitationsInv, RowLocks, LockedInvitations
  <2>2. call[r].op = "CreateInvitation" => status[call[r].i] = "unused"
    BY DEF InvitationsInv, RowLocks, NewInvitation, Running
  <2>. QED
    BY <2>1, <2>2 DEF OwnWrites, HasRow
<1>4. LogAgrees'
  <2>1. ASSUME NEW p \in Projects, NEW f \in log'[p]
        PROVE  /\ f.req \in Requests => pc'[f.req] = "done"
               /\ f.action = "invitation.accepted" /\ f.subject # None =>
                     /\ f.subject \in Invitations
                     /\ status'[f.subject] \in {"accepted", "deleted"}
               /\ f.action = "invitation.revoked" =>
                     f.subject \in Invitations /\ status'[f.subject] = "deleted"
    <3>1. CASE f = e
      BY <1>1, <3>1
    <3>2. CASE f \in log[p]
      BY <1>1, <1>3, <3>2 DEF LogInv, LogAgrees
    <3>. QED
      BY <2>1, <3>1, <3>2
  <2>. QED
    BY <2>1 DEF LogAgrees
<1>5. AcceptedOnce'
  <2>1. ASSUME NEW p \in Projects, NEW f \in log[p], f.action = "invitation.accepted",
               e.action = "invitation.accepted", f.subject = e.subject, e.subject # None
        PROVE  FALSE
    BY <2>1 DEF LogInv, LogAgrees
  <2>. QED
    BY <2>1 DEF LogInv, AcceptedOnce
<1>. QED
  BY <1>2, <1>4, <1>5

(* How an audit row e of r adds to the joins and departures of its project. *)
Recorded(r, e) ==
    /\ e \notin log[call[r].p]
    /\ \A p \in Projects : log'[p] = IF p = call[r].p THEN log[p] \cup {e} ELSE log[p]
    /\ \A p \in Projects, u \in Users :
          Joins(p, u)' = IF /\ p = call[r].p /\ u = e.actor
                            /\ e.action = "invitation.accepted" /\ e.joined
                         THEN Joins(p, u) \cup {e} ELSE Joins(p, u)
    /\ \A p \in Projects, u \in Users :
          Departures(p, u)' = IF /\ p = call[r].p /\ u = e.subject
                                 /\ e.action \in {"member.removed", "member.left"}
                              THEN Departures(p, u) \cup {e} ELSE Departures(p, u)

LEMMA RecordedHistories ==
    ASSUME TransactionsInv, NEW r \in Requests, pc[r] = "commit", call[r].p \in Projects,
           NEW e, e.req = r, log' = [log EXCEPT ![call[r].p] = @ \cup {e}]
    PROVE  Recorded(r, e)
<1>1. \A p \in Projects : log'[p] = IF p = call[r].p THEN log[p] \cup {e} ELSE log[p]
  BY DEF TransactionsInv, ProjectsInv, TypeOK, TablesOK
<1>2. e \notin log[call[r].p]
  BY DEF TransactionsInv, LogInv, LogAgrees
<1>3. ASSUME NEW p \in Projects, NEW u \in Users
      PROVE  Joins(p, u)' = IF /\ p = call[r].p /\ u = e.actor
                               /\ e.action = "invitation.accepted" /\ e.joined
                            THEN Joins(p, u) \cup {e} ELSE Joins(p, u)
  BY <1>1 DEF Joins
<1>4. ASSUME NEW p \in Projects, NEW u \in Users
      PROVE  Departures(p, u)' = IF /\ p = call[r].p /\ u = e.subject
                                    /\ e.action \in {"member.removed", "member.left"}
                                 THEN Departures(p, u) \cup {e} ELSE Departures(p, u)
  BY <1>1 DEF Departures
<1>. QED
  BY <1>1, <1>2, <1>3, <1>4 DEF Recorded

(* A new row makes one more. *)
LEMMA OneMore ==
    ASSUME NEW S, IsFiniteSet(S), NEW e, e \notin S
    PROVE  /\ IsFiniteSet(S \cup {e})
           /\ Cardinality(S \cup {e}) = Cardinality(S) + 1
  BY FS_AddElement

(* The histories that are compared are finite. *)
LEMMA Counted ==
    ASSUME FiniteHistories, NEW p \in Projects, NEW u \in Users
    PROVE  Cardinality(Joins(p, u)) \in Nat /\ Cardinality(Departures(p, u)) \in Nat
  BY FS_CardinalityType DEF FiniteHistories

LEMMA CreationKeepsInvitations ==
    ASSUME TransactionsInv, NEW r \in Requests, pc[r] = "commit",
           NEW answer \in Codes, Answer(r, answer),
           UNCHANGED call, ProjectsInv', CommitCreateProject(r)
    PROVE  InvitationsInv' /\ LogInv'
<1>. DEFINE q == call[r].p
            e == Event(r, "project.created", None, FALSE)
<1>. USE DEF TransactionsInv
<1>1. /\ q \in Projects /\ q \notin live /\ owner[q] = None /\ call[r].op = "CreateProject"
      /\ call[r].u \in Users
      /\ live' = live \cup {q} /\ UNCHANGED status
      /\ Record(r, "project.created", None, FALSE)
  BY DEF CommitCreateProject, ProjectsInv, ControlInv, OwnerInv
<1>2. /\ owner'[q] = call[r].u /\ members'[q] = {call[r].u} /\ log[q] = {}
      /\ \A p \in Projects : p # q => owner'[p] = owner[p] /\ members'[p] = members[p]
  BY <1>1 DEF CommitCreateProject, OwnerMembership, ProjectsInv, NoOrphans, TypeOK, TablesOK
<1>3. OwnWrites(r)
  BY <1>1, <1>2 DEF OwnWrites
<1>4. OnePendingPerEmail'
  BY <1>1 DEF InvitationsInv, OnePendingPerEmail, SamePending
<1>5. /\ \A p \in Projects : log'[p] \subseteq log[p] \cup {e}
      /\ \A p \in Projects, u \in Users :
            Joins(p, u)' = Joins(p, u) /\ Departures(p, u)' = Departures(p, u)
  <2>1. e.req = r /\ e.action = "project.created"
    BY DEF Event
  <2>2. log' = [log EXCEPT ![q] = @ \cup {e}]
    BY <1>1 DEF Record, Event
  <2>. HIDE DEF e
  <2>3. Recorded(r, e)
    BY <1>1, <2>1, <2>2, RecordedHistories
  <2>. QED
    BY <2>1, <2>3 DEF Recorded
<1>6. InvitationsInv' /\ LogAgrees' /\ AcceptedOnce'
  <2>1. e.req = r /\ e.action = "project.created"
    BY DEF Event
  <2>. HIDE DEF e
  <2>. QED
    BY <1>3, <1>4, <1>5, <2>1, CommittingRows
<1>7. FiniteHistories'
  BY <1>5 DEF LogInv, FiniteHistories
<1>8. AuditAccountsForMembership'
  <2>1. ASSUME NEW p \in live', NEW u \in Users \ {owner'[p]}
        PROVE  Cardinality(Joins(p, u)') =
                  Cardinality(Departures(p, u)') + (IF u \in members'[p] THEN 1 ELSE 0)
    <3>1. p \in Projects
      BY <1>1, <2>1 DEF ProjectsInv, TypeOK, TablesOK
    <3>2. CASE p = q
      <4>1. Joins(p, u) = {} /\ Departures(p, u) = {}
        BY <1>2, <3>2 DEF Joins, Departures
      <4>2. Cardinality({}) = 0 /\ u \notin members'[p]
        BY <1>2, <2>1, <3>2, FS_EmptySet
      <4>3. Joins(p, u)' = {} /\ Departures(p, u)' = {}
        BY <1>5, <3>1, <4>1
      <4>. QED
        BY <4>2, <4>3
    <3>3. CASE p # q
      BY <1>1, <1>2, <1>5, <2>1, <3>1, <3>3 DEF LogInv, AuditAccountsForMembership
    <3>. QED
      BY <3>2, <3>3
  <2>. QED
    BY <2>1 DEF AuditAccountsForMembership
<1>. QED
  BY <1>6, <1>7, <1>8 DEF LogInv

LEMMA DeletionKeepsInvitations ==
    ASSUME TransactionsInv, NEW r \in Requests, pc[r] = "commit",
           NEW answer \in Codes, Answer(r, answer),
           UNCHANGED call, ProjectsInv', CommitDeleteProject(r)
    PROVE  InvitationsInv' /\ LogInv'
<1>. DEFINE q == call[r].p
            e == Event(r, "project.created", None, FALSE)
<1>. USE DEF TransactionsInv
<1>1. /\ q \in Projects /\ call[r].op = "DeleteProject"
      /\ live' = live \ {q} /\ UNCHANGED owner
      /\ \A i \in Invitations :
            status'[i] = IF i \in ProjectInvitations(q) THEN "deleted" ELSE status[i]
  BY DEF CommitDeleteProject, ProjectsInv, ControlInv
<1>2. /\ members'[q] = {} /\ log'[q] = {}
      /\ \A p \in Projects : p # q => log'[p] = log[p] /\ members'[p] = members[p]
  BY <1>1 DEF CommitDeleteProject, ProjectsInv, TypeOK, TablesOK
<1>3. OwnWrites(r)
  <2>1. /\ \A u \in members[q] : memberLock[q][u] = r
        /\ \A i \in ProjectInvitations(q) : invitationLock[i] = r
    BY <1>1 DEF InvitationsInv, RowLocks, DeleterLocks
  <2>. QED
    BY <1>1, <1>2, <2>1 DEF OwnWrites
<1>4. OnePendingPerEmail'
  BY <1>1 DEF InvitationsInv, OnePendingPerEmail, SamePending
<1>5. \A p \in Projects : log'[p] \subseteq log[p] \cup {e}
  BY <1>2
<1>6. InvitationsInv' /\ LogAgrees' /\ AcceptedOnce'
  <2>1. e.req = r /\ e.action = "project.created"
    BY DEF Event
  <2>. HIDE DEF e
  <2>. QED
    BY <1>3, <1>4, <1>5, <2>1, CommittingRows
<1>7. \A p \in Projects, u \in Users :
         /\ p # q => Joins(p, u)' = Joins(p, u) /\ Departures(p, u)' = Departures(p, u)
         /\ p = q => Joins(p, u)' = {} /\ Departures(p, u)' = {}
  BY <1>2 DEF Joins, Departures
<1>8. FiniteHistories'
  BY <1>7, FS_EmptySet DEF LogInv, FiniteHistories
<1>9. AuditAccountsForMembership'
  BY <1>1, <1>2, <1>7
  DEF LogInv, AuditAccountsForMembership, ProjectsInv, TypeOK, TablesOK
<1>. QED
  BY <1>6, <1>8, <1>9 DEF LogInv

LEMMA MemberDeletionKeepsInvitations ==
    ASSUME TransactionsInv, NEW r \in Requests, pc[r] = "commit",
           NEW answer \in Codes, Answer(r, answer),
           UNCHANGED call, ProjectsInv', CommitMemberDeletion(r)
    PROVE  InvitationsInv' /\ LogInv'
<1>. DEFINE c == call[r]
            action == IF c.op = "RemoveMember" THEN "member.removed" ELSE "member.left"
            e == Event(r, action, c.m, FALSE)
<1>. USE DEF TransactionsInv
<1>1. /\ c.p \in Projects /\ c.m \in Users /\ c.op \in {"RemoveMember", "LeaveProject"}
      /\ UNCHANGED <<live, owner, status>>
      /\ action \in {"member.removed", "member.left"}
  BY DEF CommitMemberDeletion, ProjectsInv, ControlInv
<1>2. OnePendingPerEmail'
  BY <1>1 DEF InvitationsInv, OnePendingPerEmail, SamePending
<1>3. e.req = r /\ e.action = action /\ e.subject = c.m
  BY DEF Event
<1>. HIDE DEF e
<1>4. CASE memberLock[c.p][c.m] = r
  <2>1. /\ members' = [members EXCEPT ![c.p] = @ \ {c.m}]
        /\ Record(r, action, c.m, FALSE)
    BY <1>4 DEF CommitMemberDeletion
  <2>2. \A p \in Projects, u \in Users :
           u \in members'[p] <=> u \in members[p] /\ ~(p = c.p /\ u = c.m)
    BY <1>1, <2>1 DEF ProjectsInv, TypeOK, TablesOK
  <2>3. c.m \in members[c.p]
    BY <1>1, <1>4 DEF InvitationsInv, RowLocks, LockedMembers
  <2>4. OwnWrites(r)
    BY <1>1, <1>4, <2>2 DEF OwnWrites
  <2>5. /\ e \notin log[c.p]
        /\ \A p \in Projects : log'[p] \subseteq log[p] \cup {e}
        /\ \A p \in Projects, u \in Users :
              /\ Joins(p, u)' = Joins(p, u)
              /\ Departures(p, u)' = IF p = c.p /\ u = c.m
                                     THEN Departures(p, u) \cup {e} ELSE Departures(p, u)
    <3>1. log' = [log EXCEPT ![c.p] = @ \cup {e}]
      BY <2>1 DEF Record, Event, e
    <3>2. Recorded(r, e)
      BY <1>1, <1>3, <3>1, RecordedHistories
    <3>. QED
      BY <1>1, <1>3, <3>2 DEF Recorded
  <2>6. InvitationsInv' /\ LogAgrees' /\ AcceptedOnce'
    BY <1>1, <1>2, <1>3, <2>4, <2>5, CommittingRows
  <2>7. /\ IsFiniteSet(Departures(c.p, c.m) \cup {e})
        /\ Cardinality(Departures(c.p, c.m) \cup {e}) = Cardinality(Departures(c.p, c.m)) + 1
    <3>1. e \notin Departures(c.p, c.m) /\ IsFiniteSet(Departures(c.p, c.m))
      BY <1>1, <2>5 DEF Departures, LogInv, FiniteHistories
    <3>. QED
      BY <3>1, OneMore
  <2>8. FiniteHistories'
    BY <2>5, <2>7 DEF LogInv, FiniteHistories
  <2>9. AuditAccountsForMembership'
    <3>1. ASSUME NEW p \in live, NEW u \in Users \ {owner[p]}
          PROVE  Cardinality(Joins(p, u)') =
                    Cardinality(Departures(p, u)') + (IF u \in members'[p] THEN 1 ELSE 0)
      <4>1. p \in Projects
        BY DEF ProjectsInv, TypeOK, TablesOK
      <4>2. Cardinality(Joins(p, u)) \in Nat /\ Cardinality(Departures(p, u)) \in Nat
        BY <4>1, Counted DEF LogInv
      <4>3. Cardinality(Joins(p, u)) =
               Cardinality(Departures(p, u)) + (IF u \in members[p] THEN 1 ELSE 0)
        BY DEF LogInv, AuditAccountsForMembership
      <4>4. CASE p = c.p /\ u = c.m
        <5>1. u \in members[p] /\ u \notin members'[p]
          BY <2>2, <2>3, <4>1, <4>4
        <5>2. /\ Joins(p, u)' = Joins(p, u)
              /\ Cardinality(Departures(p, u)') = Cardinality(Departures(p, u)) + 1
          BY <2>5, <2>7, <4>1, <4>4
        <5>. QED
          BY <4>2, <4>3, <5>1, <5>2
      <4>5. CASE ~(p = c.p /\ u = c.m)
        BY <2>2, <2>5, <4>1, <4>3, <4>5
      <4>. QED
        BY <4>4, <4>5
    <3>. QED
      BY <1>1, <3>1 DEF AuditAccountsForMembership
  <2>. QED
    BY <2>6, <2>8, <2>9 DEF LogInv
<1>5. CASE memberLock[c.p][c.m] # r
  <2>1. UNCHANGED <<members, log>>
    BY <1>5 DEF CommitMemberDeletion
  <2>2. OwnWrites(r)
    BY <1>1, <2>1 DEF OwnWrites
  <2>3. InvitationsInv' /\ LogAgrees' /\ AcceptedOnce'
    BY <1>1, <1>2, <1>3, <2>1, <2>2, CommittingRows
  <2>4. \A p, u : Joins(p, u)' = Joins(p, u) /\ Departures(p, u)' = Departures(p, u)
    BY <2>1 DEF Joins, Departures
  <2>5. FiniteHistories' /\ AuditAccountsForMembership'
    BY <1>1, <2>1, <2>4 DEF LogInv, FiniteHistories, AuditAccountsForMembership
  <2>. QED
    BY <2>3, <2>5 DEF LogInv
<1>. QED
  BY <1>4, <1>5

(* A COMMIT that adds to no history, and changes no members, keeps the count. *)
LEMMA SameHistories ==
    ASSUME LogInv, UNCHANGED <<live, owner, members>>,
           \A p \in Projects, u \in Users :
               Joins(p, u)' = Joins(p, u) /\ Departures(p, u)' = Departures(p, u),
           live \in SUBSET Projects
    PROVE  FiniteHistories' /\ AuditAccountsForMembership'
<1>1. FiniteHistories'
  BY DEF LogInv, FiniteHistories
<1>2. AuditAccountsForMembership'
  BY DEF LogInv, AuditAccountsForMembership
<1>. QED
  BY <1>1, <1>2

LEMMA InvitationKeepsInvitations ==
    ASSUME TransactionsInv, NEW r \in Requests, pc[r] = "commit",
           NEW answer \in Codes, Answer(r, answer),
           UNCHANGED call, ProjectsInv', CommitCreateInvitation(r)
    PROVE  InvitationsInv' /\ LogInv'
<1>. DEFINE c == call[r]
            e == Event(r, "invitation.created", c.i, FALSE)
<1>. USE DEF TransactionsInv
<1>1. /\ c.op = "CreateInvitation" /\ c.p \in Projects /\ c.i \in Invitations
      /\ c.p = InvitationProject[c.i] /\ InvitationEmail[c.i] \in Emails
      /\ UNCHANGED <<live, owner, members>> /\ RowLocks(r) /\ Running(r)
      /\ live \in SUBSET Projects
      /\ \A i \in Invitations :
            status'[i] = IF i = c.i THEN "pending"
                         ELSE IF invitationLock[i] = r THEN "deleted" ELSE status[i]
  BY IdsAssumption
  DEF CommitCreateInvitation, ProjectsInv, ControlInv, InvitationsInv, Running, TypeOK, TablesOK
<1>2. OwnWrites(r)
  BY <1>1 DEF OwnWrites
<1>3. OnePendingPerEmail'
  <2>1. ASSUME NEW i \in Invitations, NEW j \in Invitations,
               SamePending(i, j)', SamePending(j, i)', i # j
        PROVE  FALSE
    <3>1. /\ status'[i] = "pending" /\ status'[j] = "pending"
          /\ InvitationProject[i] = InvitationProject[j]
          /\ InvitationEmail[i] = InvitationEmail[j]
      BY <2>1 DEF SamePending
    <3>2. \A k \in Invitations :
             status'[k] = "pending" /\ k # c.i => status[k] = "pending" /\ invitationLock[k] # r
      BY <1>1
    <3>3. \A k \in Invitations :
             /\ status[k] = "pending" /\ InvitationProject[k] = c.p
             /\ InvitationEmail[k] = InvitationEmail[c.i]
             => invitationLock[k] = r
      BY <1>1 DEF RowLocks, CreatorHolds, PendingEntries
    <3>4. i # c.i /\ j # c.i
      BY <1>1, <2>1, <3>1, <3>2, <3>3
    <3>. QED
      BY <2>1, <3>1, <3>2, <3>4 DEF InvitationsInv, OnePendingPerEmail, SamePending
  <2>. QED
    BY <2>1 DEF OnePendingPerEmail
<1>4. e.req = r /\ e.action = "invitation.created"
  BY DEF Event
<1>5. log' = [log EXCEPT ![c.p] = @ \cup {e}]
  BY DEF CommitCreateInvitation, Record, Event
<1>. HIDE DEF e
<1>6. Recorded(r, e)
  BY <1>1, <1>4, <1>5, RecordedHistories
<1>7. InvitationsInv' /\ LogAgrees' /\ AcceptedOnce'
  BY <1>2, <1>3, <1>4, <1>6, CommittingRows DEF Recorded
<1>8. FiniteHistories' /\ AuditAccountsForMembership'
  BY <1>1, <1>4, <1>6, SameHistories DEF Recorded
<1>. QED
  BY <1>7, <1>8 DEF LogInv

LEMMA RevocationKeepsInvitations ==
    ASSUME TransactionsInv, NEW r \in Requests, pc[r] = "commit",
           NEW answer \in Codes, Answer(r, answer),
           UNCHANGED call, ProjectsInv', CommitDeleteInvitation(r)
    PROVE  InvitationsInv' /\ LogInv'
<1>. DEFINE c == call[r]
            e == Event(r, "invitation.revoked", c.i, FALSE)
<1>. USE DEF TransactionsInv
<1>1. /\ c.op = "DeleteInvitation" /\ c.p \in Projects /\ c.i \in Invitations
      /\ UNCHANGED <<live, owner, members>> /\ RowLocks(r) /\ Running(r)
      /\ live \in SUBSET Projects
      /\ \A i \in Invitations :
            status'[i] = IF invitationLock[i] = r THEN "deleted" ELSE status[i]
  BY DEF CommitDeleteInvitation, ProjectsInv, ControlInv, InvitationsInv, Running,
         TypeOK, TablesOK
<1>2. OwnWrites(r)
  BY <1>1 DEF OwnWrites
<1>3. OnePendingPerEmail'
  BY <1>1 DEF InvitationsInv, OnePendingPerEmail, SamePending
<1>4. e.req = r /\ e.action = "invitation.revoked" /\ e.subject = c.i
  BY DEF Event
<1>5. log' = [log EXCEPT ![c.p] = @ \cup {e}]
  BY DEF CommitDeleteInvitation, Record, Event
<1>. HIDE DEF e
<1>6. Recorded(r, e)
  BY <1>1, <1>4, <1>5, RecordedHistories
<1>7. status'[c.i] = "deleted"
  BY <1>1 DEF RowLocks, RevokerLocks
<1>8. InvitationsInv' /\ LogAgrees' /\ AcceptedOnce'
  <2>1. \A p \in Projects : log'[p] \subseteq log[p] \cup {e}
    BY <1>6 DEF Recorded
  <2>2. /\ e.action # "invitation.accepted"
        /\ e.subject \in Invitations /\ status'[e.subject] = "deleted"
    BY <1>1, <1>4, <1>7
  <2>. QED
    BY <1>2, <1>3, <1>4, <2>1, <2>2, CommittingRows
<1>9. FiniteHistories' /\ AuditAccountsForMembership'
  BY <1>1, <1>4, <1>6, SameHistories DEF Recorded
<1>. QED
  BY <1>8, <1>9 DEF LogInv

LEMMA AcceptanceKeepsInvitations ==
    ASSUME TransactionsInv, NEW r \in Requests, pc[r] = "commit",
           NEW answer \in Codes, Answer(r, answer),
           UNCHANGED call, ProjectsInv', CommitAcceptInvitation(r)
    PROVE  InvitationsInv' /\ LogInv'
<1>. DEFINE c == call[r]
            joined == memberLock[c.p][c.u] = r
            e == Event(r, "invitation.accepted", c.i, joined)
<1>. USE DEF TransactionsInv
<1>1. /\ c.op = "AcceptInvitation" /\ c.p \in Projects /\ c.i \in Invitations
      /\ c.u \in Users /\ UNCHANGED <<live, owner>> /\ RowLocks(r) /\ Running(r)
      /\ live \in SUBSET Projects
  BY DEF CommitAcceptInvitation, ProjectsInv, ControlInv, InvitationsInv, Running,
         TypeOK, TablesOK
<1>2. /\ \A i \in Invitations : status'[i] = IF i = c.i THEN "accepted" ELSE status[i]
      /\ \A p \in Projects, u \in Users :
            u \in members'[p] <=> u \in members[p] \/ (joined /\ p = c.p /\ u = c.u)
  BY <1>1 DEF CommitAcceptInvitation, ProjectsInv, TypeOK, TablesOK
<1>3. invitationLock[c.i] = r /\ status[c.i] = "pending" /\ (joined => c.u \notin members[c.p])
  BY <1>1 DEF RowLocks, AcceptorLocks, LockedInvitations, LockedMembers
<1>4. OwnWrites(r)
  BY <1>1, <1>2, <1>3 DEF OwnWrites
<1>5. OnePendingPerEmail'
  BY <1>2 DEF InvitationsInv, OnePendingPerEmail, SamePending
<1>6. /\ e.req = r /\ e.action = "invitation.accepted" /\ e.subject = c.i /\ e.actor = c.u
      /\ e.joined <=> joined
  BY DEF Event
<1>7. log' = [log EXCEPT ![c.p] = @ \cup {e}]
  BY DEF CommitAcceptInvitation, Record, Event
<1>. HIDE DEF e
<1>8. Recorded(r, e)
  BY <1>1, <1>6, <1>7, RecordedHistories
<1>9. InvitationsInv' /\ LogAgrees' /\ AcceptedOnce'
  <2>1. \A p \in Projects : log'[p] \subseteq log[p] \cup {e}
    BY <1>8 DEF Recorded
  <2>2. /\ e.subject \in Invitations /\ e.action # "invitation.revoked"
        /\ status[e.subject] = "pending" /\ status'[e.subject] = "accepted"
    BY <1>1, <1>2, <1>3, <1>6
  <2>. QED
    BY <1>4, <1>5, <1>6, <2>1, <2>2, CommittingRows
<1>10. /\ \A p \in Projects, u \in Users :
             /\ Joins(p, u)' = IF joined /\ p = c.p /\ u = c.u
                               THEN Joins(p, u) \cup {e} ELSE Joins(p, u)
             /\ Departures(p, u)' = Departures(p, u)
       /\ e \notin Joins(c.p, c.u)
  BY <1>6, <1>8 DEF Recorded, Joins
<1>11. /\ IsFiniteSet(Joins(c.p, c.u) \cup {e})
       /\ Cardinality(Joins(c.p, c.u) \cup {e}) = Cardinality(Joins(c.p, c.u)) + 1
  BY <1>1, <1>10, OneMore DEF LogInv, FiniteHistories
<1>12. FiniteHistories'
  BY <1>10, <1>11 DEF LogInv, FiniteHistories
<1>13. AuditAccountsForMembership'
  <2>1. ASSUME NEW p \in live, NEW u \in Users \ {owner[p]}
        PROVE  Cardinality(Joins(p, u)') =
                  Cardinality(Departures(p, u)') + (IF u \in members'[p] THEN 1 ELSE 0)
    <3>1. p \in Projects
      BY <1>1
    <3>2. Cardinality(Joins(p, u)) \in Nat /\ Cardinality(Departures(p, u)) \in Nat
      BY <3>1, Counted DEF LogInv
    <3>3. Cardinality(Joins(p, u)) =
             Cardinality(Departures(p, u)) + (IF u \in members[p] THEN 1 ELSE 0)
      BY DEF LogInv, AuditAccountsForMembership
    <3>4. CASE joined /\ p = c.p /\ u = c.u
      <4>1. u \notin members[p] /\ u \in members'[p]
        BY <1>2, <1>3, <3>1, <3>4
      <4>2. /\ Cardinality(Joins(p, u)') = Cardinality(Joins(p, u)) + 1
            /\ Departures(p, u)' = Departures(p, u)
        BY <1>10, <1>11, <3>1, <3>4
      <4>. QED
        BY <3>2, <3>3, <4>1, <4>2
    <3>5. CASE ~(joined /\ p = c.p /\ u = c.u)
      <4>1. /\ Joins(p, u)' = Joins(p, u) /\ Departures(p, u)' = Departures(p, u)
            /\ u \in members'[p] <=> u \in members[p]
        BY <1>2, <1>10, <3>1, <3>5
      <4>. QED
        BY <3>3, <4>1
    <3>. QED
      BY <3>4, <3>5
  <2>. QED
    BY <1>1, <2>1 DEF AuditAccountsForMembership
<1>. QED
  BY <1>9, <1>12, <1>13 DEF LogInv

-----------------------------------------------------------------------------
(* Every step *)

(* An invitation expires, or nothing happens. *)
LEMMA Resting ==
    ASSUME TransactionsInv,
           UNCHANGED <<live, owner, members, status, log, call, pc, locks>>
    PROVE  InvitationsInv' /\ LogInv'
<1>. USE DEF TransactionsInv, InvitationsInv, LogInv, locks
<1>1. OnePendingPerEmail' /\ LogAgrees' /\ AcceptedOnce'
  BY DEF OnePendingPerEmail, SamePending, LogAgrees, AcceptedOnce
<1>2. \A p, u : Joins(p, u)' = Joins(p, u) /\ Departures(p, u)' = Departures(p, u)
  BY DEF Joins, Departures
<1>3. FiniteHistories' /\ AuditAccountsForMembership'
  BY <1>2 DEF FiniteHistories, AuditAccountsForMembership
<1>4. ASSUME NEW r \in Requests PROVE RowLocks(r)'
  BY DEF RowLocks, LockedInvitations, NewInvitation, AcceptorLocks, RevokerLocks,
         PendingEntries, CreatorHolds, DeleterLocks, LockedMembers,
         HasRow, SamePending, ProjectInvitations, Running
<1>. QED
  BY <1>1, <1>3, <1>4

LEMMA CommitKeepsInvitations ==
    ASSUME TransactionsInv, NEW r \in Requests, Commit(r), ProjectsInv'
    PROVE  InvitationsInv' /\ LogInv'
<1>1. PICK answer \in Codes : pc[r] = "commit" /\ Answer(r, answer) /\ UNCHANGED call
  BY DEF Commit, At, Codes
<1>. QED
  BY <1>1, CreationKeepsInvitations, DeletionKeepsInvitations,
     MemberDeletionKeepsInvitations, InvitationKeepsInvitations,
     RevocationKeepsInvitations, AcceptanceKeepsInvitations DEF Commit

(* Any step keeps the inductive invariant. *)
LEMMA SharingStep == TransactionsInv /\ [Next]_vars => TransactionsInv'
<1>. SUFFICES ASSUME TransactionsInv, [Next]_vars PROVE TransactionsInv'
  OBVIOUS
<1>1. ProjectsInv'
  BY ProjectsStep DEF TransactionsInv
<1>2. ASSUME NEW r \in Requests, Arrive(r) PROVE InvitationsInv' /\ LogInv'
  BY <1>2, ArrivingKeepsInvitations
<1>3. ASSUME NEW r \in Requests, Step(r) PROVE InvitationsInv' /\ LogInv'
  BY <1>1, <1>3, StatementKeepsInvitations, CommitKeepsInvitations
<1>4. ASSUME NEW r \in Requests, DeadlockVictim(r) \/ Abort(r)
      PROVE  InvitationsInv' /\ LogInv'
  BY <1>4, RollingBack DEF DeadlockVictim, Abort, Codes
<1>5. ASSUME NEW i \in Invitations, Lapse(i) PROVE InvitationsInv' /\ LogInv'
  BY <1>5, Resting DEF Lapse
<1>6. ASSUME UNCHANGED vars PROVE InvitationsInv' /\ LogInv'
  BY <1>6, Resting DEF vars, tables
<1>. QED
  BY <1>1, <1>2, <1>3, <1>4, <1>5, <1>6 DEF Next, TransactionsInv

(* The rows of earlier requests satisfy it: whoever is a member has accepted *)
(* one invitation, and nobody has left.                                      *)
LEMMA SharingStart == Init => TransactionsInv
<1>. SUFFICES ASSUME Init PROVE TransactionsInv
  OBVIOUS
<1>1. ProjectsInv
  BY ProjectsStart
<1>2. InvitationsInv
  <2>1. OnePendingPerEmail
    BY DEF Init, InitTables, OnePendingPerEmail
  <2>2. ASSUME NEW r \in Requests PROVE RowLocks(r)
    <3>1. /\ call[r].op = "none" /\ pc[r] = "idle" /\ r # None
          /\ \A i \in Invitations : invitationLock[i] = None
          /\ \A p \in Projects, u \in Users : memberLock[p][u] = None
          /\ \A p \in Projects, e \in Emails : pendingLock[p][e] = None
      BY IdsAssumption DEF Init, NoCall, Call
    <3>. QED
      BY <3>1 DEF RowLocks, LockedInvitations, NewInvitation, AcceptorLocks, RevokerLocks,
                  PendingEntries, CreatorHolds, DeleterLocks, LockedMembers
  <2>. QED
    BY <2>1, <2>2 DEF InvitationsInv
<1>3. LogInv
  <2>1. \A p \in Projects :
           log[p] = {JoinedEarlier(u) : u \in members[p] \ {owner[p]}}
    BY DEF Init, InitTables
  <2>2. \A p \in Projects : \A e \in log[p] :
           e.req = None /\ e.action = "invitation.accepted" /\ e.subject = None
    BY <2>1 DEF JoinedEarlier
  <2>3. LogAgrees /\ AcceptedOnce
    BY <2>2, IdsAssumption DEF LogAgrees, AcceptedOnce
  <2>4. \A u : JoinedEarlier(u).actor = u /\ JoinedEarlier(u).joined
    BY DEF JoinedEarlier
  <2>5. ASSUME NEW p \in Projects, NEW u \in Users
        PROVE  /\ Departures(p, u) = {}
               /\ Joins(p, u) = IF u \in members[p] \ {owner[p]}
                                THEN {JoinedEarlier(u)} ELSE {}
    <3>1. Departures(p, u) = {}
      BY <2>2 DEF Departures
    <3>2. ASSUME NEW e \in Joins(p, u)
          PROVE  e = JoinedEarlier(u) /\ u \in members[p] \ {owner[p]}
      <4>1. PICK v \in members[p] \ {owner[p]} : e = JoinedEarlier(v)
        BY <2>1 DEF Joins
      <4>2. e.actor = u /\ e.actor = v
        BY <2>4, <4>1 DEF Joins
      <4>. QED
        BY <4>1, <4>2
    <3>3. u \in members[p] \ {owner[p]} => JoinedEarlier(u) \in Joins(p, u)
      BY <2>1, <2>2, <2>4 DEF Joins
    <3>4. CASE u \in members[p] \ {owner[p]}
      BY <3>1, <3>2, <3>3, <3>4
    <3>5. CASE u \notin members[p] \ {owner[p]}
      BY <3>1, <3>2, <3>5
    <3>. QED
      BY <3>4, <3>5
  <2>6. /\ IsFiniteSet({}) /\ Cardinality({}) = 0
        /\ \A x : IsFiniteSet({x}) /\ Cardinality({x}) = 1
    BY FS_EmptySet, FS_Singleton
  <2>7. FiniteHistories
    BY <2>5, <2>6 DEF FiniteHistories
  <2>8. AuditAccountsForMembership
    <3>1. ASSUME NEW p \in live, NEW u \in Users \ {owner[p]}
          PROVE  Cardinality(Joins(p, u)) =
                    Cardinality(Departures(p, u)) + (IF u \in members[p] THEN 1 ELSE 0)
      <4>1. p \in Projects
        BY DEF Init, InitTables
      <4>2. Joins(p, u) = (IF u \in members[p] THEN {JoinedEarlier(u)} ELSE {})
            /\ Departures(p, u) = {}
        BY <2>5, <4>1
      <4>3. CASE u \in members[p]
        <5>1. Cardinality(Joins(p, u)) = 1 /\ Cardinality(Departures(p, u)) = 0
          BY <2>6, <4>2, <4>3
        <5>. QED
          BY <4>3, <5>1
      <4>4. CASE u \notin members[p]
        <5>1. Cardinality(Joins(p, u)) = 0 /\ Cardinality(Departures(p, u)) = 0
          BY <2>6, <4>2, <4>4
        <5>. QED
          BY <4>4, <5>1
      <4>. QED
        BY <4>3, <4>4
    <3>. QED
      BY <3>1 DEF AuditAccountsForMembership
  <2>. QED
    BY <2>3, <2>7, <2>8 DEF LogInv
<1>. QED
  BY <1>1, <1>2, <1>3 DEF TransactionsInv

LEMMA TransactionsInvariant == Spec => []TransactionsInv
<1>1. Init => TransactionsInv
  BY SharingStart
<1>2. TransactionsInv /\ [Next]_vars => TransactionsInv'
  BY SharingStep
<1>. QED
  BY <1>1, <1>2, PTL DEF Spec

(* Type correctness of the transactions. *)
THEOREM TypeCorrect == Spec => []TypeOK
<1>1. TransactionsInv => TypeOK
  BY DEF TransactionsInv, ProjectsInv
<1>. QED
  BY <1>1, TransactionsInvariant, PTL

(* No interleaving of removals, leaves, acceptances and deletions leaves a   *)
(* project whose owner is not a member.                                      *)
THEOREM OwnerStaysMember == Spec => []OwnerIsMember
<1>1. TransactionsInv => OwnerIsMember
  BY DEF TransactionsInv, ProjectsInv
<1>. QED
  BY <1>1, TransactionsInvariant, PTL

(* No transaction commits a row into a project that another has deleted.     *)
THEOREM NothingOutlivesItsProject == Spec => []NoOrphans
<1>1. TransactionsInv => NoOrphans
  BY DEF TransactionsInv, ProjectsInv
<1>. QED
  BY <1>1, TransactionsInvariant, PTL

(* The unique index and the locks of the lapsed rows leave one pending       *)
(* invitation for an email, however creations, deletions and acceptances of  *)
(* it interleave.                                                            *)
THEOREM OneInvitationPending == Spec => []OnePendingPerEmail
<1>1. TransactionsInv => OnePendingPerEmail
  BY DEF TransactionsInv, InvitationsInv
<1>. QED
  BY <1>1, TransactionsInvariant, PTL

(* No token is spent twice, by two requests that have both found it pending. *)
THEOREM TokensAreSpentOnce == Spec => []AcceptedOnce
<1>1. TransactionsInv => AcceptedOnce
  BY DEF TransactionsInv, LogInv
<1>. QED
  BY <1>1, TransactionsInvariant, PTL

(* Racing removals and leaves of a member write one event between them, and  *)
(* racing acceptances write one that joined: the log counts the membership.  *)
THEOREM MembershipIsAudited == Spec => []AuditAccountsForMembership
<1>1. TransactionsInv => AuditAccountsForMembership
  BY DEF TransactionsInv, LogInv
<1>. QED
  BY <1>1, TransactionsInvariant, PTL


-----------------------------------------------------------------------------
(* What a step writes *)

(* Nothing shows in the tables before a COMMIT. *)
LEMMA CommitsWrite ==
    ASSUME [Next]_vars
    PROVE  \/ UNCHANGED <<live, owner, members, status, log>>
           \/ \E r \in Requests : Commit(r)
<1>1. ASSUME NEW r \in Requests, Arrive(r) PROVE UNCHANGED tables
  BY <1>1 DEF Arrive, CreateProject, DeleteProject, RemoveMember, LeaveProject,
              CreateInvitation, DeleteInvitation, AcceptInvitation
<1>2. ASSUME NEW r \in Requests, Step(r), ~Commit(r) PROVE UNCHANGED tables
  BY <1>2 DEF Step, DeleteMemberRow, Audit, ShareProject, LockProject, ProjectMutationState,
              CascadeMembers, CascadeInvitations, DeleteLapsed, InsertInvitation, ReadStatus,
              DeleteInvitationRow, LockInvitation, InsertMember, MarkAccepted
<1>3. ASSUME NEW r \in Requests, DeadlockVictim(r) \/ Abort(r) PROVE UNCHANGED tables
  BY <1>3 DEF DeadlockVictim, Abort
<1>4. ASSUME NEW i \in Invitations, Lapse(i)
      PROVE  UNCHANGED <<live, owner, members, status, log>>
  BY <1>4 DEF Lapse
<1>. QED
  BY <1>1, <1>2, <1>3, <1>4 DEF Next, vars, tables

(* An acceptance commits for the invitation it has locked, still pending. *)
LEMMA AcceptanceIsOfPending ==
    ASSUME TransactionsInv, NEW r \in Requests, pc[r] = "commit", call[r].op = "AcceptInvitation"
    PROVE  LET c == call[r] IN
           /\ c.i \in Invitations /\ c.u \in Users /\ c.p = InvitationProject[c.i]
           /\ c.p \in live /\ status[c.i] = "pending"
           /\ VerifiedEmail[c.u] = InvitationEmail[c.i]
           /\ memberLock[c.p][c.u] = r => c.u \notin members[c.p]
<1>. USE DEF TransactionsInv, ProjectsInv
<1>1. /\ call[r].i \in Invitations /\ call[r].u \in Users /\ call[r].p \in Projects
      /\ call[r].p = InvitationProject[call[r].i] /\ RowLocks(r)
  BY DEF ControlInv, InvitationsInv
<1>2. call[r].p \in live
  BY <1>1 DEF ProjectLockInv, WritersShare, Shares, SharedExists
<1>. QED
  BY <1>1, <1>2 DEF RowLocks, AcceptorLocks, LockedInvitations, LockedMembers

(* What CommitAcceptInvitation would have to break: the row of a revocation  *)
(* says that the invitation is deleted, and the acceptor's lock that it is   *)
(* still pending.                                                            *)
LEMMA NothingRevokedIsAccepted ==
    ASSUME TransactionsInv, [Next]_vars,
           NEW p \in Projects, NEW e \in log'[p] \ log[p], e.action = "invitation.accepted",
           NEW f \in log[p], f.action = "invitation.revoked"
    PROVE  f.subject # e.subject
<1>. USE DEF TransactionsInv
<1>1. PICK r \in Requests : Commit(r)
  BY CommitsWrite
<1>2. pc[r] = "commit" /\ log \in [Projects -> SUBSET Events]
  BY <1>1 DEF Commit, At, ProjectsInv, TypeOK, TablesOK
<1>3. CASE CommitAcceptInvitation(r)
  <2>1. e.subject = call[r].i /\ call[r].op = "AcceptInvitation"
    BY <1>2, <1>3 DEF CommitAcceptInvitation, Record
  <2>2. status[f.subject] = "deleted"
    BY DEF LogInv, LogAgrees
  <2>. QED
    BY <1>2, <2>1, <2>2, AcceptanceIsOfPending
<1>4. CASE ~CommitAcceptInvitation(r)
  BY <1>1, <1>2, <1>4
  DEF Commit, CommitCreateProject, CommitDeleteProject, CommitMemberDeletion,
      CommitCreateInvitation, CommitDeleteInvitation, Record
<1>. QED
  BY <1>3, <1>4

(* A request that found an invitation pending does not accept it once its    *)
(* revocation is in the audit log.                                           *)
THEOREM RevokedIsNotAccepted == Spec => NoAcceptAfterRevoke
<1>1. TransactionsInv /\ [Next]_vars =>
        [\A p \in Projects : \A e \in log'[p] \ log[p] :
            e.action = "invitation.accepted" =>
                ~\E f \in log[p] : f.action = "invitation.revoked" /\ f.subject = e.subject]_vars
  BY NothingRevokedIsAccepted
<1>. QED
  BY <1>1, TransactionsInvariant, PTL DEF Spec, NoAcceptAfterRevoke

-----------------------------------------------------------------------------
(* The transactions implement SharingContract *)

LEMMA CreationImplementsContract ==
    ASSUME TransactionsInv, NEW r \in Requests, pc[r] = "commit", CommitCreateProject(r)
    PROVE  Contract!ContractNext
<1>. DEFINE c == call[r]
<1>1. c.op = "CreateProject" /\ c.p \in Projects /\ c.u \in Users /\ owner[c.p] = None
  BY DEF CommitCreateProject, TransactionsInv, ProjectsInv, ControlInv, OwnerInv
<1>2. Contract!Create(c.p, c.u)
  BY <1>1 DEF CommitCreateProject, OwnerMembership, Contract!Create
<1>. QED
  BY <1>1, <1>2 DEF Contract!ContractNext

LEMMA DeletionImplementsContract ==
    ASSUME TransactionsInv, NEW r \in Requests, pc[r] = "commit", CommitDeleteProject(r)
    PROVE  Contract!ContractNext
<1>. DEFINE p == call[r].p
<1>1. p \in Projects /\ p \in live
  BY DEF CommitDeleteProject, TransactionsInv, ProjectsInv, ControlInv, ProjectLockInv,
         DeletedIsLocked, LockedIsDeleted
<1>2. Contract!Rows(p) = ProjectInvitations(p)
  BY DEF Contract!Rows, ProjectInvitations, HasRow
<1>3. Contract!Delete(p)
  BY <1>1, <1>2 DEF CommitDeleteProject, Contract!Delete
<1>. QED
  BY <1>1, <1>3 DEF Contract!ContractNext

(* A removal that found nobody to remove has no effect. *)
LEMMA MemberDeletionImplementsContract ==
    ASSUME TransactionsInv, NEW r \in Requests, pc[r] = "commit", CommitMemberDeletion(r)
    PROVE  [Contract!ContractNext]_(Contract!contractVars)
<1>. DEFINE c == call[r]
<1>. USE DEF TransactionsInv, ProjectsInv
<1>1. /\ c.p \in Projects /\ c.m \in Users /\ Running(r)
      /\ c.op \in {"RemoveMember", "LeaveProject"} /\ RowLocks(r)
  BY DEF CommitMemberDeletion, ControlInv, Running, InvitationsInv
<1>2. CASE memberLock[c.p][c.m] = r
  <2>1. c.m \in members[c.p] /\ c.m # owner[c.p]
    BY <1>1, <1>2 DEF RowLocks, LockedMembers, OwnerInv
  <2>2. c.p \in live
    BY <1>1, <2>1 DEF NoOrphans
  <2>3. Contract!Depart(c.p, c.m)
    BY <1>2, <2>1, <2>2 DEF CommitMemberDeletion, Contract!Depart
  <2>. QED
    BY <1>1, <2>3 DEF Contract!ContractNext
<1>3. CASE memberLock[c.p][c.m] # r
  BY <1>3 DEF CommitMemberDeletion, Contract!contractVars
<1>. QED
  BY <1>2, <1>3

(* The rows that a creation has locked are those pending for its email when  *)
(* it commits: the entry it has in the unique index keeps others out.        *)
LEMMA InvitationImplementsContract ==
    ASSUME TransactionsInv, NEW r \in Requests, pc[r] = "commit", CommitCreateInvitation(r)
    PROVE  Contract!ContractNext
<1>. DEFINE c == call[r]
            pending == Contract!Pending(c.p, InvitationEmail[c.i])
<1>. USE DEF TransactionsInv, ProjectsInv
<1>1. /\ c.op = "CreateInvitation" /\ c.p \in Projects /\ c.i \in Invitations
      /\ c.p = InvitationProject[c.i] /\ InvitationEmail[c.i] \in Emails
      /\ Running(r) /\ RowLocks(r) /\ c.p \in live
  BY IdsAssumption
  DEF CommitCreateInvitation, ControlInv, Running, InvitationsInv,
      ProjectLockInv, WritersShare, Shares, SharedExists
<1>2. status[c.i] = "unused"
  BY <1>1 DEF RowLocks, NewInvitation
<1>3. ASSUME NEW j \in Invitations PROVE invitationLock[j] = r <=> j \in pending
  <2>1. ASSUME invitationLock[j] = r PROVE j \in pending
    BY <1>1, <2>1 DEF RowLocks, LockedInvitations, SamePending, Contract!Pending
  <2>2. ASSUME j \in pending PROVE invitationLock[j] = r
    BY <1>1, <2>2 DEF RowLocks, CreatorHolds, PendingEntries, Contract!Pending
  <2>. QED
    BY <2>1, <2>2
<1>. HIDE DEF pending
<1>4. status' = [j \in Invitations |->
        IF j = c.i THEN "pending" ELSE IF j \in pending THEN "deleted" ELSE status[j]]
  BY <1>3 DEF CommitCreateInvitation
<1>5. Contract!Issue(c.i)
  BY <1>1, <1>2, <1>4 DEF CommitCreateInvitation, Contract!Issue, pending
<1>. QED
  BY <1>1, <1>5 DEF Contract!ContractNext

(* A revocation whose invitation is gone by now has no effect. *)
LEMMA RevocationImplementsContract ==
    ASSUME TransactionsInv, NEW r \in Requests, pc[r] = "commit", CommitDeleteInvitation(r)
    PROVE  [Contract!ContractNext]_(Contract!contractVars)
<1>. DEFINE c == call[r]
<1>. USE DEF TransactionsInv, ProjectsInv
<1>1. /\ c.op = "DeleteInvitation" /\ c.i \in Invitations /\ RowLocks(r)
      /\ status \in [Invitations -> Statuses]
  BY DEF CommitDeleteInvitation, ControlInv, InvitationsInv, TypeOK, TablesOK
<1>2. \A j \in Invitations : invitationLock[j] = r => j = c.i /\ HasRow(j)
  BY <1>1 DEF RowLocks, LockedInvitations
<1>3. CASE invitationLock[c.i] = r
  <2>1. status' = [status EXCEPT ![c.i] = "deleted"]
    <3>1. status' = [j \in Invitations |->
             IF invitationLock[j] = r THEN "deleted" ELSE status[j]]
      BY DEF CommitDeleteInvitation
    <3>2. status' = [j \in Invitations |-> IF j = c.i THEN "deleted" ELSE status[j]]
      BY ONLY <1>2, <1>3, <3>1
    <3>. QED
      BY ONLY <1>1, <3>2
  <2>2. Contract!Withdraw(c.i)
    BY <1>1, <1>2, <1>3, <2>1 DEF CommitDeleteInvitation, HasRow, Contract!Withdraw
  <2>. QED
    BY <1>1, <2>2 DEF Contract!ContractNext
<1>4. CASE invitationLock[c.i] # r
  <2>1. status' = status
    BY <1>1, <1>2, <1>4 DEF CommitDeleteInvitation
  <2>. QED
    BY <2>1 DEF CommitDeleteInvitation, Contract!contractVars
<1>. QED
  BY <1>3, <1>4

LEMMA AcceptanceImplementsContract ==
    ASSUME TransactionsInv, NEW r \in Requests, pc[r] = "commit", CommitAcceptInvitation(r)
    PROVE  Contract!ContractNext
<1>. DEFINE c == call[r]
<1>1. /\ c.i \in Invitations /\ c.u \in Users /\ c.p = InvitationProject[c.i]
      /\ c.p \in live /\ status[c.i] = "pending"
      /\ VerifiedEmail[c.u] = InvitationEmail[c.i]
      /\ memberLock[c.p][c.u] = r => c.u \notin members[c.p]
  BY AcceptanceIsOfPending DEF CommitAcceptInvitation
<1>2. /\ status' = [status EXCEPT ![c.i] = "accepted"] /\ UNCHANGED <<live, owner>>
      /\ memberLock[c.p][c.u] = r => members' = [members EXCEPT ![c.p] = @ \cup {c.u}]
      /\ memberLock[c.p][c.u] # r => members' = members
  BY DEF CommitAcceptInvitation
<1>3. ASSUME memberLock[c.p][c.u] = r PROVE Contract!Accept(c.i, c.u)
  BY <1>1, <1>2, <1>3 DEF Contract!Accept
<1>4. ASSUME memberLock[c.p][c.u] # r PROVE Contract!Accept(c.i, c.u)
  BY <1>1, <1>2, <1>4 DEF Contract!Accept
<1>. QED
  BY <1>1, <1>3, <1>4 DEF Contract!ContractNext

LEMMA StepImplementsContract ==
    ASSUME TransactionsInv, [Next]_vars
    PROVE  [Contract!ContractNext]_(Contract!contractVars)
<1>1. ASSUME NEW r \in Requests, Commit(r)
      PROVE  [Contract!ContractNext]_(Contract!contractVars)
  <2>1. pc[r] = "commit"
    BY <1>1 DEF Commit, At
  <2>. QED
    BY <1>1, <2>1, CreationImplementsContract, DeletionImplementsContract,
       MemberDeletionImplementsContract, InvitationImplementsContract,
       RevocationImplementsContract, AcceptanceImplementsContract DEF Commit
<1>2. CASE UNCHANGED <<live, owner, members, status, log>>
  BY <1>2 DEF Contract!contractVars
<1>. QED
  BY <1>1, <1>2, CommitsWrite

(* Every transaction that commits changes the tables as one operation that   *)
(* is allowed when it commits, whatever it read before and whatever          *)
(* committed in between.                                                     *)
THEOREM SharingImplementsContract == Spec => ImplementsContract
<1>1. Init => Contract!ContractInit
  <2>. SUFFICES ASSUME Init PROVE Contract!ContractInit
    OBVIOUS
  <2>1. \A p \in Projects : Contract!Rows(p) = ProjectInvitations(p)
    BY DEF Contract!Rows, ProjectInvitations, HasRow
  <2>2. OwnerIsMember /\ NoOrphans /\ OnePendingPerEmail
    BY SharingStart DEF TransactionsInv, ProjectsInv, InvitationsInv
  <2>3. \A p \in Projects, e \in Emails : \A i, j \in Contract!Pending(p, e) : i = j
    BY <2>2 DEF Contract!Pending, OnePendingPerEmail, SamePending
  <2>4. Contract!Consistent
    BY <2>1, <2>2, <2>3 DEF Contract!Consistent, OwnerIsMember, NoOrphans
  <2>. QED
    BY <2>4 DEF Init, InitTables, Contract!ContractInit
<1>. QED
  BY <1>1, TransactionsInvariant, StepImplementsContract, PTL
  DEF Spec, ImplementsContract, Contract!ContractSpec

-----------------------------------------------------------------------------
(* Deadlocks *)

(* Only one request steps at a time: the entries the others hold are as      *)
(* before, and its own must be as the invariant says.                        *)
LEMMA PendersKept ==
    ASSUME PendersInv, NEW r \in Requests,
           \A d \in Requests \ {r} : call'[d] = call[d] /\ pc'[d] = pc[d],
           \A d \in Requests \ {r}, p \in Projects, e \in Emails :
              pendingLock'[p][e] = d => pendingLock[p][e] = d,
           \A p \in Projects, e \in Emails :
              pendingLock'[p][e] = r =>
                 /\ call'[r].op \in {"CreateInvitation", "DeleteInvitation", "AcceptInvitation"}
                 /\ p = call'[r].p /\ e = InvitationEmail[call'[r].i]
                 /\ pc'[r] \in {"insertInvitation", "audit", "shareProject", "commit"}
    PROVE  PendersInv'
  BY DEF PendersInv

LEMMA PendersStep == TransactionsInv /\ PendersInv /\ [Next]_vars => PendersInv'
<1>. SUFFICES ASSUME TransactionsInv, PendersInv, [Next]_vars PROVE PendersInv'
  OBVIOUS
<1>1. TypeOK /\ ControlInv
  BY DEF TransactionsInv, ProjectsInv
<1>2. ASSUME NEW r \in Requests PROVE r # None
  BY IdsAssumption
<1>3. ASSUME NEW r \in Requests, NEW s, pc' = [pc EXCEPT ![r] = s]
      PROVE  pc'[r] = s /\ \A d \in Requests \ {r} : pc'[d] = pc[d]
  BY <1>1, <1>3 DEF TypeOK, RequestsOK
<1>4. ASSUME NEW r \in Requests, \A d \in Requests \ {r} : call'[d] = call[d],
             NEW c, Answer(r, c)
      PROVE  PendersInv'
  <2>1. \A p \in Projects, e \in Emails :
           /\ pendingLock'[p][e] # r
           /\ \A d \in Requests : pendingLock'[p][e] = d => pendingLock[p][e] = d
    BY <1>2, <1>4 DEF Answer, Release
  <2>2. \A d \in Requests \ {r} : call'[d] = call[d] /\ pc'[d] = pc[d]
    BY <1>3, <1>4 DEF Answer
  <2>. QED
    BY <2>1, <2>2, PendersKept
<1>5. ASSUME NEW r \in Requests, \A d \in Requests \ {r} : call'[d] = call[d],
             NEW s, Goto(r, s), pc[r] = "idle"
      PROVE  PendersInv'
  <2>1. UNCHANGED pendingLock /\ pc' = [pc EXCEPT ![r] = s]
    BY <1>5 DEF Goto, locks
  <2>2. \A p \in Projects, e \in Emails : pendingLock'[p][e] # r
    BY <1>5, <2>1 DEF PendersInv
  <2>3. \A d \in Requests \ {r} : call'[d] = call[d] /\ pc'[d] = pc[d]
    BY <1>3, <1>5, <2>1
  <2>. QED
    BY <2>1, <2>2, <2>3, PendersKept
<1>6. ASSUME NEW r \in Requests, UNCHANGED <<call, pendingLock>>, NEW s, Advance(r, s),
             pc[r] \notin {"insertInvitation", "commit"},
             pc[r] \in {"audit", "shareProject"} =>
                s \in {"shareProject", "commit"} \/ call[r].op = "LeaveProject"
      PROVE  PendersInv'
  <2>1. pc' = [pc EXCEPT ![r] = s]
    BY <1>6 DEF Advance
  <2>2. \A d \in Requests \ {r} : call'[d] = call[d] /\ pc'[d] = pc[d]
    BY <1>3, <1>6, <2>1
  <2>3. ASSUME NEW p \in Projects, NEW e \in Emails, pendingLock[p][e] = r
        PROVE  /\ call[r].op \in {"CreateInvitation", "DeleteInvitation", "AcceptInvitation"}
               /\ p = call[r].p /\ e = InvitationEmail[call[r].i]
               /\ pc'[r] \in {"shareProject", "commit"}
    <3>1. /\ call[r].op \in {"CreateInvitation", "DeleteInvitation", "AcceptInvitation"}
          /\ p = call[r].p /\ e = InvitationEmail[call[r].i]
          /\ pc[r] \in {"insertInvitation", "audit", "shareProject", "commit"}
      BY <2>3 DEF PendersInv
    <3>2. pc'[r] = s
      BY <1>3, <2>1
    <3>. QED
      BY <1>6, <3>1, <3>2
  <2>. QED
    BY <1>6, <2>2, <2>3, PendersKept
<1>7. ASSUME NEW r \in Requests, UNCHANGED call, Pend(r),
             NEW s \in {"insertInvitation", "audit", "shareProject", "commit"}, Advance(r, s),
             call[r].op \in {"CreateInvitation", "DeleteInvitation", "AcceptInvitation"},
             pc[r] \notin {"insertInvitation", "audit", "shareProject", "commit"}
                \/ pc[r] = "insertInvitation"
      PROVE  PendersInv'
  <2>1. pendingLock \in [Projects -> [Emails -> Requests \cup {None}]]
    BY <1>1 DEF TypeOK, LocksOK, Holder
  <2>2. ASSUME NEW p \in Projects, NEW e \in Emails
        PROVE  \/ pendingLock'[p][e] = pendingLock[p][e]
               \/ /\ p = call[r].p /\ e = InvitationEmail[call[r].i]
                  /\ pendingLock'[p][e] = r
    BY <1>7, <2>1 DEF Pend
  <2>3. pc' = [pc EXCEPT ![r] = s]
    BY <1>7 DEF Advance
  <2>4. /\ pc'[r] \in {"insertInvitation", "audit", "shareProject", "commit"}
        /\ \A d \in Requests \ {r} : call'[d] = call[d] /\ pc'[d] = pc[d]
    BY <1>3, <1>7, <2>3
  <2>5. ASSUME NEW p \in Projects, NEW e \in Emails, pendingLock'[p][e] = r
        PROVE  p = call[r].p /\ e = InvitationEmail[call[r].i]
    BY <2>2, <2>5 DEF PendersInv
  <2>6. ASSUME NEW d \in Requests \ {r}, NEW p \in Projects, NEW e \in Emails,
               pendingLock'[p][e] = d
        PROVE  pendingLock[p][e] = d
    BY <2>2, <2>6
  <2>. QED
    BY <1>7, <2>4, <2>5, <2>6, PendersKept
<1>8. ASSUME NEW r \in Requests, Arrive(r) PROVE PendersInv'
  <2>1. pc[r] = "idle" /\ \E c : call' = [call EXCEPT ![r] = c]
    BY <1>8
    DEF Arrive, CreateProject, DeleteProject, RemoveMember, LeaveProject, CreateInvitation,
        DeleteInvitation, AcceptInvitation, Serve
  <2>2. \A d \in Requests \ {r} : call'[d] = call[d]
    BY <1>1, <2>1 DEF TypeOK, RequestsOK
  <2>3. (\E s : Goto(r, s)) \/ \E c : Answer(r, c)
    BY <1>8
    DEF Arrive, CreateProject, DeleteProject, RemoveMember, LeaveProject, CreateInvitation,
        DeleteInvitation, AcceptInvitation
  <2>. QED
    BY <1>4, <1>5, <2>1, <2>2, <2>3
<1>9. ASSUME NEW r \in Requests, Step(r) PROVE PendersInv'
  <2>1. call' = call
    BY <1>9
    DEF Step, DeleteMemberRow, Audit, ShareProject, LockProject, ProjectMutationState,
        CascadeMembers, CascadeInvitations, DeleteLapsed, InsertInvitation, ReadStatus,
        DeleteInvitationRow, LockInvitation, InsertMember, MarkAccepted, Commit
  <2>2. CASE \E c : Answer(r, c)
    BY <1>4, <2>1, <2>2
  <2>3. CASE ~\E c : Answer(r, c)
    <3>1. CASE DeleteMemberRow(r) \/ Audit(r) \/ ShareProject(r) \/ LockProject(r)
                 \/ CascadeMembers(r) \/ CascadeInvitations(r) \/ ReadStatus(r)
                 \/ LockInvitation(r) \/ InsertMember(r)
      <4>1. /\ UNCHANGED pendingLock /\ pc[r] \notin {"insertInvitation", "commit"}
            /\ \E s : /\ Advance(r, s)
                      /\ pc[r] \in {"audit", "shareProject"} =>
                           s \in {"shareProject", "commit"} \/ call[r].op = "LeaveProject"
        BY <2>3, <3>1
        DEF DeleteMemberRow, Audit, ShareProject, LockProject, CascadeMembers,
            CascadeInvitations, ReadStatus, LockInvitation, InsertMember, At, Goto, Advance, locks
      <4>. QED
        BY <1>6, <2>1, <4>1
    <3>2. CASE InsertInvitation(r) \/ MarkAccepted(r)
      <4>1. /\ Pend(r) /\ pc[r] \in {"insertInvitation", "acceptInvitation"}
            /\ \E s \in {"audit", "commit"} : Advance(r, s)
        BY <2>3, <3>2 DEF InsertInvitation, MarkAccepted, At
      <4>. QED
        BY <1>1, <1>7, <2>1, <4>1 DEF ControlInv
    <3>3. CASE DeleteLapsed(r) \/ DeleteInvitationRow(r)
      <4>1. /\ Pend(r) \/ UNCHANGED pendingLock
            /\ pc[r] \in {"deleteLapsed", "deleteInvitation"}
            /\ \E s \in {"insertInvitation", "audit"} : Advance(r, s)
        BY <3>3 DEF DeleteLapsed, DeleteInvitationRow, At
      <4>. QED
        BY <1>1, <1>6, <1>7, <2>1, <4>1 DEF ControlInv
    <3>4. CASE ProjectMutationState(r) \/ Commit(r)
      BY <2>3, <3>4 DEF ProjectMutationState, Commit
    <3>. QED
      BY <1>9, <3>1, <3>2, <3>3, <3>4 DEF Step
  <2>. QED
    BY <2>2, <2>3
<1>10. ASSUME NEW r \in Requests, DeadlockVictim(r) \/ Abort(r) PROVE PendersInv'
  BY <1>4, <1>10 DEF DeadlockVictim, Abort
<1>11. CASE UNCHANGED <<call, pc, locks>>
  BY <1>11 DEF PendersInv, locks
<1>. QED
  BY <1>8, <1>9, <1>10, <1>11 DEF Next, Lapse, vars

(* The inductive invariant holds in every reachable state: whatever requests *)
(* interleave, abort or deadlock, each of them is where its operation and    *)
(* its locks say it is, and the audit log agrees with the tables.            *)
THEOREM SharingInvariant == Spec => []SharingInv
<1>1. Init => PendersInv
  BY IdsAssumption DEF Init, PendersInv
<1>. QED
  BY <1>1, PendersStep, TransactionsInvariant, PTL DEF Spec, SharingInv

(* How far a transaction has come in the order in which locks are taken: an  *)
(* invitation, then the entry in the unique index or a membership.           *)
Rank(r) ==
    IF pc[r] \in {"deleteMember", "deleteLapsed", "deleteInvitation", "lockInvitation"} THEN 0
    ELSE IF \/ pc[r] = "insertMember"
            \/ /\ pc[r] = "insertInvitation"
               /\ pendingLock[call[r].p][InvitationEmail[call[r].i]] # r
         THEN 1 ELSE 2

LEMMA WaitingGoesUp ==
    ASSUME TransactionsInv, PendersInv,
           \A d \in Requests : ~(call[d].op = "DeleteProject" /\ Running(d)),
           NEW r \in Requests, NEW d \in Requests, Waits(r, d)
    PROVE  Rank(r) < Rank(d)
<1>. DEFINE c == call[r]
<1>1. TypeOK /\ ControlInv /\ MemberLockInv /\ ProjectLockInv /\ LockedInvitations(d)
  BY DEF TransactionsInv, ProjectsInv, InvitationsInv, RowLocks
<1>2. /\ pc[r] \in {"lockProject", "cascadeMembers", "cascadeInvitations"} => FALSE
      /\ pc[r] # "idle" => c.p \in Projects /\ c.u \in Users
      /\ pc[r] = "deleteMember" => c.m \in Users
      /\ pc[r] = "lockInvitation" => c.i \in Invitations
      /\ pc[r] = "insertInvitation" => InvitationEmail[c.i] \in Emails
  BY <1>1, IdsAssumption DEF ControlInv, Running
<1>3. pc[r] # "idle" => d \notin KeyShareBlockers(r)
  BY <1>1, <1>2 DEF ProjectLockInv, LockedIsDeleted, Running, KeyShareBlockers, Others
<1>4. ASSUME NEW p \in Projects, NEW u \in Users, memberLock[p][u] = d PROVE Rank(d) = 2
  <2>1. pc[d] \in {"audit", "shareProject", "commit", "acceptInvitation"}
    BY <1>1, <1>4 DEF MemberLockInv, Running
  <2>. QED
    BY <2>1 DEF Rank
<1>5. ASSUME NEW i \in Invitations, invitationLock[i] = d PROVE Rank(d) \in {1, 2}
  <2>1. pc[d] \in {"insertInvitation", "audit", "shareProject", "commit", "insertMember",
                   "acceptInvitation"}
    BY <1>1, <1>5 DEF LockedInvitations, Running
  <2>. QED
    BY <2>1 DEF Rank
<1>6. CASE pc[r] = "deleteMember"
  <2>1. memberLock[c.p][c.m] = d
    BY <1>6 DEF Waits, MemberBlockers, Others
  <2>. QED
    BY <1>2, <1>4, <1>6, <2>1 DEF Rank
<1>7. CASE pc[r] \in {"deleteLapsed", "deleteInvitation", "lockInvitation"}
  <2>1. \E i \in Invitations : invitationLock[i] = d
    BY <1>1, <1>2, <1>7
    DEF Waits, InvitationBlockers, Others, LapsedPending, Selected, ControlInv
  <2>. QED
    BY <1>5, <1>7, <2>1 DEF Rank
<1>8. CASE pc[r] = "insertInvitation"
  <2>1. pendingLock[c.p][InvitationEmail[c.i]] = d /\ d # r
    BY <1>3, <1>8 DEF Waits, PendingBlockers, Others
  <2>2. /\ c.p = call[d].p /\ InvitationEmail[c.i] = InvitationEmail[call[d].i]
        /\ pc[d] \in {"insertInvitation", "audit", "shareProject", "commit"}
    BY <1>2, <1>8, <2>1 DEF PendersInv
  <2>3. Rank(d) = 2
    BY <2>1, <2>2 DEF Rank
  <2>4. Rank(r) = 1
    BY <1>8, <2>1 DEF Rank
  <2>. QED
    BY <2>3, <2>4
<1>9. CASE pc[r] = "insertMember"
  <2>1. memberLock[c.p][c.u] = d
    BY <1>3, <1>9 DEF Waits, MemberBlockers, Others
  <2>. QED
    BY <1>2, <1>4, <1>9, <2>1 DEF Rank
<1>. QED
  BY <1>2, <1>3, <1>6, <1>7, <1>8, <1>9 DEF Waits

(* A request that waits for itself through others would have come further in *)
(* the order than it has.                                                    *)
LEMMA NoCycle ==
    ASSUME TransactionsInv, PendersInv
    PROVE  DeadlocksNeedADeletion
<1>. SUFFICES ASSUME \A d \in Requests : ~(call[d].op = "DeleteProject" /\ Running(d)),
                     NEW r \in Requests, Deadlocked(r)
              PROVE  FALSE
  BY DEF DeadlocksNeedADeletion
<1>. DEFINE S == { d \in Requests : Rank(r) < Rank(d) }
<1>1. \A d \in Requests : Rank(d) \in {0, 1, 2}
  BY DEF Rank
<1>2. ASSUME NEW d \in Requests, NEW e \in Blockers(d) PROVE e \in Requests /\ Rank(d) < Rank(e)
  BY WaitingGoesUp DEF Blockers
<1>. HIDE DEF Rank
<1>3. Blockers(r) \subseteq S /\ \A d \in S : Blockers(d) \subseteq S
  BY <1>1, <1>2
<1>4. r \in S
  BY <1>3 DEF Deadlocked
<1>. QED
  BY <1>1, <1>4

(* Whatever removals, leaves, invitations, revocations and acceptances run,  *)
(* none of them is failed for a deadlock unless a project is being deleted.  *)
THEOREM OnlyDeletionsDeadlock == Spec => []DeadlocksNeedADeletion
<1>1. SharingInv => DeadlocksNeedADeletion
  BY NoCycle DEF SharingInv
<1>. QED
  BY <1>1, SharingInvariant, PTL
=============================================================================
