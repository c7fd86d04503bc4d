---------------------------- MODULE VersionedRows ----------------------------
(***************************************************************************)
(* A project, its services and their resources: rows with a version, which *)
(* members of the project create, update and delete concurrently           *)
(* (postgres-project-tenancy/internal/store/services.go,                   *)
(* resources_audit.go and users_projects.go).  An update or a deletion     *)
(* names in If-Match the version it is meant for.                          *)
(*                                                                         *)
(* The rows are a tree, by the foreign keys; siblings have distinct names  *)
(* (project_service.slug, service_resource.resource_key).  As in           *)
(* ProjectSharing a request is a READ COMMITTED transaction, a step is a   *)
(* statement or the part of one up to the next wait, and what it wrote is  *)
(* what it has locked until it commits.  Members come and go by the        *)
(* transactions of ProjectSharing, which are single steps here.            *)
(***************************************************************************)
EXTENDS Naturals, FiniteSets

CONSTANTS
    Users, Owner,
    Project, Services, Resources,
    ServiceOf,      \* the service a resource id is drawn for
    Names,          \* slugs and resource keys
    Requests,       \* the requests of a behaviour, each served once
    Operations,     \* the kinds of requests, and
    Targets,        \* the rows they are about (both bound a run)
    None

AllOperations == { "Create", "Update", "Delete" }

Children == Services \cup Resources
Rows == {Project} \cup Children

ASSUME RowsAssumption ==
    /\ Project \notin Children /\ Services \cap Resources = {}
    /\ ServiceOf \in [Resources -> Services]
    /\ Owner \in Users
    /\ Operations \subseteq AllOperations /\ Targets \subseteq Rows
    /\ None \notin Users \cup Rows \cup Names \cup Requests

ASSUME RequestsAssumption == IsFiniteSet(Requests)

VARIABLES
    state,      \* "unused", "live" or "deleted", by row
    version,    \* its version
    name,       \* its slug or resource key; that of the project is not unique
    members,    \* the users with a row in project_member
    log,        \* the audit events of the project
    call,       \* the operation of a request, its caller and its arguments
    pc,         \* what its transaction does next
    code,       \* the answer: the error of errors.go, or "ok"
    lock,       \* the transaction that inserts, updates or deletes a row
    share,      \* those that hold FOR KEY SHARE on it, for a foreign key
    entry       \* the one with an uncommitted new name under a parent

tables == <<state, version, name, members, log>>
locks  == <<lock, share, entry>>
vars   == <<tables, call, pc, code, locks>>

-----------------------------------------------------------------------------
(* Rows, calls and events *)

Parent(x) == IF x \in Resources THEN ServiceOf[x] ELSE Project

Siblings(x) == { y \in Children \ {x} : x # Project /\ Parent(y) = Parent(x) }

Live == { x \in Rows : state[x] = "live" }

(* The bound of If-Match: a row passes it when the last request has updated  *)
(* it, and nobody is left to name a later version.                           *)
MaxVersion == Cardinality(Requests)

Calls == [ op : AllOperations \cup {"none"}, u : Users \cup {None},
           x : Rows \cup {None}, v : Nat, n : Names \cup {None} ]

(* op by u on row x, for version v (If-Match); n is the name that a new row  *)
(* gets, or the one that a patch sets, None when it sets none.               *)
Call(op, u, x, v, n) == [op |-> op, u |-> u, x |-> x, v |-> v, n |-> n]

NoCall == Call("none", None, None, 0, None)

Steps == { "idle", "insert", "claim", "shareParent", "write", "rowState",
           "cascade", "audit", "shareProject", "commit", "done" }

Codes == { "none", "ok", "notFound", "forbidden", "conflict", "precondition",
           "validation", "internal" }

(* v is the If-Match of the request, which the audit row does not keep.      *)
Events == [ req : Requests, op : AllOperations, x : Rows, v : Nat ]

Holder == Requests \cup {None}

-----------------------------------------------------------------------------
(* Row level security *)

Visible(u, x) == state[x] = "live" /\ u \in members

(* project_update_owner and project_delete_owner; project_service_* and      *)
(* service_resource_* for members.                                           *)
Writable(u, x) == Visible(u, x) /\ (x = Project => u = Owner)

-----------------------------------------------------------------------------
(* Transactions and locks *)

Goto(r, step) == pc' = [pc EXCEPT ![r] = step] /\ UNCHANGED <<code, locks>>

Advance(r, step) == pc' = [pc EXCEPT ![r] = step] /\ UNCHANGED code

Free(h, r) == IF h = r THEN None ELSE h

Release(r) ==
    /\ lock' = [x \in Rows |-> Free(lock[x], r)]
    /\ share' = [x \in Rows |-> share[x] \ {r}]
    /\ entry' = [x \in Rows |-> [n \in Names |-> Free(entry[x][n], r)]]

(* A bug: withUserTx without the deferred Rollback. *)
AnswerWithoutRollback(r, c) ==
    /\ pc' = [pc EXCEPT ![r] = "done"]
    /\ code' = [code EXCEPT ![r] = c]
    /\ IF c # "ok" THEN UNCHANGED locks ELSE Release(r)

(* COMMIT or ROLLBACK, and the answer to the request. *)
Answer(r, c) ==
    /\ pc' = [pc EXCEPT ![r] = "done"]
    /\ code' = [code EXCEPT ![r] = c]
    /\ Release(r)

Renames(d, x) == call[d].op = "Update" /\ call[d].n \notin {None, name[x]}

(* d takes x for itself alone: it deletes x, or its SET list names slug or   *)
(* resource_key, key columns, as every update of a service or resource does; *)
(* touch_versioned_row is a BEFORE trigger, for which the row is locked      *)
(* before PostgreSQL sees whether they change.                               *)
Exclusive(d, x) == call[d].op = "Delete" \/ (call[d].op = "Update" /\ x \in Children)

Others(r, S) == S \ {r, None}

RowBlockers(r, x) ==
    Others(r, {lock[x]} \cup (IF Exclusive(r, x) THEN share[x] ELSE {}))

(* A bug: rows without the foreign key to their parent. *)
NoForeignKey(r, x) == {}

KeyShareBlockers(r, x) == { d \in Others(r, {lock[x]}) : Exclusive(d, x) }

(* A bug: the name is looked up, not claimed in a unique index. *)
NoUniqueIndex(r, x, n) == {}

(* A unique index waits for whoever inserts the name or has its row locked.  *)
NameBlockers(r, x, n) ==
    Others(r, {entry[Parent(x)][n]} \cup
              {lock[y] : y \in { z \in Siblings(x) \cap Live : name[z] = n }})

(* The rows that ON DELETE CASCADE reaches next.                             *)
Cascaded(r) ==
    { y \in Children \cap Live : lock[Parent(y)] = r /\ lock[y] # r }

Matches(r) == call[r].x \in Live /\ version[call[r].x] = call[r].v

(* The next step of r waits for the end of d.                                *)
Waits(r, d) ==
    LET x == call[r].x IN
    \/ pc[r] = "claim" /\ d \in NameBlockers(r, x, call[r].n)
    \/ pc[r] = "shareParent" /\ d \in KeyShareBlockers(r, Parent(x))
    \/ pc[r] = "write" /\ Matches(r) /\ d \in RowBlockers(r, x)
    \/ pc[r] = "cascade" /\ \E y \in Cascaded(r) : d \in RowBlockers(r, y)
    \/ pc[r] = "shareProject" /\ d \in KeyShareBlockers(r, Project)

Blockers(r) == { d \in Requests : Waits(r, d) }

At(r, step) == pc[r] = step /\ Blockers(r) = {}

-----------------------------------------------------------------------------
(* Requests: the first statement of each operation *)

Serve(r, c) ==
    /\ pc[r] = "idle"
    /\ c.op \in Operations /\ c.x \in Targets
    /\ call' = [call EXCEPT ![r] = c]
    /\ UNCHANGED tables

(* CreateService and CreateResource: ensureMember and ensureService, each    *)
(* true of a visible parent.                                                 *)
Create(r, u, x, n) ==
    /\ Serve(r, Call("Create", u, x, 0, n))
    /\ state[x] = "unused" /\ state[Parent(x)] # "unused"
    /\ \A d \in Requests : call[d].x # x
    /\ IF Visible(u, Parent(x)) THEN Goto(r, "insert") ELSE Answer(r, "notFound")

(* UPDATE and DELETE ... WHERE version = $3: a row that is not there, not    *)
(* writable or of another version when the statement starts is not waited    *)
(* for.  The access is not looked at again in the statement.                 *)
Start(r, u, x, v) ==
    /\ state[x] # "unused"
    /\ IF Writable(u, x) /\ version[x] = v THEN Goto(r, "write") ELSE Goto(r, "rowState")

Update(r, u, x, v, n) ==
    /\ Serve(r, Call("Update", u, x, v, n))
    /\ x = Project => n = None
    /\ Start(r, u, x, v)

Delete(r, u, x, v) ==
    /\ Serve(r, Call("Delete", u, x, v, None))
    /\ Start(r, u, x, v)

-----------------------------------------------------------------------------
(* INSERT: the row level check, the unique index, the foreign key *)

(* The policy's 42501 is none of the messages that classify knows.           *)
Insert(r) ==
    /\ At(r, "insert")
    /\ IF call[r].u \in members THEN Goto(r, "claim") ELSE Answer(r, "internal")
    /\ UNCHANGED <<tables, call>>

Taken(x, n) == \E y \in Siblings(x) \cap Live : name[y] = n

(* The unique index, for the name of a new row or of a renamed one.          *)
Claim(r) ==
    LET c == call[r] IN
    /\ At(r, "claim")
    /\ IF Taken(c.x, c.n)
       THEN Answer(r, "conflict")
       ELSE /\ entry' = [entry EXCEPT ![Parent(c.x)][c.n] = r]
            /\ Advance(r, IF c.op = "Create" THEN "shareParent" ELSE "audit")
            /\ UNCHANGED <<lock, share>>
    /\ UNCHANGED <<tables, call>>

(* The foreign key of a new row: it waits for a deletion of the parent and   *)
(* fails (23503) once the parent is gone.                                    *)
ShareParent(r) ==
    LET p == Parent(call[r].x) IN
    /\ At(r, "shareParent")
    /\ IF p \in Live
       THEN /\ share' = [share EXCEPT ![p] = @ \cup {r}]
            /\ Advance(r, "audit")
            /\ UNCHANGED <<lock, entry>>
       ELSE Answer(r, "validation")
    /\ UNCHANGED <<tables, call>>

-----------------------------------------------------------------------------
(* UPDATE and DELETE *)

AfterWrite(r) ==
    IF call[r].op = "Delete" THEN "cascade"
    ELSE IF Renames(r, call[r].x) THEN "claim" ELSE "audit"

(* A bug: WHERE without the version. *)
WriteAnyVersion(r) ==
    /\ At(r, "write")
    /\ IF call[r].x \in Live
       THEN /\ lock' = [lock EXCEPT ![call[r].x] = r]
            /\ Advance(r, AfterWrite(r))
            /\ UNCHANGED <<share, entry>>
       ELSE Goto(r, "rowState")
    /\ UNCHANGED <<tables, call>>

(* After a wait the WHERE clause is applied again, to the row as it is now.  *)
Write(r) ==
    /\ At(r, "write")
    /\ IF Matches(r)
       THEN /\ lock' = [lock EXCEPT ![call[r].x] = r]
            /\ Advance(r, AfterWrite(r))
            /\ UNCHANGED <<share, entry>>
       ELSE Goto(r, "rowState")
    /\ UNCHANGED <<tables, call>>

(* A bug: no error when the row read again has the version asked for. *)
StateErrorNil(u, x, v) ==
    IF ~Visible(u, x) THEN "notFound"
    ELSE IF x = Project /\ u # Owner THEN "forbidden"
    ELSE IF version[x] # v THEN "precondition" ELSE "ok"

StateError(u, x, v) ==
    IF ~Visible(u, x) THEN "notFound"
    ELSE IF x = Project /\ u # Owner THEN "forbidden"
    ELSE IF version[x] # v THEN "precondition" ELSE "conflict"

(* projectMutationState, versionedServiceState, versionedResourceState: why  *)
(* no row matched, read again.                                               *)
RowState(r) ==
    /\ At(r, "rowState")
    /\ Answer(r, StateError(call[r].u, call[r].x, call[r].v))
    /\ UNCHANGED <<tables, call>>

(* A bug: rows that do not go with their parent. *)
NoCascade(r) ==
    /\ pc[r] = "cascade"
    /\ Goto(r, IF call[r].x = Project THEN "commit" ELSE "audit")
    /\ UNCHANGED <<tables, call>>

(* ON DELETE CASCADE, one level of the tree after the other; the rows of a   *)
(* level are locked together, once nobody else has one of them.              *)
Cascade(r) ==
    /\ At(r, "cascade")
    /\ \/ /\ Cascaded(r) # {}
          /\ lock' = [y \in Rows |-> IF y \in Cascaded(r) THEN r ELSE lock[y]]
          /\ UNCHANGED <<pc, code, share, entry>>
       \/ /\ Cascaded(r) = {}
          /\ Goto(r, IF call[r].x = Project THEN "commit" ELSE "audit")
    /\ UNCHANGED <<tables, call>>

-----------------------------------------------------------------------------
(* write_project_audit_event, and COMMIT *)

Audit(r) ==
    /\ At(r, "audit")
    /\ IF call[r].u \in members THEN Goto(r, "shareProject") ELSE Answer(r, "forbidden")
    /\ UNCHANGED <<tables, call>>

ShareProject(r) ==
    /\ At(r, "shareProject")
    /\ IF Project \in Live
       THEN /\ share' = [share EXCEPT ![Project] = @ \cup {r}]
            /\ Advance(r, "commit")
            /\ UNCHANGED <<lock, entry>>
       ELSE Answer(r, "validation")
    /\ UNCHANGED <<tables, call>>

Record(r) ==
    log' = log \cup {[req |-> r, op |-> call[r].op, x |-> call[r].x, v |-> call[r].v]}

CommitCreate(r) ==
    LET c == call[r] IN
    /\ c.op = "Create"
    /\ state' = [state EXCEPT ![c.x] = "live"]
    /\ version' = [version EXCEPT ![c.x] = 1]
    /\ name' = [name EXCEPT ![c.x] = c.n]
    /\ Record(r)
    /\ UNCHANGED members

(* The trigger touch_versioned_row sets version = OLD.version + 1.           *)
CommitUpdate(r) ==
    LET c == call[r] IN
    /\ c.op = "Update"
    /\ version' = [version EXCEPT ![c.x] = @ + 1]
    /\ name' = IF c.n = None THEN name ELSE [name EXCEPT ![c.x] = c.n]
    /\ Record(r)
    /\ UNCHANGED <<state, members>>

(* A bug: a deletion without its audit event. *)
CommitDeleteUnaudited(r) ==
    /\ call[r].op = "Delete"
    /\ state' = [x \in Rows |-> IF lock[x] = r THEN "deleted" ELSE state[x]]
    /\ IF call[r].x = Project THEN members' = {} /\ log' = {}
                              ELSE UNCHANGED <<members, log>>
    /\ UNCHANGED <<version, name>>

(* With the project go its members and its audit events.                     *)
CommitDelete(r) ==
    /\ call[r].op = "Delete"
    /\ state' = [x \in Rows |-> IF lock[x] = r THEN "deleted" ELSE state[x]]
    /\ IF call[r].x = Project
       THEN members' = {} /\ log' = {}
       ELSE Record(r) /\ UNCHANGED members
    /\ UNCHANGED <<version, name>>

(* COMMIT, which withUserTx answers with its result, or with the error of    *)
(* tx.Commit when the connection breaks, or the context ends, after the      *)
(* server has committed.                                                     *)
Commit(r) ==
    /\ At(r, "commit")
    /\ CommitCreate(r) \/ CommitUpdate(r) \/ CommitDelete(r)
    /\ \E c \in {"ok", "internal"} : Answer(r, c)
    /\ UNCHANGED call

-----------------------------------------------------------------------------
(* The environment: members who join, leave or are removed, lost             *)
(* connections, deadlock detection.                                          *)

(* A membership has a foreign key to the project and an audit event: it does *)
(* not change while the project is being deleted.                            *)
ProjectShared ==
    Project \in Live /\ \A d \in Requests \cap {lock[Project]} : ~Exclusive(d, Project)

Join(u) ==
    /\ ProjectShared /\ u \notin members
    /\ members' = members \cup {u}
    /\ UNCHANGED <<state, version, name, log, call, pc, code, locks>>

Depart(u) ==
    /\ ProjectShared /\ u \in members \ {Owner}
    /\ members' = members \ {u}
    /\ UNCHANGED <<state, version, name, log, call, pc, code, locks>>

Running(r) == pc[r] \notin { "idle", "done" }

(* A statement fails, or the connection before COMMIT is executed: the       *)
(* transaction is rolled back.                                               *)
Abort(r) ==
    /\ Running(r)
    /\ Answer(r, "internal")
    /\ UNCHANGED <<tables, call>>

(* r waits, through others, for itself.                                      *)
Deadlocked(r) ==
    \A S \in SUBSET Requests :
        Blockers(r) \subseteq S /\ (\A d \in S : Blockers(d) \subseteq S) => r \in S

(* 40P01, which classify passes through: the API answers with 500.           *)
DeadlockVictim(r) ==
    /\ Running(r)
    /\ Deadlocked(r)
    /\ Answer(r, "internal")
    /\ UNCHANGED <<tables, call>>

-----------------------------------------------------------------------------
(* A live project with any services and resources, at their first version.   *)

InitRows ==
    /\ state \in [Rows -> {"unused", "live"}]
    /\ state[Project] = "live"
    /\ \A x \in Live \cap Children : state[Parent(x)] = "live"
    /\ name \in [Rows -> Names \cup {None}]
    /\ \A x \in Rows : name[x] # None <=> x \in Live \cap Children
    /\ \A x \in Live, y \in Live : y \in Siblings(x) => name[x] # name[y]

Init ==
    /\ InitRows
    /\ version = [x \in Rows |-> IF x \in Live THEN 1 ELSE 0]
    /\ members = Users
    /\ log = {}
    /\ call = [r \in Requests |-> NoCall]
    /\ pc = [r \in Requests |-> "idle"]
    /\ code = [r \in Requests |-> "none"]
    /\ lock = [x \in Rows |-> None]
    /\ share = [x \in Rows |-> {}]
    /\ entry = [x \in Rows |-> [n \in Names |-> None]]

Arrive(r) ==
    \E u \in Users :
        \/ \E x \in Children, n \in Names : Create(r, u, x, n)
        \/ \E x \in Rows, v \in 1..MaxVersion, n \in Names \cup {None} : Update(r, u, x, v, n)
        \/ \E x \in Rows, v \in 1..MaxVersion : Delete(r, u, x, v)

Step(r) ==
    \/ Insert(r)
    \/ Claim(r)
    \/ ShareParent(r)
    \/ Write(r)
    \/ RowState(r)
    \/ Cascade(r)
    \/ Audit(r)
    \/ ShareProject(r)
    \/ Commit(r)

Next ==
    \/ \E r \in Requests : Arrive(r) \/ Step(r) \/ DeadlockVictim(r) \/ Abort(r)
    \/ \E u \in Users : Join(u) \/ Depart(u)

Spec == Init /\ [][Next]_vars

(* As in ProjectSharing: the pool runs what can run, PostgreSQL looks for    *)
(* deadlocks, and nobody has to call, to join or to leave.                   *)
Fairness == \A r \in Requests : WF_vars(Step(r)) /\ WF_vars(DeadlockVictim(r))

FairSpec == Spec /\ Fairness

=============================================================================
