# Specifications of InsightTrack

TLA+ specifications of the services in this repository, the TLC configurations
that model-check them on small instances, and theorems that TLAPS proves for
every value of the constants. Source paths below are relative to the
repository; `tenancy/` abbreviates `postgres-project-tenancy/`.

## 1. The system

| Component | State it keeps | Operations | Talks to |
|---|---|---|---|
| Tenancy API (`tenancy/internal`, `tenancy/migrations`; Go, PostgreSQL) | users and OIDC identities, projects with an owner and a version, members, invitations, services and their resources with versions, an audit log; all rows under row level security | resolve identity, user profile, project CRUD, members, invitations, services, resources, audit events, all cursor-paginated | Keycloak (tokens), an invitation webhook, the frontend |
| Telemetry API (`clickhouse-telemetry-api/internal`; Go, ClickHouse) | append-only metrics, logs and spans with a 30 day TTL | batch ingest (1..1000 rows), filtered lists by keyset cursor, summary | its callers; an authorization token per project |
| Architecture graph API (`architecture-graph-api/src`; TypeScript, Neo4j) | graphs, their nodes and relationships | upsert, list, atomic snapshot replacement, snapshot export, dependency and path queries, natural language questions | Neo4j over HTTP |
| Frontend (`frontend/src`; React) | the Keycloak session and the access token | sign-in, token refresh, calls to the tenancy API; the rest is mock data | Keycloak, the tenancy API |
| Synthetic scans (`packages/synthetic-scans`; Azure Functions) | a table of URLs with the time of their last scan | timer: scan the oldest, upload the results | the scanned sites, storage |
| CRM, health, knowledge graph and CV packages (`packages/*`) | none that outlives a request | adaptors, a data generator, scaffolding | third parties |
| Deployment (`deploy`, `compose.yaml`) | configuration | - | all of the above |

Each API is a process with a connection pool; its requests run concurrently,
and every piece of shared state is in a database. What is hard is therefore
what two transactions (or two statements, or two pages of one list) do to each
other, and what a lost answer, a timeout or a retry leaves behind:

* **Tenancy.** A request checks ownership in one statement and writes in
  another under READ COMMITTED; foreign keys, cascades, unique indexes, row
  locks and row level security decide what the interleaving may do. Correct
  means: an owner never loses the membership; nothing survives its project; an
  email has one open invitation per project; a token is spent once and not
  after its revocation; the audit log accounts for the memberships; an update
  is applied to the version it names; every request is answered.
* **Identity.** Two first logins of one subject make one account; a verified
  email is on one account; a disabled account is refused.
* **Telemetry.** A batch is written part by part, so that one whose INSERT
  failed may be stored in part; only an accepted one is stored completely, and a
  retry may store it twice; a summary is six subqueries without a
  snapshot; pages of a list with a default window shift with the clock.
* **Graph.** A replacement commits as a whole, but a query has no snapshot and
  may see part of it, and an export or an answer takes several queries; a
  timed-out write may have been applied; every relationship's ends exist.
* **Frontend.** The session is initialised once although React mounts twice;
  a refresh that fails signs out.
* **Scans.** Overlapping timers choose the same page; a page that always
  fails stays the oldest.

## 2. What makes each component correct

| Component | It is correct when |
|---|---|
| Project sharing | the owner is a member; nothing outlives its project; one open invitation per email and project; a token is spent once, never after its revocation; the audit log accounts for each membership; a transaction that commits does what its operation may do at that instant; every request is answered |
| Versioned rows | the updates of a row name its versions one after the other; siblings have distinct names; a child has a live parent; a success has its audit event, and an error other than 500 has changed and logged nothing; a cascade is audited |
| Identity | one account per identity, for good; one account per verified email; a refusal has a reason; a disabled account is not served |
| Paginated lists | a row that exists throughout a traversal is listed exactly once, whatever is inserted, committed late, deleted or filtered out between pages; no page without access |
| Telemetry | an accepted batch is stored completely, a refused one not at all; a duplicate has a lost answer as its reason; pages follow each other also when the window moves; a summary counts what was accepted before it |
| Architecture graph | a graph is always one submitted snapshot, stored once and as a whole; relationships stay inside their graph; no answer goes back behind what was acknowledged before its request, puts a path together of two snapshots, or is incomplete when nothing was replaced meanwhile |
| Invitation delivery | a token that was committed is delivered or can be replaced |
| Frontend session | one initialisation; an expired token is refreshed or the user signed out |
| Synthetic scans | every page is scanned again eventually; no page is scanned twice at once |

The first six are modelled; the others are the plan (section 8).

## 3. Modules

Each component has four kinds of module.  `X.tla` is the code: one action per
statement that can wait or be interleaved. `XProperties.tla` states what it
promises, with the inductive invariant as a conjunction of named parts.
`MCX.tla` gives TLC values that a `.cfg` cannot write. `XProofs.tla` holds the
theorems. Four contracts state without transactions, statements or queries what
a component promises, and the component is shown to implement its contract
(`INSTANCE ... WITH` a refinement mapping, the contract's specification as a
property); two components share `PagedListContract`.

| Module | Models |
|---|---|
| `ProjectSharing` | CreateProject, DeleteProject (`store/users_projects.go`), RemoveMember, LeaveProject, CreateInvitation, DeleteInvitation, AcceptInvitation (`store/sharing.go`) with the functions, policies, triggers and foreign keys of `migrations/001_init.sql` they run into |
| `SharingContract` | the same operations as atomic steps on consistent tables |
| `VersionedRows` | UpdateProject, DeleteProject, and create, update and delete of services and resources (`store/services.go`, `store/resources_audit.go`) over the tree project, service, resource |
| `RowTreeContract` | compare-and-swap on a tree of rows, with an audit log |
| `KeysetPages` | the order, the comparison with a cursor, and the cutting of a page, which the lists of both APIs share |
| `ProjectLists` | ListProjects, ListMembers, ListInvitations (open and closed), ListServices, ListResources, ListAuditEvents, and a client that follows their cursors |
| `PagedListContract` | a list that changes between the pages of a reader |
| `Telemetry` | the ingest of metrics, logs and spans (`httpapi/ingest.go`, the inserts of `clickhouse/client.go`), collectors that try again, ClickHouse's parts and TTL |
| `TelemetryQueries` | EXTENDS `Telemetry` and `KeysetPages`: the three lists with their windows, and the summary, composed with the ingest they run against |
| `ArchitectureGraph` | upsert, replacement, export, summary, questions, traces and paths (`repository.ts`, `questions.ts`, `http.ts`), and the transactions of Neo4j behind them |
| `SnapshotContract` | named snapshots, created once and replaced as a whole |
| `Identity` | the authentication middleware, `app.resolve_oidc_user`, GetUser and UpdateUser |

The operators whose comment begins "A bug:" are faulty variants of an action or
helper that no behaviour uses. With one of them in place of the original, the
property named next to it in `PROJECT.json` is violated: it is the evidence
that the property depends on that piece of code.

### How PostgreSQL is modelled

* **A transaction is a request** (`withUserTx`, `store/postgres.go`): `call[r]`
  holds its arguments, `pc[r]` its next statement, `code[r]` its answer, in the
  vocabulary of `errors.go`. A statement that needs a lock another transaction
  holds is disabled (`Waits`, `Blockers`, `At`), and sees the tables as they are
  once it goes on: READ COMMITTED applies its WHERE clause again.
* **What was written is visible at the commit.** The tables change in `Commit`
  only (`CommitX` is what operation X has written); until then the transaction holds the locks its statements took: on rows
  (`memberLock`, `lock`, `rowLock`), on the parent of a row it inserts (`FOR
  KEY SHARE`: `keyShare`, `share`), on entries of unique indexes
  (`pendingLock`, `entry`, `claim`), and the advisory lock of a login
  (`loginLock`). `Answer` ends it and releases them: the deferred `Rollback`.
* **The reply of COMMIT may be lost** (`store/postgres.go:91`): a connection that
  breaks, or a request that is cancelled, while COMMIT is under way makes
  `withUserTx` return an error although the change is stored. `Commit` answers
  with success or with 500 (`"internal"`), the caller cannot tell which it was;
  `Abort`, at any statement and also before COMMIT has reached the server, rolls
  back and answers 500. So 500 is the one answer that leaves open what happened.
* **Row level security** is the predicates `ProjectVisible`, `MemberDeletable`,
  `Writable` and so on, evaluated where a statement applies the policy. A row
  that the policy hides is not found, locked, or waited for.
* **Errors** are the answers of `classify`: a violated foreign key is 422
  (`"validation"`), a unique index 409, a refused INSERT policy (42501) and a
  deadlock (40P01) are messages it does not know, hence 500 (`"internal"`).
* **Identifiers** are drawn once: nobody names a row before it is created.

### How state and actions correspond to the code

*ProjectSharing.* `live`, `owner`, `members`, `status`, `log` are the tables
`project`, `project_member`, `project_invitation` and `project_audit_event`;
`lapsed` says that the clock has passed `expires_at`. The arrival of a request
runs its statements up to the first that writes or may wait (`ensureOwner` and
the early returns). Then `DeleteMemberRow`, `Audit`, `ShareProject`;
`LockProject`, `CascadeMembers`, `CascadeInvitations`, `ProjectMutationState`;
`DeleteLapsed`, `InsertInvitation`; `ReadStatus`, `DeleteInvitationRow`;
`LockInvitation`, `InsertMember`, `MarkAccepted`. RemoveMember deletes and then
audits, LeaveProject audits and then deletes, as in the code. `Call.stale` is
the expiry that AcceptInvitation read at its `statement_timestamp()`, before it
waited. `Lapse` is the clock, `Abort` a lost connection or a cancelled request,
`DeadlockVictim` PostgreSQL's deadlock detection.

*VersionedRows.* A row of the project, a service or a resource is one id with
`state`, `version` and `name` (slug or resource key). `Write` is `UPDATE` or
`DELETE ... WHERE version = $n`; `RowState` is `projectMutationState`,
`versionedServiceState` or `versionedResourceState`, the second look that
explains why no row matched; `Cascade` is `ON DELETE CASCADE`, and locks a level
of the tree in one step where PostgreSQL goes row by row. Every update of a
service or a resource names its key column in SET and takes the row as
exclusively as a deletion does (`Exclusive`), so that no child is created under
it meanwhile; an update of the project does not.
`Join` and `Depart` stand for the member operations of ProjectSharing: what a
transaction here can see of them is that `members` changes, never while the
project is being deleted. A member who departs between a request's audit event
and its commit still has the change applied: the code accepts this, and no
property forbids it. That the owner does not depart is `OwnerIsMember` of
ProjectSharing, proved there.

*Identity.* `Lookup` takes the advisory lock and finds the account or draws one,
`Fill` is the UPDATE that fills in an absent email, `Claim` the unique index on
verified emails, `InsertIdentity` the one on `(issuer, subject)`, `Resolve` the
commit of the login. The operation is a transaction of its own, for the account
that the login found. `Disable` is an operator's UPDATE: no endpoint sets the
status.

*ProjectLists.* `rows` are the committed rows of the list that the client reads,
each a time and an id, `open` those whose transaction has not ended: a row gets
the time of its statement (`Insert`) and appears later (`Commit`), so that times
are committed out of order, and they tie. `hidden` are rows that the filter or
the policy keeps back; which list can lose or gain rows that way, and in which
direction it is sorted, is what `Losable`, `Gainable` and `Ascending` take from
its query. A request is two statements, the access check (`pc` from `"ask"` to
`"checked"`) and the SELECT, and `LoseAccess` may come between them; ListProjects
and ListMembers are one statement. A page is `PagesOf` of what follows the
cursor: `limit + 1` rows are read, the last is dropped. The lists read only and
one traversal does not see another, so there is one client.

*Telemetry.* `store` are the rows in ClickHouse and `pending` those of an INSERT
that it still works on; `answer[c][n]` is the answer to a collector's n-th
attempt. `Ingest` validates the whole batch, draws the ids and sends one INSERT
(`RowsToInsert`). `WritePart` writes the rows of one month: ClickHouse stores an
INSERT by partition, and `GiveUp` may come between two of them.
`AnswerAccepted` needs the whole INSERT; `AnswerFailed` is an error of
ClickHouse or the timeout of `http.Client`, whatever becomes of the INSERT,
which goes on after it. A collector then posts its batch again under new ids.
The fields that are checked apart from the time are one flag (`Malformed`).

*TelemetryQueries.* `Ask` parses `from` and `to` and computes the window of this
request from the clock (`parseWindow`), `SelectPage` is the list's query,
`Aggregate(column)` one of the six subqueries of the summary, in any order, each
on the table as it is then. A time before the first instant of the model is the
first instant (`From`). One tenant is modelled: the project and the attribute
filters are conjuncts on columns that never change, a restriction of the set of
events. The summary's counts of errors and of all log entries are of different
states; no property relates them, and none could.

*ArchitectureGraph.* A node or relationship of Neo4j is a record; a node has an
identity (`by`) besides its key, because DETACH DELETE deletes the nodes that
were matched and not those that have their keys later. A request is a sequence
of queries, `pc[r]` the one it waits for: `GetGraph`, then `ListNodes` and
`ListEdges` for an export, `CountNodes` and `CountEdges` in either order for a
summary (a question of that intent), `GetNode` or `ListNodes` and `FindPaths` for
a trace or another question, `FindPaths` alone for the route `paths`.

A query that reads does so at READ COMMITTED, which in Neo4j is no snapshot.
`sent[r]` is the place in the graph's `history` from which it may meet anything:
the last commit when it was sent, or the one before if that was still being
applied (`Oldest`). It finds all that is in every state since then and any part
of the rest (`Found`); a traversal finds the paths over what has lasted and any
others over relationships that were there at one time or another (`FoundPaths`).
What it returns of these is what ORDER BY and LIMIT leave (`Limited`,
`FirstPaths`), for shortest_path one shortest path between any two nodes that are
connected (`ShortestPaths`).

A query that writes is a transaction `tx[r]` of its own: `SetUpdated` takes the
write lock of the graph's node, `MatchOld` finds the old nodes, `Replace` deletes
them, creates the new ones and commits; the commit is applied, and the lock held,
until `Close`. `UpsertGraph` reads its counts under the lock, when nothing of the
graph is being applied, and its answer has them (`Continue`). `QueryFails`
(timeout, broken connection, an answer that is no JSON) ends the request, 500 or
502, and leaves the transaction, which may commit long after. `history`, `sent`
and `since` are not in the code: they say which states of a graph a query may
meet and a reply may tell of. `reply[r]` is what the queries returned; that a
question leaves out some of the paths by intent (`filteredPaths`) comes after it.

## 4. Runs

| Run | Instance | Asks |
|---|---|---|
| `sharing_pairs` | 2 requests, all 7 operations, 2 projects, 1 invitation | `OwnerIsMember`, `NoOrphans`, the contract, an answer to every request |
| `sharing_triples` | 3 requests, all but CreateProject, 1 project, 2 invitations for one email | `OnePendingPerEmail`, `AcceptedOnce`, `AuditAccountsForMembership`, `DeadlocksNeedADeletion`, the inductive invariant `SharingInv`, `NoAcceptAfterRevoke` |
| `sharing_revoke_race` | DeleteInvitation against AcceptInvitation | violates `AcceptedIsNotRevoked` |
| `sharing_create_project` | CreateProject alone, with PostgreSQL's RETURNING | violates `CreateProjectIsServed` |
| `rows_pairs` | 2 requests, 2 services, 1 resource, 2 names, all rows, one member | `UniqueNames`, `DeletionIsAudited`, the inductive invariant `RowsInv`, an answer to every request, also when slugs are exchanged |
| `rows_triples` | 3 requests on the project and one service, members who come and go, COMMITs whose reply is lost | `UpdatesFormAChain`, `LogAgreesWithAnswers`, the contract |
| `identity_pairs` | 2 requests that log in and read or update the profile, 2 identities, 2 emails, 2 accounts | `EmailsAreUnique`, `ConflictsAreAboutEmail`, the inductive invariant `IdentityInv`, `NeverRelinked`, `UpdatesNameTheirVersion`, `DisabledIsRefused`, an answer to every request |
| `identity_known_login` | 3 logins | violates `KnownIdentityLogsIn` |
| `project_lists` | each list, 4 rows, 2 instants, pages of 1 and 2 | the inductive invariant `ListsInv`, `PagesAreOrdered`, `NoRowWithoutAccess`, the contract |
| `telemetry_ingest` | 2 collectors, batches of 2 and 1 events, 2 attempts each, 2 months, TTL | the inductive invariant `IngestInv`, `AcceptedIsStored`, `RejectedIsNotStored`, `DuplicatesAreResubmissions`, an answer to every batch |
| `telemetry_queries` | 1 collector, 2 events, 2 attempts, 2 months, TTL, windows that are fixed, moving, growing, too long or not yet over, pages of 1 and 2 | the inductive invariant `QueriesInv`, `AcknowledgedIsCounted`, `PagesAreOrdered`, the contract |
| `graph_replacements` | 2 replacements and 1 request of every other kind, 2 graphs, snapshots that are empty, that share keys, that are invalid | the inductive invariant `GraphInv`, `RepliesAreRecent`, the contract |

The runs start from every set of tables that earlier requests can have left (any
owners, members and open invitations; any services and resources with distinct
names), not from an empty database. Identity starts empty: its accounts are
made by the logins of the behaviour.

**Bounds.** Each request is served once, so a behaviour is finite but for its
environment. Two requests show every race of two operations. Three are needed
where a third acts on what two others left (an invitation that lapsed while it
was being accepted, and its replacement; a version moved twice between a read
and a write; two replacements under the queries of a reader). Readers of a graph
change nothing and do not see each other, so that one shows what all of them can
see; its paths have one relationship in the run and any number in the theorems. Three logins meet in `identity_known_login` only; beyond that
the theorems speak of any number. Two projects
let an id name the wrong one; two invitations for one email let them collide;
two siblings and two names let a rename take, and give up, a name. Four rows and
pages of one or two make a list of several pages with a row inserted before,
at and behind the cursor; two instants make ties and late commits. Two months
split a batch, and a TTL of two instants lets one half expire. Two graphs whose
snapshots share node ids let a query that forgets its graph be noticed.
`MaxTime` and `MaxTries` stop the clock and the retries and bound nothing else.
`MaxVersion` bounds the `If-Match` that a request may send: in VersionedRows at
the number of requests, a version that the last one to update leaves behind,
in Identity two more, for the email fill and the disabling.
`Operations` and `Targets` select the requests of a run and bound nothing else.
`ReturningChecked` says whether `INSERT ... RETURNING` applies the SELECT
policy: PostgreSQL's answer is TRUE, and then no project is ever created
(section 7). The other sharing runs set it to FALSE so that the behaviour after
a creation, which the code intends and its documentation promises, is checked too; in all of
them projects also exist from the start. Requests are interchangeable, and so
are graphs; symmetry is used in runs without liveness. Two runs have a VIEW. That of
`sharing_triples` leaves out the answers, which no step reads, nor any of the
run's properties but for their types; that of `graph_replacements` leaves out
what a request was about that ended with an error before it wrote, and, once all
requests have arrived, a graph that none of them names.

**Deadlock is not checked** (`CHECK_DEADLOCK FALSE`): a behaviour in which every
request has been served is over. That no request is left waiting is
`EveryRequestIsAnswered`.

**Fairness.** `WF(Step(r))`: the pool's connection runs the next statement of a
transaction that can run. `WF(DeadlockVictim(r))`: PostgreSQL examines a waiting
transaction after `deadlock_timeout` and fails one in a cycle; the property
needs it, because DeleteProject locks a project before its children while the
other operations lock a child first, and because two services may swap slugs.
Identity assumes no such help: advisory lock, row, index entry are taken in one
order, and the property holds without it. Telemetry assumes only the timeout of
the API's own HTTP client (`clickhouse/client.go:41`): ClickHouse is never
obliged to answer, write or finish. The lists and the graph state no liveness.
Nothing makes a client call, a
connection break, a member join or leave, an invitation lapse or an operator
disable an account.

## 5. Proofs

TLAPS proves, for every number of requests, users, projects, rows, names,
identities, accounts, list rows, page sizes, collectors, batches, graphs and
snapshots:

| Theorem | States |
|---|---|
| `SharingInvariant`, `TypeCorrect` | `Spec => []SharingInv`, `Spec => []TypeOK` of ProjectSharing |
| `OwnerStaysMember`, `NothingOutlivesItsProject` | `[]OwnerIsMember`, `[]NoOrphans` |
| `OneInvitationPending`, `TokensAreSpentOnce`, `MembershipIsAudited` | `[]OnePendingPerEmail`, `[]AcceptedOnce`, `[]AuditAccountsForMembership` |
| `RevokedIsNotAccepted` | the action property `NoAcceptAfterRevoke` |
| `OnlyDeletionsDeadlock` | `[]DeadlocksNeedADeletion` |
| `SharingImplementsContract` | `Spec => ImplementsContract`: ProjectSharing implements SharingContract |
| `RowsInvariant`, `RowsTypeCorrect` | `[]RowsInv`, `[]TypeOK` of VersionedRows |
| `NamesStayUnique`, `NoUpdateIsLost`, `AnswersAreLogged`, `DeletionsAreLogged` | `[]UniqueNames`, `[]UpdatesFormAChain`, `[]LogAgreesWithAnswers`, `[]DeletionIsAudited` |
| `RowsImplementContract` | `Spec => ImplementsContract`: VersionedRows implements RowTreeContract |
| `IdentityInvariant`, `IdentityTypeCorrect` | `[]IdentityInv`, `[]TypeOK` of Identity |
| `EmailsStayUnique`, `ConflictsHaveAReason` | `[]EmailsAreUnique`, `[]ConflictsAreAboutEmail` |
| `AccountsStayLinked`, `ProfileUpdatesAreOptimistic` | the action properties `NeverRelinked`, `UpdatesNameTheirVersion` |
| `DisabledStaysOut` | the temporal property `DisabledIsRefused` |
| `LocksAreOrdered` | `[]NobodyDeadlocks` of Identity |
| `ListsInvariant`, `PagesComeInOrder`, `AccessIsChecked` | `[]ListsInv`, the action properties `PagesAreOrdered`, `NoRowWithoutAccess` of ProjectLists |
| `ListsImplementContract` | ProjectLists implements PagedListContract |
| `IngestInvariant`, `AcceptedStays`, `RejectedLeavesNothing`, `DuplicatesAreExplained` | `[]IngestInv`, `[]AcceptedIsStored`, `[]RejectedIsNotStored`, `[]DuplicatesAreResubmissions` of Telemetry |
| `QueriesInvariant`, `PagesComeInOrder`, `SummariesAreComplete` | `[]QueriesInv`, `PagesAreOrdered`, `[]AcknowledgedIsCounted` of TelemetryQueries |
| `QueriesImplementContract` | the telemetry lists implement PagedListContract |
| `GraphInvariant`, `AnswersAreRecent` | `[]GraphInv`, `[]RepliesAreRecent` of ArchitectureGraph |
| `GraphImplementsContract` | ArchitectureGraph implements SnapshotContract |

**Assumptions.** `IdsAssumption`, `RowsAssumption`, `IdentityAssumption`: ids
are not `None`, the kinds of rows are disjoint, and each id is drawn for one
parent. `OperationsAssumption`: the operations are those of the API.
`EmailAssumption`: a verified email belongs to one account, which Identity
proves (`EmailsStayUnique`). `RequestsAssumption`: finitely many requests, for
the bound of `If-Match`. `ListsAssumption`, `TelemetryAssumption`,
`QueriesAssumption`, `GraphAssumption`: ids and times are numbers, rows and nodes
are finitely many (a page is cut from a finite list), batches are disjoint.
`UuidAssumption`: two draws of `newUUID` differ.

**ProjectSharing.** `SharingInv` has four layers. `ProjectsInv` is about
projects and memberships. `OwnerIsMember` is not inductive: a removal has checked
the owner in an earlier statement; `OwnerInv` keeps what was checked (an owner
never changes, so a departing member is still not the owner). `NoOrphans` is the
argument through the foreign key: a transaction that will commit a row into a
project shares the project's row (`WritersShare`); a deletion that will commit
has it locked (`DeletedIsLocked`); nobody has it locked while it is shared
(`SharedExists`). So a project does not go while somebody writes to it.

`InvitationsInv` is about the invitations. `RowLocks` says, of each transaction,
what it knows of the rows and index entries it has locked: whoever has the index
entry of an email has locked the invitation that is pending for it, if there is
one (`PendingEntries`), and a creation has that entry from its INSERT to its commit
(`CreatorHolds`); an acceptance that goes on has locked an invitation that is still
pending (`AcceptorLocks`, `LockedInvitations`); a revocation has locked its
invitation or found it gone (`RevokerLocks`); a deletion has locked all it cascades
to (`DeleterLocks`). Every part is about what one request has locked, and no
statement or commit writes a row that another request has locked: so a step need
be followed only through the parts of its own request, and a commit hurts no
bystander (`BystanderOfCommit`). From this follow `OnePendingPerEmail` (a creation
replaces, when it commits, all that is pending for its email) and
`SharingImplementsContract` (what the statements established still holds at the
commit, which is one operation of the contract, enabled then).

`LogInv` joins the audit log to the tables. An invitation that a row of the log
accepts is not pending any more, and one that a row revokes is deleted
(`LogAgrees`): an acceptance, which commits on a pending invitation, is the first
(`AcceptedOnce`) and comes after no revocation (`RevokedIsNotAccepted`). A commit
adds to a user's joins or departures exactly when it makes or ends the membership,
and what it locked (`LockedMembers`) says that there was one to end and none to
make: `AuditAccountsForMembership`, once the two sets are known to be finite.

`PendersInv` is what the deadlock theorem needs besides. Without a deletion
in progress nobody locks a project, so that the foreign keys make nobody wait. The
others take an invitation first and an index entry or a membership
after it (`Rank`): who waits is of lower rank than the one it waits for, and
no cycle closes. DeleteProject takes the project before its children and is
what `DeadlockVictim` is for.

**VersionedRows.** A transaction past its UPDATE or DELETE has its row locked at
the version it named (`WriterLocks`); a claimed name is free and stays claimed
to the commit (`NamesClaimed`, `ClaimedIsFree`); a deletion has its whole subtree locked when
it is audited (`CascadeIsComplete`, lemma `WholeSubtree`). `HistoryInv` adds the
log: an event is of a request that was answered, and the updates of a live row
are its versions. `DeletionInv` adds that what a logged deletion was about stays
deleted, so that the version it names is still the row's: an event that accounts
for a missing row goes on doing so; what a cascade takes is accounted for by the
event of the row above it. `RowsInv` is all of
this. The refinement maps the tables to themselves: a commit is one
step of the contract, enabled because of what the locks kept true, and any
other step a stutter.

**Identity.** A login holds the advisory lock of its identity, so what it looked
up still holds (`LookupHolds`): this is why the second of two first logins finds
the account that the first one made and why `InsertIdentity` never conflicts. A
drawn account is one request's (`DrawnOnce`), a row that was matched stays so
(`LockedRows`), and an email that will be stored is claimed and nobody's
(`ClaimedEmails`). `HoldersInv` adds how far the holder of a lock has come. Who waits
is behind the one it waits for in the order of identity, row, email and entry
(`Rank`), so that of any requests the one that has come furthest can go on:
`NobodyDeadlocks`, the reason why liveness assumes no deadlock detection.
`DisabledIsRefused` has a box under a box: `Barred` says how far a request that
arrives after the account was disabled can get, and is kept by every step because
none enables an account again or gives an identity another one (`StaysDisabled`).

**The lists.** `KeysetPagesProofs` proves once, for both APIs, that the
comparison is a strict total order and what a page is: it starts behind the
cursor, has no gap, and ends at the new cursor or at the end of the list. Of a
traversal, `ReadUpToCursor` (part of `ListsInv` and `QueriesInv`) keeps what
makes this enough: all that was listed lies at or before the cursor, and all that
has been there throughout is listed or lies behind it. The cursor's own row may
be gone; only its key is used. For telemetry the same holds with a window that
moves, because a window's start only advances and the order does not depend on
it. The refinement maps a page to `Deliver` and every step of the writers, the
clock or the window to `Change`.

**Telemetry.** What an attempt has posted is on its way, stored, expired or given
up (`NothingVanishes`), and an answer "accepted" excludes the first and the last.
A row names its attempt, so that two rows of one event have attempts of which
the earlier was answered "failed" (`AnswersInOrder`).

**ArchitectureGraph.** The inductive invariant is `GraphInv` together with
`RepliesAreRecent`. The steps of the handler leave the database alone and can
only hurt what is said of their own request (`HandlerStep`, `Untouched`). Of the
transactions only `Replace` changes a graph: it holds the lock (`LocksAreHeld`),
so the nodes it matched are still all of the graph's (`OldIsCurrent`), and what it
leaves is exactly its snapshot (`StoredAfter`). `StoredIsLatest` says that a graph
is the last entry of its history, whose entries are valid and share no node.
What a query meets lies between `sent` and the end of the history, which only
grows, and `sent` is never before `since`, as an acknowledged commit has been
applied: so a reply stays within the places that `Recent` allows. A path that is
put together of relationships from several entries is one of a single entry
(`PathIsOfOne`): two relationships that follow each other share a node, and no two
entries do; the argument takes the first place of the path, if there were one,
whose node is not of the entry that the path begins in. A query that met one entry only has found all of it (`FoundOfOne`).

## 6. What is model-checked only

`EveryRequestIsAnswered` (ProjectSharing, VersionedRows, Identity) and
`EveryBatchIsAnswered` (Telemetry) stay with TLC: they are liveness under
fairness, which this prover does not reach. Of what they need, the absence of
deadlocks is proved for Identity, and for ProjectSharing as long as no project is
being deleted. Every other property that a passing run checks is also a theorem.
`DisabledIsRefused` speaks of requests that arrive after the disabling; of a
request under way, whose login was a transaction of its own, nothing is claimed.

## 7. Findings

* **An accepted invitation can be revoked** (`sharing_revoke_race`).
  DeleteInvitation reads the status (`store/sharing.go:209`) and deletes by id
  (`:223`); the acceptance in between is deleted and audited as revoked, while
  the member stays. `openapi.yaml:331`: "Accepted invitations cannot be revoked
  this way."
* **CreateProject is refused by its own RETURNING**
  (`sharing_create_project`). PostgreSQL applies the SELECT policy to the row
  that RETURNING returns, before the AFTER INSERT trigger has added the owner's
  membership. The answer is 500; `openapi.yaml:109` says "Project created; owner
  membership is created atomically." The model relies here on PostgreSQL's
  documented semantics, not on anything in the repository.
* **A known identity can be locked out by an email** (`identity_known_login`).
  The UPDATE that fills in the email fails on the unique index at every login
  (`001_init.sql:467`); `001_init.sql:50` says "Email is a contact and
  invitation attribute, never an authentication key."

One thing that the code does is worth knowing although no sentence of the
documentation excludes it. **An export can be torn**: `getSnapshot` reads nodes
and relationships in two queries without a snapshot, and a replacement between
them, or one that is being applied while one of them runs, gives part of its
nodes and relationships whose ends are not among them, which the API would refuse
to import (`validation.ts:130`). `RepliesAreRecent` states what remains true. The same is so for the answer to a replacement, which is an export
of what is stored by then.

## 8. Not modelled, and the plan

Left out of the modelled components: fields that no property tells apart
(descriptions, metadata, display names, node kinds and relationship types), the
formats of ids, ETags, cursors and tokens, the JSON of requests and answers, and
the validation of input that precedes the transaction and depends on nothing
else (among it the limits on the size of a batch and of a request). A unit of the
telemetry modules' time is a millisecond, to which the queries and the inserts
truncate their times. A login of a known identity also updates its row in
`oidc_identity`, which no property reads. In the graph API, `listGraphs`, the
single graph, the list of nodes and the single node are one READ query each,
change nothing and return what they found; the names, kinds and texts by which a
question is understood are left out, only the nodes that it is about remain.

Neo4j and PostgreSQL are modelled by what their documentation says, not from
code in this repository; of a commit that is being applied a query of the graph
API may see any part, which is more than Neo4j may really show.

In this order:

1. Proofs: which requests a deadlock of VersionedRows needs (two renames, or a
   deletion); that SharingContract and RowTreeContract, read alone, keep what the
   components promise.
2. Invitation delivery, as a step after the commit of CreateInvitation whose
   failure is only logged.
3. `FrontendAuth` (memoised initialisation, refresh, double mount) and
   `SyntheticScans` (overlapping timers, a page that always fails).

Not planned: configuration and shutdown of the processes, the pages of the
frontend (constant mock data), the demonstration data generators, the adaptors
that make one call to a third party, and the deployment files. They keep no
state that two steps could disagree about.
