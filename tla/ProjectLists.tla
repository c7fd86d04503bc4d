----------------------------- MODULE ProjectLists -----------------------------
(***************************************************************************)
(* The lists of the tenancy API (internal/store: ListProjects, ListMembers, *)
(* ListInvitations, ListServices, ListResources, ListAuditEvents) and a     *)
(* client that follows one of them to its end while other transactions     *)
(* commit.  A step is a statement.  A list reads only, so one client is     *)
(* enough: another would not be seen.                                      *)
(***************************************************************************)
EXTENDS KeysetPages

CONSTANTS
    Ids,        \* numbers, in the order of the uuids or bigints they stand for
    MaxTime,    \* bounds the clock
    Limits,     \* values of the parameter limit
    Lists       \* the lists of a run

AllLists == { "projects", "members", "invitations", "closedInvitations",
              "services", "resources", "audit" }

ASSUME ListsAssumption ==
    /\ Ids \subseteq Nat /\ IsFiniteSet(Ids) /\ MaxTime \in Nat
    /\ Limits \subseteq Nat \ {0} /\ Lists \subseteq AllLists

VARIABLES
    list,       \* the list that the client reads
    now,        \* statement_timestamp()
    rows,       \* the committed rows
    open,       \* the rows whose transactions have not ended
    hidden,     \* the committed rows that the filter or the policy keeps back
    drawn,      \* the ids drawn so far
    access,     \* the client passes the list's access check
    pc,         \* "ask", "checked", "done" or "refused"
    cursor,     \* that of the last answer
    page,       \* its items
    listed,     \* the items of all answers
    promised    \* history: the rows visible since the first page

tables == <<now, rows, open, hidden, drawn, access>>
client == <<pc, cursor, page, listed>>
vars   == <<list, tables, client, promised>>

-----------------------------------------------------------------------------
(* The six lists.  Invitations are listed with a filter that a row can only  *)
(* stop passing (status=pending), or only start to (closedInvitations:       *)
(* status=accepted or status=expired).                                       *)

Row == [ id : Ids, at : 0..MaxTime ]

(* Members are listed in the order they joined, the others newest first.     *)
Ascending == list = "members"

(* Rows whose membership, state or status can change.                        *)
Losable  == list \in {"projects", "services", "invitations"}
Gainable == list \in {"projects", "services", "closedInvitations"}

Deletable == list # "audit"

(* What a SELECT returns: the policies are those of its own snapshot.        *)
\* A bug: without row level security, what the access check saw counts.
VisibleWithoutPolicy == rows \ hidden

Visible == IF list = "projects" \/ access THEN rows \ hidden ELSE {}

-----------------------------------------------------------------------------
(* The writers' transactions *)

Init ==
    /\ list \in Lists
    /\ now = 0
    /\ rows = {} /\ open = {} /\ hidden = {} /\ drawn = {}
    /\ access = TRUE
    /\ pc = "ask" /\ cursor = {} /\ page = {} /\ listed = {}
    /\ promised = {}

(* A row keeps the time of the statement that inserted it.  A user who left  *)
(* can join again; every other id is drawn once.                             *)
Insert(id) ==
    /\ IF list = "members" THEN \A r \in rows \cup open : r.id # id
                           ELSE id \notin drawn
    /\ open' = open \cup {[id |-> id, at |-> now]}
    /\ drawn' = drawn \cup {id}
    /\ UNCHANGED <<now, rows, hidden, access>>

Commit(r) ==
    /\ open' = open \ {r}
    /\ rows' = rows \cup {r}
    /\ hidden' = IF list = "closedInvitations" THEN hidden \cup {r} ELSE hidden
    /\ UNCHANGED <<now, drawn, access>>

Rollback(r) ==
    /\ open' = open \ {r}
    /\ UNCHANGED <<now, rows, hidden, drawn, access>>

Delete(r) ==
    /\ Deletable
    /\ rows' = rows \ {r} /\ hidden' = hidden \ {r}
    /\ UNCHANGED <<now, open, drawn, access>>

(* An update, an acceptance, the expiry of an invitation, a share or its end.*)
Hide(r) ==
    /\ Losable /\ r \notin hidden
    /\ hidden' = hidden \cup {r}
    /\ UNCHANGED <<now, rows, open, drawn, access>>

Show(r) ==
    /\ Gainable /\ r \in hidden
    /\ hidden' = hidden \ {r}
    /\ UNCHANGED <<now, rows, open, drawn, access>>

(* The client is removed from the project, or the project or the service is  *)
(* deleted; a member can be added again.                                     *)
LoseAccess ==
    /\ list # "projects" /\ access
    /\ access' = FALSE
    /\ UNCHANGED <<now, rows, open, hidden, drawn>>

RegainAccess ==
    /\ list \in {"members", "services", "resources", "audit"} /\ ~access
    /\ access' = TRUE
    /\ UNCHANGED <<now, rows, open, hidden, drawn>>

Tick ==
    /\ now < MaxTime
    /\ now' = now + 1
    /\ UNCHANGED <<rows, open, hidden, drawn, access>>

Write ==
    /\ UNCHANGED <<list, client>>
    /\ \/ \E id \in Ids : Insert(id)
       \/ \E r \in open : Commit(r) \/ Rollback(r)
       \/ \E r \in rows : Delete(r) \/ Hide(r) \/ Show(r)
       \/ LoseAccess \/ RegainAccess \/ Tick
    /\ promised' = promised \cap Visible'

-----------------------------------------------------------------------------
(* The client's requests *)

(* The first statement of a guarded list; ErrNotFound or ErrForbidden.       *)
CheckAccess ==
    /\ pc = "ask"
    /\ pc' = IF access THEN "checked" ELSE "refused"
    /\ UNCHANGED <<list, tables, cursor, page, listed, promised>>

EnsureOwner == list \in {"invitations", "closedInvitations"} /\ CheckAccess

EnsureMember == list \in {"services", "audit"} /\ CheckAccess

EnsureService == list = "resources" /\ CheckAccess

(* The rows that the SELECT may return.                                      *)
\* A bug: the comparison leaves out the id.
MatchesByTime ==
    { r \in Visible : \A c \in cursor : IF Ascending THEN r.at > c.at ELSE r.at < c.at }

\* A bug: the comparison lets the row of the cursor through.
MatchesInclusive ==
    { r \in Visible : \A c \in cursor : r = c \/ Follows(Ascending, r, c) }

\* A bug: the comparison runs against the order of the list.
MatchesBackwards == AfterCursor(~Ascending, Visible, cursor)

Matches == AfterCursor(Ascending, Visible, cursor)

Answers(limit) == PagesOf(Ascending, Matches, limit)

SelectPage ==
    /\ \E limit \in Limits : \E p \in Answers(limit) :
         /\ page' = p.items
         /\ listed' = listed \cup p.items
         /\ cursor' = p.next
         /\ pc' = IF p.next = {} THEN "done" ELSE "ask"
    /\ promised' = IF cursor = {} THEN Visible ELSE promised
    /\ UNCHANGED <<list, tables>>

ListProjects == list = "projects" /\ pc = "ask" /\ SelectPage

(* app.list_project_members raises P0002 in the snapshot of its SELECT.      *)
ListMembers == list = "members" /\ pc = "ask" /\ access /\ SelectPage

RefuseMembers == list = "members" /\ ~access /\ CheckAccess

ListInvitations ==
    list \in {"invitations", "closedInvitations"} /\ pc = "checked" /\ SelectPage

ListServices == list = "services" /\ pc = "checked" /\ SelectPage

ListResources == list = "resources" /\ pc = "checked" /\ SelectPage

ListAuditEvents == list = "audit" /\ pc = "checked" /\ SelectPage

(* The transaction fails after its check; the client asks again.             *)
Abort ==
    /\ pc = "checked"
    /\ pc' = "ask"
    /\ UNCHANGED <<list, tables, cursor, page, listed, promised>>

StartOver ==
    /\ pc \in {"done", "refused"}
    /\ pc' = "ask" /\ cursor' = {} /\ page' = {} /\ listed' = {} /\ promised' = {}
    /\ UNCHANGED <<list, tables>>

Read ==
    \/ EnsureOwner \/ EnsureMember \/ EnsureService
    \/ ListProjects \/ ListMembers \/ RefuseMembers \/ ListInvitations
    \/ ListServices \/ ListResources \/ ListAuditEvents
    \/ Abort \/ StartOver

Next == Write \/ Read

Spec == Init /\ [][Next]_vars

=============================================================================
