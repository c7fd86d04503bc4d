------------------------------- MODULE Identity -------------------------------
(***************************************************************************)
(* Accounts and OIDC logins of the tenancy API.  A request is authenticated *)
(* by its token (internal/auth/auth.go), its account is found or created in *)
(* one transaction (app.resolve_oidc_user), and its operation is served for *)
(* that account in another (internal/store/users_projects.go; here those of *)
(* /v1/me).                                                                *)
(*                                                                         *)
(* A step is a statement or the part of one up to the next wait.  What a   *)
(* transaction wrote is visible once it commits, and what it has written   *)
(* or claimed stays locked until then.                                     *)
(***************************************************************************)
EXTENDS Naturals, FiniteSets

CONSTANTS
    Identities,     \* the pairs of issuer and subject
    Emails,
    Accounts,       \* the ids of accounts, drawn once each
    Requests,       \* the requests of a behaviour, each served once
    Operations,     \* the kinds of requests (bounds a run)
    None

ASSUME IdentityAssumption ==
    /\ Operations \subseteq {"getMe", "updateMe"}
    /\ None \notin Identities \cup Emails \cup Accounts \cup Requests

ASSUME RequestsAssumption == IsFiniteSet(Requests)

VARIABLES
    account,    \* oidc_identity.user_id, by identity
    status,     \* "unused", "active" or "disabled", by account
    email,      \* primary_email, None or verified
    version,
    profile,    \* display_name and avatar_url: the request that set them
    call,       \* what a request asks for
    user,       \* v_user_id, then the user_id of the request's context
    pc,         \* what it does next
    code,       \* its answer
    loginLock,  \* pg_advisory_xact_lock, by identity
    rowLock,    \* the transaction that has updated an account's row
    claim       \* the one with an uncommitted entry for an email

tables == <<account, status, email, version, profile>>
locks  == <<loginLock, rowLock, claim>>
vars   == <<tables, call, user, pc, code, locks>>

-----------------------------------------------------------------------------
(* Requests *)

(* The bound of If-Match: the last version that a request can find, after    *)
(* the account was created, filled with its email, disabled, and updated by  *)
(* every other request.                                                      *)
MaxVersion == Cardinality(Requests) + 2

AllOperations == {"getMe", "updateMe"}

(* The claims of a token: an identity, None when it does not verify, and an  *)
(* email, None when there is none or it is not verified.                     *)
Calls == [ op : AllOperations \cup {"none"}, id : Identities \cup {None},
           e : Emails \cup {None}, v : Nat ]

Call(op, id, e, v) == [op |-> op, id |-> id, e |-> e, v |-> v]

NoCall == Call("none", None, None, 0)

Steps == { "idle", "lookup", "fill", "claim", "identity", "resolved", "serve",
           "commit", "done" }

Codes == { "none", "ok", "unauthorized", "forbidden", "conflict", "precondition",
           "internal" }

Holder == Requests \cup {None}

-----------------------------------------------------------------------------
(* Transactions and locks *)

Free(h, r) == IF h = r THEN None ELSE h

Release(r) ==
    /\ loginLock' = [i \in Identities |-> Free(loginLock[i], r)]
    /\ rowLock' = [a \in Accounts |-> Free(rowLock[a], r)]
    /\ claim' = [e \in Emails |-> Free(claim[e], r)]

Advance(r, step) == pc' = [pc EXCEPT ![r] = step] /\ UNCHANGED code

Goto(r, step) == Advance(r, step) /\ UNCHANGED <<user, locks>>

(* A bug: the connection goes back to the pool with its transaction open. *)
AnswerWithoutRollback(r, c) ==
    /\ pc' = [pc EXCEPT ![r] = "done"]
    /\ code' = [code EXCEPT ![r] = c]
    /\ user' = [user EXCEPT ![r] = IF c = "ok" THEN @ ELSE None]
    /\ IF c = "ok" THEN Release(r) ELSE UNCHANGED locks

(* The end of the request, and of its transaction.                           *)
Answer(r, c) ==
    /\ pc' = [pc EXCEPT ![r] = "done"]
    /\ code' = [code EXCEPT ![r] = c]
    /\ user' = [user EXCEPT ![r] = IF c = "ok" THEN @ ELSE None]
    /\ Release(r)

Others(r, S) == S \ {r, None}

Known(r) == account[call[r].id] # None

Used == { a \in Accounts : status[a] # "unused" }

(* An account that has the email, verified. *)
Taken(e) == e # None /\ \E a \in Used : email[a] = e

(* A bug: the email is looked up, and not claimed in a unique index. *)
NoUniqueIndex(r, e) == {}

(* user_account_verified_email_uq waits for whoever inserts the email, or    *)
(* has updated the row that has it.                                          *)
EmailBlockers(r, e) ==
    Others(r, {claim[e]} \cup {rowLock[a] : a \in { b \in Used : email[b] = e }})

Current(r) == version[user[r]] = call[r].v

RowIsMatched(r) ==
    \/ pc[r] = "fill" /\ email[user[r]] = None
    \/ pc[r] = "serve" /\ call[r].op = "updateMe" /\ Current(r)

(* Two that insert one identity: the second waits for the first.             *)
InsertsIdentity(d, id) ==
    pc[d] = "resolved" /\ call[d].id = id /\ user[d] \notin Used

(* The next step of r waits for the end of d's transaction.                  *)
Waits(r, d) ==
    \/ pc[r] = "lookup" /\ d \in Others(r, {loginLock[call[r].id]})
    \/ pc[r] = "claim" /\ d \in EmailBlockers(r, call[r].e)
    \/ pc[r] = "identity" /\ d # r /\ InsertsIdentity(d, call[r].id)
    \/ RowIsMatched(r) /\ d \in Others(r, {rowLock[user[r]]})

At(r, step) == pc[r] = step /\ \A d \in Requests : ~Waits(r, d)

-----------------------------------------------------------------------------
(* Authenticator.Middleware *)

Arrive(r) ==
    \E op \in Operations, id \in Identities \cup {None},
       e \in Emails \cup {None}, v \in 0..MaxVersion :
        /\ pc[r] = "idle"
        /\ op = "updateMe" <=> v # 0
        /\ call' = [call EXCEPT ![r] = Call(op, id, e, v)]
        /\ IF id = None THEN Answer(r, "unauthorized") ELSE Goto(r, "lookup")
        /\ UNCHANGED tables

-----------------------------------------------------------------------------
(* app.resolve_oidc_user *)

(* The id that gen_random_uuid() draws for a new account.                    *)
Drawn(a) == a \notin Used /\ \A d \in Requests : user[d] # a

(* A bug: the status of the account is not looked at. *)
RefusesNobody(r) == FALSE

(* account_disabled *)
Refuses(r) == Known(r) /\ status[account[call[r].id]] = "disabled"

(* account_linking_required *)
NeedsLinking(r) == ~Known(r) /\ Taken(call[r].e)

(* The account of a known identity, which may lack the email.                *)
Find(r) ==
    /\ Known(r)
    /\ user' = [user EXCEPT ![r] = account[call[r].id]]
    /\ Advance(r, IF call[r].e = None THEN "resolved" ELSE "fill")

(* INSERT INTO app.user_account *)
InsertAccount(r) ==
    /\ ~Known(r)
    /\ \E a \in Accounts : Drawn(a) /\ user' = [user EXCEPT ![r] = a]
    /\ Advance(r, IF call[r].e = None THEN "identity" ELSE "claim")

(* A bug: no advisory lock. *)
LookupUnlocked(r) ==
    /\ At(r, "lookup")
    /\ \/ Refuses(r) /\ Answer(r, "forbidden")
       \/ NeedsLinking(r) /\ Answer(r, "conflict")
       \/ /\ ~Refuses(r) /\ ~NeedsLinking(r)
          /\ Find(r) \/ InsertAccount(r)
          /\ UNCHANGED locks
    /\ UNCHANGED <<tables, call>>

(* The identity is locked, and looked up.                                    *)
Lookup(r) ==
    /\ At(r, "lookup")
    /\ \/ Refuses(r) /\ Answer(r, "forbidden")
       \/ NeedsLinking(r) /\ Answer(r, "conflict")
       \/ /\ ~Refuses(r) /\ ~NeedsLinking(r)
          /\ Find(r) \/ InsertAccount(r)
          /\ loginLock' = [loginLock EXCEPT ![call[r].id] = r]
          /\ UNCHANGED <<rowLock, claim>>
    /\ UNCHANGED <<tables, call>>

(* A bug: UPDATE without primary_email IS NULL. *)
FillAnyEmail(r) ==
    /\ At(r, "fill")
    /\ rowLock[user[r]] \in {None, r}
    /\ rowLock' = [rowLock EXCEPT ![user[r]] = r]
    /\ Advance(r, "claim") /\ UNCHANGED <<user, loginLock, claim>>
    /\ UNCHANGED <<tables, call>>

(* UPDATE app.user_account ... WHERE primary_email IS NULL, applied again    *)
(* after a wait for the row.                                                 *)
Fill(r) ==
    /\ At(r, "fill")
    /\ IF email[user[r]] = None
       THEN /\ rowLock' = [rowLock EXCEPT ![user[r]] = r]
            /\ Advance(r, "claim") /\ UNCHANGED <<user, loginLock, claim>>
       ELSE Goto(r, "resolved")
    /\ UNCHANGED <<tables, call>>

(* The unique index on verified emails, for a new account or a filled one.   *)
Claim(r) ==
    LET e == call[r].e IN
    /\ At(r, "claim")
    /\ IF Taken(e)
       THEN Answer(r, "conflict")
       ELSE /\ claim' = [claim EXCEPT ![e] = r]
            /\ Advance(r, IF user[r] \in Used THEN "resolved" ELSE "identity")
            /\ UNCHANGED <<user, loginLock, rowLock>>
    /\ UNCHANGED <<tables, call>>

(* INSERT INTO app.oidc_identity: UNIQUE (issuer, subject).                  *)
InsertIdentity(r) ==
    /\ At(r, "identity")
    /\ IF Known(r) THEN Answer(r, "conflict") ELSE Goto(r, "resolved")
    /\ UNCHANGED <<tables, call>>

(* The commit of the login: a new account, an email filled in, or only the   *)
(* times and the raw email in its oidc_identity, which nothing here reads.   *)
Resolve(r) ==
    LET a == user[r]  new == a \notin Used IN
    /\ At(r, "resolved")
    /\ account' = [account EXCEPT ![call[r].id] = a]
    /\ status' = [status EXCEPT ![a] = IF new THEN "active" ELSE @]
    /\ email' = [email EXCEPT ![a] = IF new \/ rowLock[a] = r THEN call[r].e ELSE @]
    /\ version' = [version EXCEPT ![a] = IF new \/ rowLock[a] = r THEN @ + 1 ELSE @]
    /\ Advance(r, "serve") /\ UNCHANGED user
    /\ Release(r)
    /\ UNCHANGED <<profile, call>>

-----------------------------------------------------------------------------
(* GetUser and UpdateUser, for the account of the context *)

GetUser(r) ==
    /\ call[r].op = "getMe"
    /\ At(r, "serve")
    /\ Answer(r, "ok")
    /\ UNCHANGED <<tables, call>>

(* A bug: UPDATE without the version. *)
UpdateAnyVersion(r) ==
    /\ call[r].op = "updateMe"
    /\ At(r, "serve")
    /\ rowLock[user[r]] \in {None, r}
    /\ rowLock' = [rowLock EXCEPT ![user[r]] = r]
    /\ Advance(r, "commit") /\ UNCHANGED <<user, loginLock, claim>>
    /\ UNCHANGED <<tables, call>>

(* UPDATE ... WHERE version = $1, applied again after a wait for the row; no *)
(* look at the status.                                                       *)
UpdateUser(r) ==
    /\ call[r].op = "updateMe"
    /\ At(r, "serve")
    /\ IF Current(r)
       THEN /\ rowLock' = [rowLock EXCEPT ![user[r]] = r]
            /\ Advance(r, "commit") /\ UNCHANGED <<user, loginLock, claim>>
       ELSE Answer(r, "precondition")
    /\ UNCHANGED <<tables, call>>

(* COMMIT, whose reply may be lost on its way to withUserTx.                 *)
Commit(r) ==
    /\ At(r, "commit")
    /\ profile' = [profile EXCEPT ![user[r]] = r]
    /\ version' = [version EXCEPT ![user[r]] = @ + 1]
    /\ \E c \in {"ok", "internal"} : Answer(r, c)
    /\ UNCHANGED <<account, status, email, call>>

-----------------------------------------------------------------------------
(* The environment *)

(* An operator sets user_account.status: no code of the API does.            *)
Disable(a) ==
    /\ status[a] = "active" /\ rowLock[a] = None
    /\ status' = [status EXCEPT ![a] = "disabled"]
    /\ version' = [version EXCEPT ![a] = @ + 1]
    /\ UNCHANGED <<account, email, profile, call, user, pc, code, locks>>

Running(r) == pc[r] \notin {"idle", "done"}

(* A lost connection or a cancelled request rolls back; a login that has     *)
(* committed stays, also when the failure hides it from ResolveIdentity.     *)
Abort(r) ==
    /\ Running(r)
    /\ Answer(r, "internal")
    /\ UNCHANGED <<tables, call>>

-----------------------------------------------------------------------------
Init ==
    /\ account = [i \in Identities |-> None]
    /\ status = [a \in Accounts |-> "unused"]
    /\ email = [a \in Accounts |-> None]
    /\ version = [a \in Accounts |-> 0]
    /\ profile = [a \in Accounts |-> None]
    /\ call = [r \in Requests |-> NoCall]
    /\ user = [r \in Requests |-> None]
    /\ pc = [r \in Requests |-> "idle"]
    /\ code = [r \in Requests |-> "none"]
    /\ loginLock = [i \in Identities |-> None]
    /\ rowLock = [a \in Accounts |-> None]
    /\ claim = [e \in Emails |-> None]

Step(r) ==
    \/ Lookup(r)
    \/ Fill(r)
    \/ Claim(r)
    \/ InsertIdentity(r)
    \/ Resolve(r)
    \/ GetUser(r)
    \/ UpdateUser(r)
    \/ Commit(r)

Next ==
    \/ \E r \in Requests : Arrive(r) \/ Step(r) \/ Abort(r)
    \/ \E a \in Accounts : Disable(a)

Spec == Init /\ [][Next]_vars

(* The pool runs a statement that can run.  Nobody has to call, and no       *)
(* deadlock detection is assumed: the locks are taken in one order.          *)
Fairness == \A r \in Requests : WF_vars(Step(r))

FairSpec == Spec /\ Fairness

=============================================================================
