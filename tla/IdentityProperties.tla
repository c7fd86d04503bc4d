-------------------------- MODULE IdentityProperties --------------------------
(***************************************************************************)
(* What Identity promises: a verified email is on one account, an account  *)
(* is of one identity for good, and a login fails only for a reason.       *)
(***************************************************************************)
EXTENDS Identity

TablesOK ==
    /\ account \in [Identities -> Accounts \cup {None}]
    /\ status \in [Accounts -> {"unused", "active", "disabled"}]
    /\ email \in [Accounts -> Emails \cup {None}]
    /\ version \in [Accounts -> Nat]
    /\ profile \in [Accounts -> Requests \cup {None}]

RequestsOK ==
    /\ call \in [Requests -> Calls]
    /\ user \in [Requests -> Accounts \cup {None}]
    /\ pc \in [Requests -> Steps]
    /\ code \in [Requests -> Codes]

LocksOK ==
    /\ loginLock \in [Identities -> Holder]
    /\ rowLock \in [Accounts -> Holder]
    /\ claim \in [Emails -> Holder]

(* Every variable has its type.                                              *)
TypeOK == TablesOK /\ RequestsOK /\ LocksOK

(* A verified email is on one account, whatever first logins and fills race  *)
(* for it.                                                                   *)
EmailsAreUnique == \A a \in Used, b \in Used : email[a] = email[b] /\ email[a] # None => a = b

(* An identity keeps its account and an account its email: a login never     *)
(* relinks the one or replaces the other, whatever its token says.           *)
NeverRelinked ==
    [][/\ \A i \in Identities : account[i] # None => account'[i] = account[i]
       /\ \A a \in Accounts : email[a] # None => email'[a] = email[a]]_vars

(* A login is refused as a conflict only when another account has the email  *)
(* of its token: never because the same identity logs in twice at once.      *)
ConflictsAreAboutEmail ==
    \A r \in Requests : code[r] = "conflict" =>
        \E a \in Used : /\ email[a] # None /\ email[a] = call[r].e
                        /\ account[call[r].id] # a

(* A profile update that commits was meant for the version that it replaces, *)
(* also when a login has filled in the email meanwhile.                      *)
UpdatesNameTheirVersion ==
    [][\A a \in Accounts : profile'[a] # profile[a] =>
          version[a] = call[profile'[a]].v /\ version'[a] = version[a] + 1]_vars

(* Once an account is disabled, no request that arrives is served for it.    *)
DisabledIsRefused ==
    \A i \in Identities, r \in Requests :
        [](/\ account[i] # None /\ status[account[i]] = "disabled"
           /\ pc[r] = "idle"
           => [](call[r].id = i => code[r] # "ok"))

(* Every request is answered, without a deadlock to break.                   *)
EveryRequestIsAnswered == \A r \in Requests : Running(r) ~> pc[r] = "done"

(* The locks are taken in one order: of any requests in progress, one has no *)
(* other of them to wait for.                                                *)
NobodyDeadlocks ==
    \A S \in SUBSET Requests : S # {} => \E r \in S : \A d \in S : ~Waits(r, d)

(* "Email is a contact and invitation attribute, never an authentication     *)
(* key" (001_init.sql:50): a known identity is not refused over an email.    *)
KnownIdentityLogsIn ==
    [][\A r \in Requests :
          code[r] # "conflict" /\ code'[r] = "conflict" => ~Known(r)]_vars

-----------------------------------------------------------------------------
(* The inductive invariant of the login and of the profile update *)

LoggingIn(r) == pc[r] \in {"fill", "claim", "identity", "resolved"}

(* A request that inserts its account, not yet committed.                    *)
New(r) == LoggingIn(r) /\ user[r] \notin Used

(* Where a request can be, for which identity, account and email.            *)
ControlInv ==
    \A r \in Requests :
        /\ Running(r) => call[r].id \in Identities
        /\ pc[r] # "done" => code[r] = "none"
        /\ pc[r] \in {"idle", "lookup"} => user[r] = None
        /\ LoggingIn(r) => user[r] \in Accounts
        /\ pc[r] \in {"serve", "commit"} => user[r] \in Used
        /\ pc[r] \in {"fill", "claim"} => call[r].e # None
        /\ pc[r] = "fill" => ~New(r)
        /\ pc[r] = "identity" => New(r)

(* A login has its identity locked, and what it has looked up still holds.   *)
LookupHolds ==
    \A r \in Requests : LoggingIn(r) =>
        /\ loginLock[call[r].id] = r
        /\ IF New(r) THEN ~Known(r) ELSE account[call[r].id] = user[r]

(* A drawn account is that of one request; an unused one has no email, and   *)
(* no identity.                                                              *)
DrawnOnce ==
    /\ \A r \in Requests, d \in Requests :
          user[r] = user[d] /\ user[r] \notin Used \cup {None} => r = d
    /\ \A a \in Accounts \ Used : email[a] = None
    /\ \A i \in Identities : account[i] \in Used \cup {None}

(* A locked row is that of the request, and what its WHERE saw still holds.  *)
LockedRows ==
    /\ \A a \in Accounts, r \in Requests : rowLock[a] = r =>
          /\ user[r] = a /\ a \in Used
          /\ \/ pc[r] \in {"claim", "resolved"} /\ email[a] = None
             \/ pc[r] = "commit" /\ Current(r)
    /\ \A r \in Requests :
          pc[r] = "commit" \/ (pc[r] = "claim" /\ ~New(r)) => rowLock[user[r]] = r

(* An email that is about to be stored is claimed, and nobody has it.        *)
ClaimedEmails ==
    /\ \A r \in Requests :
          \/ New(r) /\ pc[r] # "claim" /\ call[r].e # None
          \/ pc[r] = "resolved" /\ rowLock[user[r]] = r
          => call[r].e \in Emails /\ claim[call[r].e] = r
    /\ \A e \in Emails : claim[e] # None => ~Taken(e)

LoginsInv ==
    /\ TypeOK /\ ControlInv /\ LookupHolds /\ DrawnOnce /\ LockedRows
    /\ ClaimedEmails /\ EmailsAreUnique /\ ConflictsAreAboutEmail

(* A lock is that of a login which is far enough to have taken it.           *)
HoldersInv ==
    \A r \in Requests :
        /\ \A i \in Identities : loginLock[i] = r => LoggingIn(r) /\ call[r].id = i
        /\ \A e \in Emails : claim[e] = r => pc[r] \in {"identity", "resolved"}

IdentityInv == LoginsInv /\ HoldersInv

=============================================================================
