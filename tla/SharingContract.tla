--------------------------- MODULE SharingContract ---------------------------
(***************************************************************************)
(* What sharing promises a caller, without transactions: every operation   *)
(* takes effect at one instant, on all the tables it concerns, and only    *)
(* when it is allowed then.                                                *)
(***************************************************************************)
CONSTANTS Users, Emails, Projects, Invitations, VerifiedEmail,
          InvitationProject, InvitationEmail, None

VARIABLES live, owner, members, status

contractVars == <<live, owner, members, status>>

Pending(p, e) ==
    { i \in Invitations : /\ status[i] = "pending"
                          /\ InvitationProject[i] = p
                          /\ InvitationEmail[i] = e }

Rows(p) == { i \in Invitations : /\ InvitationProject[i] = p
                                 /\ status[i] \in {"pending", "accepted"} }

(* The tables are consistent: an owner is a member, a project that is gone   *)
(* has no rows, and an email has one pending invitation per project.         *)
Consistent ==
    /\ \A p \in live : owner[p] \in members[p]
    /\ \A p \in Projects \ live : members[p] = {} /\ Rows(p) = {}
    /\ \A p \in Projects, e \in Emails : \A i, j \in Pending(p, e) : i = j

ContractInit ==
    /\ live \in SUBSET Projects
    /\ owner \in [Projects -> Users \cup {None}]
    /\ members \in [Projects -> SUBSET Users]
    /\ status \in [Invitations -> {"unused", "pending"}]
    /\ \A p \in Projects : p \in live <=> owner[p] # None
    /\ Consistent

(* A new project starts with its owner as its only member.                   *)
Create(p, u) ==
    /\ owner[p] = None
    /\ live' = live \cup {p}
    /\ owner' = [owner EXCEPT ![p] = u]
    /\ members' = [members EXCEPT ![p] = {u}]
    /\ UNCHANGED status

(* A project goes with everything in it.                                     *)
Delete(p) ==
    /\ p \in live
    /\ live' = live \ {p}
    /\ members' = [members EXCEPT ![p] = {}]
    /\ status' = [i \in Invitations |-> IF i \in Rows(p) THEN "deleted" ELSE status[i]]
    /\ UNCHANGED owner

(* A member other than the owner is removed or leaves.                       *)
Depart(p, m) ==
    /\ p \in live /\ m \in members[p] /\ m # owner[p]
    /\ members' = [members EXCEPT ![p] = @ \ {m}]
    /\ UNCHANGED <<live, owner, status>>

(* A new invitation replaces the one pending for its email, if any.          *)
Issue(i) ==
    LET p == InvitationProject[i] IN
    /\ p \in live /\ status[i] = "unused"
    /\ status' = [j \in Invitations |->
          IF j = i THEN "pending"
          ELSE IF j \in Pending(p, InvitationEmail[i]) THEN "deleted" ELSE status[j]]
    /\ UNCHANGED <<live, owner, members>>

Withdraw(i) ==
    /\ status[i] \in {"pending", "accepted"}
    /\ status' = [status EXCEPT ![i] = "deleted"]
    /\ UNCHANGED <<live, owner, members>>

(* The invited user spends the invitation and joins.  One who was a member   *)
(* already when the acceptance looked does not join again, and may have been *)
(* removed since.                                                            *)
Accept(i, u) ==
    LET p == InvitationProject[i] IN
    /\ p \in live /\ status[i] = "pending"
    /\ VerifiedEmail[u] = InvitationEmail[i]
    /\ status' = [status EXCEPT ![i] = "accepted"]
    /\ \/ u \notin members[p] /\ members' = [members EXCEPT ![p] = @ \cup {u}]
       \/ UNCHANGED members
    /\ UNCHANGED <<live, owner>>

ContractNext ==
    \/ \E p \in Projects, u \in Users : Create(p, u) \/ Depart(p, u)
    \/ \E p \in Projects : Delete(p)
    \/ \E i \in Invitations : Issue(i) \/ Withdraw(i)
    \/ \E i \in Invitations, u \in Users : Accept(i, u)

ContractSpec == ContractInit /\ [][ContractNext]_contractVars

=============================================================================
