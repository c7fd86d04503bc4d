----------------------- MODULE VersionedRowsProperties -----------------------
(***************************************************************************)
(* What VersionedRows promises: its type, the version chain, the names and *)
(* the tree, and that it implements RowTreeContract.                       *)
(***************************************************************************)
EXTENDS VersionedRows

TablesOK ==
    /\ state \in [Rows -> {"unused", "live", "deleted"}]
    /\ version \in [Rows -> Nat]
    /\ name \in [Rows -> Names \cup {None}]
    /\ members \in SUBSET Users
    /\ log \in SUBSET Events

RequestsOK ==
    /\ call \in [Requests -> Calls]
    /\ pc \in [Requests -> Steps]
    /\ code \in [Requests -> Codes]

LocksOK ==
    /\ lock \in [Rows -> Holder]
    /\ share \in [Rows -> SUBSET Requests]
    /\ entry \in [Rows -> [Names -> Holder]]

(* Every variable has its type.                                              *)
TypeOK == TablesOK /\ RequestsOK /\ LocksOK

Updates(x) == { e \in log : e.op = "Update" /\ e.x = x }

(* No update is lost: the updates of a row in the audit log named the        *)
(* versions 1, 2, ... up to the one before the row's, each once.             *)
UpdatesFormAChain ==
    \A x \in Live :
        /\ { e.v : e \in Updates(x) } = 1..(version[x] - 1)
        /\ \A e, f \in Updates(x) : e.v = f.v => e = f

(* Live siblings have distinct slugs or resource keys, whatever creations    *)
(* and renames race for one.                                                 *)
UniqueNames == \A x \in Live : \A y \in Siblings(x) \cap Live : name[x] # name[y]

(* A live service has a live project and a live resource a live service: no  *)
(* creation slips under a parent that is being deleted.                      *)
NoOrphanRows == \A x \in Live \cap Children : Parent(x) \in Live

(* The answer of a request agrees with the audit log, while the project is   *)
(* there: one that was answered with success has its event, and one that was *)
(* refused (not found, forbidden, a conflict, another version) has none, or  *)
(* its change would survive the refusal.  Only after "internal" the caller   *)
(* does not know: the reply of COMMIT may have been lost.                    *)
LogAgreesWithAnswers ==
    Project \in Live =>
        \A r \in Requests :
            LET logged == \E e \in log : e.req = r IN
            /\ code[r] = "ok" => logged
            /\ logged => code[r] \in {"ok", "internal"}

(* A service or resource that is gone while its project lives was deleted by *)
(* a logged request, by itself or with its service, at its last version.     *)
DeletionIsAudited ==
    Project \in Live =>
        \A x \in Children : state[x] = "deleted" =>
            \E e \in log : /\ e.op = "Delete" /\ e.v = version[e.x]
                           /\ e.x \in {x, Parent(x)}

(* Every request that was taken is answered, although two renames may each   *)
(* wait for the other's old name.                                            *)
EveryRequestIsAnswered == \A r \in Requests : Running(r) ~> pc[r] = "done"

-----------------------------------------------------------------------------
(* The inductive invariant of the transactions *)

(* Where a transaction can be, and with which arguments.                     *)
ControlInv ==
    \A r \in Requests :
        LET o == call[r].op  s == pc[r]  x == call[r].x  n == call[r].n IN
        /\ s = "idle" <=> o = "none"
        /\ o # "none" => x \in Rows
        /\ o = "Create" => x \in Children /\ n \in Names
        /\ o = "Update" /\ x = Project => n = None
        /\ s \in {"insert", "shareParent"} => o = "Create"
        /\ s \in {"write", "rowState"} => o \in {"Update", "Delete"}
        /\ s = "cascade" => o = "Delete"
        /\ s = "claim" => o \in {"Create", "Update"} /\ (o = "Update" => Renames(r, x))
        /\ s \in {"audit", "shareProject"} => ~(o = "Delete" /\ x = Project)

(* The statements of a transaction that has updated or deleted its row.      *)
Written(r) ==
    /\ call[r].op \in {"Update", "Delete"}
    /\ pc[r] \in {"claim", "cascade", "audit", "shareProject", "commit"}

(* It has its row locked, and the row still has the version of If-Match.     *)
WriterLocks ==
    \A r \in Requests :
        Written(r) => lock[call[r].x] = r /\ version[call[r].x] = call[r].v

(* A locked row exists.  An update has no other row locked, a deletion only  *)
(* rows below its own.                                                       *)
LockedIsWritten ==
    \A x \in Rows, r \in Requests :
        lock[x] = r =>
            /\ x \in Live /\ Written(r)
            /\ \/ x = call[r].x
               \/ call[r].op = "Delete" /\ x \in Children /\ lock[Parent(x)] = r

(* A row that is key-shared exists, and nobody else is deleting it.          *)
SharedExists ==
    \A x \in Rows :
        /\ share[x] # {} => x \in Live
        /\ \A r \in Requests :
              lock[x] = r /\ call[r].op = "Delete" => share[x] \subseteq {r}

(* A creation shares its parent, and every transaction that writes to the    *)
(* audit log shares the project, when it commits.                            *)
WritersShare ==
    \A r \in Requests :
        /\ call[r].op = "Create" /\ pc[r] \in {"audit", "shareProject", "commit"} =>
              r \in share[Parent(call[r].x)]
        /\ pc[r] = "commit" /\ ~(call[r].op = "Delete" /\ call[r].x = Project) =>
              r \in share[Project]

(* The row of a creation is not there yet, and nobody else knows its id.     *)
NewRows ==
    \A r \in Requests :
        call[r].op = "Create" /\ Running(r) =>
            /\ state[call[r].x] = "unused"
            /\ \A d \in Requests : call[d].x = call[r].x => d = r

(* A new name is claimed before it is committed, and nobody has it then.     *)
NamesClaimed ==
    \A r \in Requests :
        LET c == call[r] IN
        /\ \/ c.op = "Create" /\ pc[r] \in {"shareParent", "audit", "shareProject", "commit"}
           \/ Renames(r, c.x) /\ pc[r] \in {"audit", "shareProject", "commit"}
        => entry[Parent(c.x)][c.n] = r

ClaimedIsFree ==
    \A p \in Rows, n \in Names :
        entry[p][n] # None =>
            \A y \in Children \cap Live : Parent(y) = p => name[y] # n

(* A deletion has locked everything below its row before it is audited.      *)
CascadeIsComplete ==
    \A r \in Requests :
        call[r].op = "Delete" /\ pc[r] \in {"audit", "shareProject", "commit"} =>
            Cascaded(r) = {}

TreeInv ==
    /\ TypeOK /\ ControlInv /\ WriterLocks /\ LockedIsWritten /\ SharedExists
    /\ WritersShare /\ NewRows /\ NamesClaimed /\ ClaimedIsFree
    /\ CascadeIsComplete /\ NoOrphanRows /\ UniqueNames

(* An event in the log is of a request that was answered, with success or    *)
(* with the error of a lost reply, about a row that has existed; a creation  *)
(* names no version.                                                         *)
LogInv ==
    /\ \A e \in log : /\ pc[e.req] = "done" /\ code[e.req] \in {"ok", "internal"}
                       /\ state[e.x] # "unused"
    /\ \A r \in Requests :
          /\ code[r] = "ok" => pc[r] = "done"
          /\ call[r].op = "Create" => call[r].v = 0

(* What has been logged and answered agrees with the rows.                   *)
HistoryInv ==
    /\ LogInv /\ LogAgreesWithAnswers /\ UpdatesFormAChain
    /\ \A x \in Live : version[x] # 0

(* What a logged deletion was about stays deleted, so that its version is    *)
(* still the one that the deletion named.                                    *)
DeletionInv ==
    DeletionIsAudited /\ \A e \in log : e.op = "Delete" => state[e.x] = "deleted"

RowsInv == TreeInv /\ HistoryInv /\ DeletionInv

-----------------------------------------------------------------------------
Contract == INSTANCE RowTreeContract

(* The transactions implement compare-and-swap on a tree of rows: what is    *)
(* true of the version, the name and the parent when a statement looked is   *)
(* still true when the transaction commits.                                  *)
ImplementsContract == Contract!ContractSpec

=============================================================================
