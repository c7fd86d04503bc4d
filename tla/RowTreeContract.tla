--------------------------- MODULE RowTreeContract ---------------------------
(***************************************************************************)
(* What versioned rows promise, without transactions: an update or a       *)
(* deletion that is answered 200 or 204 is a compare-and-swap on the       *)
(* version it named; a row lives under a live parent and its name is its   *)
(* own among its siblings.                                                 *)
(***************************************************************************)
EXTENDS Naturals

CONSTANTS Project, Services, Resources, ServiceOf, Names, Requests, None

VARIABLES state, version, name, log

contractVars == <<state, version, name, log>>

Child == Services \cup Resources
Row == {Project} \cup Child

Above(x) == IF x \in Resources THEN ServiceOf[x] ELSE Project

IsLive(x) == state[x] = "live"

(* The rows that go with x.                                                  *)
Subtree(x) ==
    { y \in Row : IsLive(y) /\ (\/ y = x \/ x = Project
                                \/ y \in Resources /\ ServiceOf[y] = x) }

NameIsFree(x, n) ==
    \A y \in Child \ {x} : IsLive(y) /\ Above(y) = Above(x) => name[y] # n

ContractInit ==
    /\ state \in [Row -> {"unused", "live"}] /\ IsLive(Project)
    /\ \A x \in Child : IsLive(x) => IsLive(Above(x)) /\ NameIsFree(x, name[x])
    /\ name \in [Row -> Names \cup {None}]
    /\ version = [x \in Row |-> IF IsLive(x) THEN 1 ELSE 0]
    /\ log = {}

(* A request is in the audit log once, with the version that it named.       *)
Log(op, x, v) ==
    \E r \in Requests :
        /\ \A e \in log : e.req # r
        /\ log' = log \cup {[req |-> r, op |-> op, x |-> x, v |-> v]}

Insert(x, n) ==
    /\ state[x] = "unused" /\ IsLive(Above(x)) /\ NameIsFree(x, n)
    /\ state' = [state EXCEPT ![x] = "live"]
    /\ version' = [version EXCEPT ![x] = 1]
    /\ name' = [name EXCEPT ![x] = n]
    /\ Log("Create", x, 0)

Swap(x, n) ==
    /\ IsLive(x)
    /\ version' = [version EXCEPT ![x] = @ + 1]
    /\ x \in Child => NameIsFree(x, n)
    /\ name' = [name EXCEPT ![x] = n]
    /\ Log("Update", x, version[x])
    /\ UNCHANGED state

Remove(x) ==
    /\ IsLive(x)
    /\ state' = [y \in Row |-> IF y \in Subtree(x) THEN "deleted" ELSE state[y]]
    /\ IF x = Project THEN log' = {} ELSE Log("Delete", x, version[x])
    /\ UNCHANGED <<version, name>>

ContractNext ==
    \E x \in Row :
        \/ x \in Child /\ \E n \in Names : Insert(x, n)
        \/ \E n \in Names \cup {None} : Swap(x, n)
        \/ Remove(x)

ContractSpec == ContractInit /\ [][ContractNext]_contractVars

=============================================================================
