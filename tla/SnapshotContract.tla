---------------------------- MODULE SnapshotContract ----------------------------
(***************************************************************************)
(* What the graph API promises of what it stores: a graph is absent or is  *)
(* one snapshot, which is replaced as a whole ("Atomically replaces every  *)
(* architecture node and relationship", openapi.yaml), by a request that   *)
(* asked for it with a valid body, and at most once for each request.      *)
(***************************************************************************)
EXTENDS FiniteSets

CONSTANTS Graphs, Requests, Snapshots, Empty, Absent

VARIABLES
    stored,     \* the snapshot of each graph, or Absent
    asked,      \* what each request has asked for: a graph and a snapshot
    replaced    \* the requests whose snapshot has been stored

contract == <<stored, asked, replaced>>

Asks == [ g : Graphs, s : Snapshots ]

Init ==
    /\ stored \in [Graphs -> {Empty, Absent}]
    /\ asked = [r \in Requests |-> {}]
    /\ replaced = {}

Ask(r) ==
    /\ asked[r] = {} /\ asked'[r] # {}
    /\ \E a \in Asks : asked' = [asked EXCEPT ![r] = {a}]
    /\ UNCHANGED <<stored, replaced>>

Create(g) ==
    /\ stored[g] = Absent
    /\ stored' = [stored EXCEPT ![g] = Empty]
    /\ UNCHANGED <<asked, replaced>>

Replace(r) ==
    /\ r \notin replaced /\ replaced' = replaced \cup {r}
    /\ \E a \in asked[r] :
        stored[a.g] # Absent /\ stored' = [stored EXCEPT ![a.g] = a.s]
    /\ UNCHANGED asked

Next ==
    \/ \E r \in Requests : Ask(r) \/ Replace(r)
    \/ \E g \in Graphs : Create(g)

Spec == Init /\ [][Next]_contract

=============================================================================
