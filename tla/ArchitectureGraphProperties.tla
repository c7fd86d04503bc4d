---------------------- MODULE ArchitectureGraphProperties ----------------------
(* What makes the architecture graph API correct. *)
EXTENDS ArchitectureGraph

Outcomes == { "none", "sent", "locked", "matched", "applying", "committed", "failed" }

Replies ==
    [ nodes : SUBSET Elements, edges : SUBSET Relationships, paths : SUBSET Seq(Elements) ]

TypeOK ==
    /\ graphs \in SUBSET Graphs
    /\ nodes \in SUBSET Elements
    /\ edges \in SUBSET Relationships
    /\ history \in [Graphs -> Seq(Contents)]
    /\ lock \in [Graphs -> Requests \cup {None}]
    /\ tx \in [Requests -> Outcomes]
    /\ old \in [Requests -> SUBSET Elements]
    /\ call \in [Requests -> Calls \cup {NoCall}]
    /\ pc \in [Requests -> Waiting \cup {"idle", "done"}]
    /\ sent \in [Requests -> Nat]
    /\ reply \in [Requests -> Replies]
    /\ code \in [Requests -> Codes]
    /\ since \in [Requests -> Nat]

-----------------------------------------------------------------------------
(* The inductive invariant *)

(* architecture_node_key, over all graphs. *)
KeysAreUnique ==
    \A x, y \in nodes : x.graph = y.graph /\ x.id = y.id => x = y

NodesAreContained == \A x \in nodes : x.graph \in graphs

(* A relationship stays inside its graph and has both its ends. *)
EdgesAreInside ==
    \A e \in edges : e.from \in nodes /\ e.to \in nodes /\ e.from.graph = e.to.graph

(* A replacement has reached the log, whether or not all of it is applied. *)
IsCommitted(r) == call[r].op = "putSnapshot" /\ tx[r] \in { "applying", "committed" }

(* What was committed of g is a valid snapshot, whose relationships have     *)
(* their ends in it, and shares no node with what was committed before.      *)
CommitIsWhole(g, i) ==
    LET v == history[g][i] IN
    /\ IsValid(Shown(v)) /\ Cardinality(v.nodes) <= MaxNodes
    /\ \A x \in v.nodes : x.graph = g /\ IsCommitted(x.by)
    /\ \A e \in v.edges : e.from \in v.nodes /\ e.to \in v.nodes
    /\ \A j \in 1 .. Len(history[g]) : j # i => history[g][j].nodes \cap v.nodes = {}

(* What is stored of a graph is what was committed last, and nothing of what *)
(* was before it.                                                            *)
StoredIsLatest ==
    \A g \in Graphs :
        /\ Len(history[g]) >= 1
        /\ Content(g) = history[g][Len(history[g])]
        /\ \A i \in 1 .. Len(history[g]) : CommitIsWhole(g, i)

LocksAreHeld ==
    /\ \A r \in Requests :
        tx[r] \in {"locked", "matched", "applying"} => lock[call[r].g] = r
    /\ \A g \in Graphs : lock[g] # None =>
        /\ tx[lock[g]] \in {"locked", "matched", "applying"} /\ call[lock[g]].g = g
        /\ tx[lock[g]] = "applying" => Len(history[g]) > 1

OldIsCurrent ==
    \A r \in Requests : tx[r] = "matched" => old[r] = NodesOf(call[r].g)

(* A request that writes has passed its checks, and only such a one does.    *)
WriteIsAsked(r) ==
    /\ tx[r] # "none" =>
        \/ call[r].op = "putGraph"
        \/ call[r].op = "putSnapshot" /\ call[r].g \in graphs /\ IsValid(call[r].s)
    /\ tx[r] \in {"locked", "matched", "applying"} => call[r].op = "putSnapshot"
    /\ pc[r] = "idle" => tx[r] = "none"
    /\ pc[r] \in {"upsert", "replace"} => tx[r] # "none"
    /\ pc[r] = "getGraph" => tx[r] = "none"
    /\ code[r] # "none" => pc[r] = "done"
    /\ code[r] \in {"notFound", "invalid"} => tx[r] = "none"

h(r) == history[call[r].g]

(* The places in history that a reply may tell of. *)
Recent(r) == since[r] .. Len(h(r))

(* What r has returned was found between two places of history.              *)
NodesBetween(r, i, j) ==
    \A x \in reply[r].nodes : \E l \in Recent(r) : i <= l /\ l <= j /\ x \in h(r)[l].nodes

EdgesBetween(r, i, j) ==
    \A e \in reply[r].edges : \E l \in Recent(r) : i <= l /\ l <= j /\ e \in h(r)[l].edges

(* Each path is one of a single commit, none put together of two.            *)
PathsBetween(r, i, j) ==
    \A p \in reply[r].paths : \E l \in Recent(r) :
        i <= l /\ l <= j /\ p \in Paths(h(r)[l].edges, call[r].q)

(* The second query goes behind the first by no more than one commit, which  *)
(* was being applied while both ran.                                         *)
InOrder(r) == \E k \in Recent(r) :
    /\ NodesBetween(r, since[r], k + 1)
    /\ EdgesBetween(r, k, Len(h(r)))
    /\ PathsBetween(r, k, Len(h(r)))

(* Nothing was committed, or was being applied, since r's reply is recent.   *)
Undisturbed(r) == since[r] = Len(h(r))

NodesAreAll(r) == reply[r].nodes = h(r)[Len(h(r))].nodes

EdgesAreAll(r) == reply[r].edges = h(r)[Len(h(r))].edges

PathsAreAll(r) == reply[r].paths \in Answers(Paths(h(r)[Len(h(r))].edges, call[r].q), call[r].q)

Exports == { "putSnapshot", "getSnapshot" }

(* The queries of each operation, and what they have returned so far. *)
ReadsAreRecent(r) ==
    /\ call[r].op = "none" <=> pc[r] = "idle"
    /\ call[r].op # "none" => call[r] \in Inputs[r] /\ since[r] \in 1 .. Len(h(r))
    /\ call[r].op # "none" /\ tx[r] # "applying" => since[r] <= Oldest(call[r].g)
    /\ IsCommitted(r) => Shown(h(r)[since[r]]) = call[r].s
    /\ pc[r] \in Reading => sent[r] \in since[r] .. Len(h(r))
    /\ pc[r] \notin {"listEdges", "countNodes", "countEdges", "paths", "done"} =>
        reply[r] = NoReply
    /\ pc[r] = "upsert" => call[r].op = "putGraph"
    /\ pc[r] = "replace" => call[r].op = "putSnapshot"
    /\ pc[r] \in {"getGraph", "listNodes"} => call[r].op \in Exports \cup {"summary", "question"}
    /\ pc[r] = "listEdges" => call[r].op \in Exports
    /\ pc[r] \in {"counts", "countNodes", "countEdges"} => call[r].op = "summary"
    /\ pc[r] = "getNode" => call[r].op = "trace"
    /\ pc[r] = "paths" => call[r].op \in {"question", "trace", "path"}
    /\ call[r].op = "putSnapshot" /\ pc[r] \in {"listNodes", "listEdges"} => tx[r] = "committed"
    /\ pc[r] \in {"listEdges", "countEdges"} /\ Undisturbed(r) => NodesAreAll(r)
    /\ pc[r] = "countNodes" /\ Undisturbed(r) => EdgesAreAll(r)
    /\ pc[r] \in {"listEdges", "paths"} => NodesBetween(r, since[r], sent[r] + 1)
    /\ pc[r] \in {"listEdges", "countEdges", "paths"} => reply[r].edges = {}
    /\ pc[r] \in {"listEdges", "countNodes", "countEdges", "paths"} => reply[r].paths = {}
    /\ pc[r] = "countEdges" => NodesBetween(r, since[r], Len(h(r)))
    /\ pc[r] = "countNodes" => EdgesBetween(r, since[r], Len(h(r)))
    /\ pc[r] = "paths" /\ call[r].op # "path" => Ids(reply[r].nodes) = Mentioned(call[r].q)

-----------------------------------------------------------------------------
ReplyIsRecent(r) == code[r] = "ok" =>
    /\ call[r].op \in {"putGraph", "putSnapshot"} => tx[r] = "committed"
    /\ call[r].op = "putSnapshot" => Shown(h(r)[since[r]]) = call[r].s
    /\ call[r].op # "summary" => InOrder(r)
    /\ call[r].op = "summary" =>
        NodesBetween(r, since[r], Len(h(r))) /\ EdgesBetween(r, since[r], Len(h(r)))
    /\ call[r].op = "putGraph" =>
        reply[r].nodes = h(r)[since[r]].nodes /\ reply[r].edges = h(r)[since[r]].edges
    /\ call[r].op \in {"question", "trace"} => Ids(reply[r].nodes) = Mentioned(call[r].q)
    /\ Undisturbed(r) =>
        /\ call[r].op \in Exports \cup {"putGraph", "summary"} => NodesAreAll(r) /\ EdgesAreAll(r)
        /\ call[r].op \in {"question", "trace", "path"} => PathsAreAll(r)

(* A request that is answered with success tells of nothing that was         *)
(* replaced before it arrived, so that it never goes back behind an          *)
(* acknowledged replacement; a replacement's own answer, of nothing before   *)
(* its own commit.  The relationships of an export, and the paths of an      *)
(* answer, are no older than its nodes but for one replacement that was      *)
(* being applied meanwhile; a path is one of a single snapshot, never put    *)
(* together of two; and when no replacement was committed or applied         *)
(* meanwhile, the queries have returned the whole snapshot, or all its paths *)
(* up to the limit (repository.ts, getSnapshot, architectureSummary and      *)
(* executePathQuery; questions.ts, ask).                                     *)
RepliesAreRecent == \A r \in Requests : ReplyIsRecent(r)

RequestInv(r) == WriteIsAsked(r) /\ ReadsAreRecent(r)

(* With RepliesAreRecent the inductive invariant of the theorems: keys are   *)
(* unique, relationships stay inside their graph, a graph holds exactly what *)
(* was committed last, a valid snapshot that a request submitted, and a      *)
(* replacement that has matched the old nodes still has its graph locked and *)
(* them current (repository.ts, replaceSnapshot).                            *)
GraphInv ==
    /\ TypeOK
    /\ KeysAreUnique
    /\ NodesAreContained
    /\ EdgesAreInside
    /\ StoredIsLatest
    /\ LocksAreHeld
    /\ OldIsCurrent
    /\ \A r \in Requests : RequestInv(r)

-----------------------------------------------------------------------------
(* The refinement *)

StoredSnapshots == [g \in Graphs |-> IF g \in graphs THEN Shown(Content(g)) ELSE None]

Asked ==
    [r \in Requests |->
        IF call[r].op = "putSnapshot" /\ IsValid(call[r].s)
        THEN {[g |-> call[r].g, s |-> call[r].s]} ELSE {}]

Replaced == { r \in Requests : IsCommitted(r) }

Contract == INSTANCE SnapshotContract WITH
    Snapshots <- { s \in Snapshots : IsValid(s) },
    Absent <- None,
    stored <- StoredSnapshots,
    asked <- Asked,
    replaced <- Replaced

(* A graph changes only to a snapshot that was submitted for it with a valid *)
(* body, as a whole, once for each submission, however replacements, aborted *)
(* requests and their late transactions interleave; what was refused is      *)
(* never stored (repository.ts, upsertGraph and replaceSnapshot).            *)
ImplementsContract == Contract!Spec

=============================================================================
