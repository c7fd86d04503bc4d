--------------------------- MODULE ArchitectureGraph ---------------------------
(***************************************************************************)
(* The architecture graph API (architecture-graph-api/src): named graphs   *)
(* in Neo4j, each replaced as a whole by PUT .../snapshot, exported, and   *)
(* asked about.                                                            *)
(*                                                                         *)
(* A request is a sequence of queries, each an HTTP call to Neo4j with a   *)
(* timeout of the client's; no two of them share a transaction.  A query   *)
(* that reads does so at READ COMMITTED, without a snapshot: it finds what *)
(* was stored from its beginning to its end, and of what is created or     *)
(* deleted meanwhile any part, for a commit is applied record by record.   *)
(* A query that writes is a transaction tx[r] of the database, which takes *)
(* the write lock of its graph, and which the client's timeout does not    *)
(* end: it may commit long after the request has been answered with an     *)
(* error.                                                                  *)
(*                                                                         *)
(* Node kinds, relationship types and texts are left out: a snapshot is a  *)
(* set of node ids and a set of pairs of them.                             *)
(***************************************************************************)
EXTENDS Integers, Sequences, FiniteSets

CONSTANTS
    Graphs, Nodes,  \* graph ids, node ids
    MaxNodes,       \* the nodes a snapshot may have (5000)
    MaxEdges,       \* the relationships it may have (10000)
    MaxDepth,       \* the relationships of a path (at most 15)
    PathLimit,      \* the paths of an answer (at most 200)
    Requests,       \* the requests of a behaviour, each served once
    Inputs,         \* the calls that each of them may be (bounds a run)
    None

Snapshots == [ nodes : SUBSET Nodes, edges : SUBSET (Nodes \X Nodes) ]

Empty == [nodes |-> {}, edges |-> {}]

AllOperations == { "putGraph", "putSnapshot", "getSnapshot", "summary",
                   "question", "trace", "path" }

(* The queries for paths, which begin at a question's focus; only            *)
(* shortest_path has a target.                                               *)
Templates == { "dependencies", "dependents", "shortest_path" }

AllQuestions == [ focus : Nodes, target : Nodes \cup {None}, template : Templates ]

NoQuestion == [focus |-> None, target |-> None, template |-> "dependencies"]

Calls == [ op : AllOperations, g : Graphs, s : Snapshots, q : AllQuestions \cup {NoQuestion} ]

NoCall == [op |-> "none", g |-> None, s |-> Empty, q |-> NoQuestion]

(* A trace has no target, a path has one, and a question may have one. *)
ASSUME GraphAssumption ==
    /\ IsFiniteSet(Nodes)
    /\ MaxNodes \in Nat /\ MaxEdges \in Nat /\ MaxDepth \in Nat /\ PathLimit \in Nat
    /\ Inputs \in [Requests -> SUBSET Calls]
    /\ \A r \in Requests : \A c \in Inputs[r] :
        /\ c.op \in { "question", "trace", "path" } <=> c.q # NoQuestion
        /\ c.q.template = "shortest_path" <=> c.q.target # None
        /\ c.op = "trace" => c.q.target = None
        /\ c.op = "path" => c.q.target # None
    /\ None \notin Graphs \cup Nodes \cup Requests \cup Snapshots

VARIABLES
    graphs,     \* the ids of the :ArchitectureGraph nodes
    nodes,      \* the :ArchitectureNode nodes, which their graph CONTAINS
    edges,      \* the relationships between them
    history,    \* what has been committed of each graph, the last of it now
    lock,       \* the transaction with the write lock of a graph's node
    tx,         \* the transaction of a request that writes
    old,        \* the nodes that its OPTIONAL MATCH has found
    call,       \* the request: operation, graph, snapshot, question
    pc,         \* the query that the request waits for
    sent,       \* the place in history from which that query may find
    reply,      \* what the request's queries have returned
    code,       \* the answer
    since       \* the place in history from which a reply is recent

database == <<graphs, nodes, edges, history>>
writers  == <<lock, tx, old>>
handler  == <<pc, sent, reply, code>>
vars     == <<database, writers, call, handler, since>>

-----------------------------------------------------------------------------
(* Snapshots and what is stored of them *)

(* validateSnapshot; that ids are distinct is what a set says. *)
IsValid(s) ==
    /\ Cardinality(s.nodes) <= MaxNodes /\ Cardinality(s.edges) <= MaxEdges
    /\ \A e \in s.edges : e[1] \in s.nodes /\ e[2] \in s.nodes /\ e[1] # e[2]

(* A node of Neo4j has an identity of its own: who created it tells it from  *)
(* another of the same key (graph_id, id).                                   *)
Node(g, i, r) == [graph |-> g, id |-> i, by |-> r]

Elements == [ graph : Graphs, id : Nodes, by : Requests ]

Relationships == [ from : Elements, to : Elements ]

Contents == [ nodes : SUBSET Elements, edges : SUBSET Relationships ]

NodesOf(g) == { x \in nodes : x.graph = g }

EdgesOf(g) == { e \in edges : e.from.graph = g /\ e.to.graph = g }

Content(g) == [nodes |-> NodesOf(g), edges |-> EdgesOf(g)]

Ids(X) == { x.id : x \in X }

(* A content without its identities, as a client sees it. *)
Shown(v) ==
    [nodes |-> Ids(v.nodes), edges |-> { <<e.from.id, e.to.id>> : e \in v.edges }]

Mentioned(q) == {q.focus, q.target} \ {None}

Hops(E, template) ==
    CASE template = "dependencies"  -> { <<e.from, e.to>> : e \in E }
      [] template = "dependents"    -> { <<e.to, e.from>> : e \in E }
      [] template = "shortest_path" -> UNION { {<<e.from, e.to>>, <<e.to, e.from>>} : e \in E }

(* The paths over E that a question asks for, from its focus outwards: 1 ..  *)
(* MaxDepth relationships, no node twice.                                    *)
Paths(E, q) ==
    LET ends == { e.from : e \in E } \cup { e.to : e \in E } IN
    { p \in UNION { [1 .. k -> ends] : k \in 2 .. MaxDepth + 1 } :
        /\ p[1].id = q.focus
        /\ q.target # None => p[Len(p)].id = q.target
        /\ \A i \in 1 .. Len(p) - 1 : <<p[i], p[i + 1]>> \in Hops(E, q.template)
        /\ \A i, j \in 1 .. Len(p) : p[i] = p[j] => i = j }

(* What ORDER BY and LIMIT leave of S, in an order that is of no interest.   *)
Limited(S, limit) ==
    { T \in SUBSET S : IF Cardinality(S) <= limit THEN T = S ELSE Cardinality(T) = limit }

(* dependencies, dependents: ORDER BY hops, LIMIT.                           *)
FirstPaths(P) ==
    { T \in Limited(P, PathLimit) : \A p \in T, o \in P \ T : Len(p) <= Len(o) }

(* shortestPath: one for each two nodes that are connected.                  *)
ShortestPaths(P) ==
    LET SameEnds(p, o) == p[1] = o[1] /\ p[Len(p)] = o[Len(o)] IN
    { T \in SUBSET P :
        /\ \A o \in P : \E p \in T : SameEnds(p, o) /\ Len(p) <= Len(o)
        /\ \A p, o \in T : SameEnds(p, o) => p = o }

Answers(P, q) ==
    IF q.template = "shortest_path" THEN ShortestPaths(P) ELSE FirstPaths(P)

NoReply == [nodes |-> {}, edges |-> {}, paths |-> {}]

(* Those that wait for a query that reads, and for one that writes.          *)
Reading == { "getGraph", "listNodes", "listEdges", "counts", "countNodes", "countEdges",
             "getNode", "paths" }

Waiting == Reading \cup { "upsert", "replace" }

Codes == { "none", "ok", "notFound", "invalid", "error" }

Init ==
    /\ graphs \in SUBSET Graphs
    /\ nodes = {} /\ edges = {}
    /\ history = [g \in Graphs |-> <<[nodes |-> {}, edges |-> {}]>>]
    /\ lock = [g \in Graphs |-> None]
    /\ tx = [r \in Requests |-> "none"]
    /\ old = [r \in Requests |-> {}]
    /\ call = [r \in Requests |-> NoCall]
    /\ pc = [r \in Requests |-> "idle"]
    /\ sent = [r \in Requests |-> 0]
    /\ reply = [r \in Requests |-> NoReply]
    /\ code = [r \in Requests |-> "none"]
    /\ since = [r \in Requests |-> 1]

-----------------------------------------------------------------------------
(* A query that reads *)

(* The oldest place in g's history of which a query that is sent now may     *)
(* find something: the last commit may not be applied in all its parts.      *)
Oldest(g) ==
    IF lock[g] # None /\ tx[lock[g]] = "applying"
    THEN Len(history[g]) - 1 ELSE Len(history[g])

(* The contents of r's graph that its query has met until now. *)
Met(r) ==
    LET H == history[call[r].g] IN { H[i] : i \in sent[r] .. Len(H) }

(* What it can find, when these are the versions of what it looks for.       *)
Found(versions) ==
    { S \in SUBSET UNION versions :
        \A x \in UNION versions : (\A V \in versions : x \in V) => x \in S }

FoundNodes(r) == Found({ v.nodes : v \in Met(r) })

FoundEdges(r) == Found({ v.edges : v \in Met(r) })

(* A traversal may pass a place again that has changed: there are the paths  *)
(* over what has lasted, and any over what has been there.                   *)
FoundPaths(r) ==
    LET E == { v.edges : v \in Met(r) } IN
    { P \in SUBSET Paths(UNION E, call[r].q) :
        Paths({ e \in UNION E : \A V \in E : e \in V }, call[r].q) \subseteq P }

-----------------------------------------------------------------------------
(* The handler *)

Answer(r, c) ==
    /\ pc' = [pc EXCEPT ![r] = "done"]
    /\ sent' = [sent EXCEPT ![r] = 0]
    /\ code' = [code EXCEPT ![r] = c]

Returns(r, rep) == reply' = [reply EXCEPT ![r] = rep]

(* sendProblem: nothing that was read is returned. *)
Problem(r, c) == Answer(r, c) /\ Returns(r, NoReply)

Await(r, g, query) ==
    /\ pc' = [pc EXCEPT ![r] = query]
    /\ sent' = [sent EXCEPT ![r] = Oldest(g)]
    /\ UNCHANGED code

(* A write is on its way to Neo4j. *)
Send(r, g, query) ==
    Await(r, g, query) /\ tx' = [tx EXCEPT ![r] = "sent"] /\ UNCHANGED <<lock, old>>

(* The first query of each route. *)
Arrive(r) ==
    /\ pc[r] = "idle"
    /\ \E c \in Inputs[r] :
        /\ call' = [call EXCEPT ![r] = c]
        /\ since' = [since EXCEPT ![r] = Oldest(c.g)]
        /\ \/ c.op = "putGraph" /\ Send(r, c.g, "upsert")
           \/ c.op = "trace" /\ Await(r, c.g, "getNode") /\ UNCHANGED writers
           \/ c.op = "path" /\ Await(r, c.g, "paths") /\ UNCHANGED writers
           \/ /\ c.op \in { "putSnapshot", "getSnapshot", "summary", "question" }
              /\ Await(r, c.g, "getGraph") /\ UNCHANGED writers
    /\ UNCHANGED <<database, reply>>

(* getGraph, which every operation but a graph's, a trace's and a path's     *)
(* begins with.  A body is read and validated only after it.                 *)
GetGraph(r) ==
    /\ pc[r] = "getGraph"
    /\ \/ /\ call[r].g \notin graphs
          /\ Problem(r, IF call[r].op \in { "summary", "question" } THEN "invalid" ELSE "notFound")
          /\ UNCHANGED writers
       \/ /\ call[r].g \in graphs /\ call[r].op = "putSnapshot"
          /\ \/ IsValid(call[r].s) /\ Send(r, call[r].g, "replace") /\ UNCHANGED reply
             \/ ~IsValid(call[r].s) /\ Problem(r, "invalid") /\ UNCHANGED writers
       \/ /\ call[r].g \in graphs /\ call[r].op # "putSnapshot"
          /\ Await(r, call[r].g, "listNodes") /\ UNCHANGED <<writers, reply>>
    /\ UNCHANGED <<database, call, since>>

(* What a write's answer leads to: upsertGraph returns the counts that its   *)
(* transaction has read, replaceSnapshot exports what is stored now.         *)
Continue(r) ==
    /\ \/ /\ pc[r] = "upsert"
          /\ LET v == history[call[r].g][since[r]]
             IN  Returns(r, [nodes |-> v.nodes, edges |-> v.edges, paths |-> {}])
          /\ Answer(r, "ok")
       \/ pc[r] = "replace" /\ Await(r, call[r].g, "listNodes") /\ UNCHANGED reply
    /\ UNCHANGED <<database, writers, call, since>>

(* A bug: replaceSnapshot does not await its query. *)
WrittenUnawaited(r) == tx[r] # "none" /\ Continue(r)

(* The answer to a write. *)
Written(r) == tx[r] = "committed" /\ Continue(r)

(* LIMIT of listNodes, when it is called for all. *)
ListLimit == MaxNodes

(* listNodes; planQuestion looks the nodes of the question up in it.         *)
ListNodes(r) ==
    /\ pc[r] = "listNodes"
    /\ \/ /\ call[r].op = "summary"
          /\ Await(r, call[r].g, "counts") /\ UNCHANGED reply
       \/ \E S \in FoundNodes(r) : \E T \in Limited(S, ListLimit) :
           \/ /\ call[r].op \in { "putSnapshot", "getSnapshot" }
              /\ Await(r, call[r].g, "listEdges")
              /\ Returns(r, [reply[r] EXCEPT !.nodes = T])
           \/ /\ call[r].op = "question" /\ Mentioned(call[r].q) \subseteq Ids(T)
              /\ Await(r, call[r].g, "paths")
              /\ Returns(r, [reply[r] EXCEPT
                            !.nodes = { x \in T : x.id \in Mentioned(call[r].q) }])
           \/ /\ call[r].op = "question" /\ ~(Mentioned(call[r].q) \subseteq Ids(T))
              /\ Problem(r, "invalid")
    /\ UNCHANGED <<database, writers, call, since>>

(* The second query of getSnapshot. *)
ListEdges(r) ==
    /\ pc[r] = "listEdges"
    /\ \E S \in FoundEdges(r) : Returns(r, [reply[r] EXCEPT !.edges = S])
    /\ Answer(r, "ok")
    /\ UNCHANGED <<database, writers, call, since>>

(* The two queries of architectureSummary run at the same time: one of them  *)
(* has returned, and the other goes on.                                      *)
Count(r, one, other) ==
    /\ \/ pc[r] = "counts" /\ pc' = [pc EXCEPT ![r] = other] /\ UNCHANGED <<sent, code>>
       \/ pc[r] = one /\ Answer(r, "ok")
    /\ UNCHANGED <<database, writers, call, since>>

CountNodes(r) ==
    /\ Count(r, "countNodes", "countEdges")
    /\ \E S \in FoundNodes(r) : Returns(r, [reply[r] EXCEPT !.nodes = S])

CountEdges(r) ==
    /\ Count(r, "countEdges", "countNodes")
    /\ \E S \in FoundEdges(r) : Returns(r, [reply[r] EXCEPT !.edges = S])

(* getNode, before a trace from it. *)
GetNode(r) ==
    /\ pc[r] = "getNode"
    /\ \E S \in FoundNodes(r) : LET T == { x \in S : x.id = call[r].q.focus } IN
        \/ T = {} /\ Problem(r, "notFound")
        \/ /\ T # {} /\ Await(r, call[r].g, "paths")
           /\ Returns(r, [reply[r] EXCEPT !.nodes = T])
    /\ UNCHANGED <<database, writers, call, since>>

(* dependencies, dependents and shortestPath: one query.                     *)
FindPaths(r) ==
    /\ pc[r] = "paths"
    /\ \E P \in FoundPaths(r) : \E T \in Answers(P, call[r].q) :
        Returns(r, [reply[r] EXCEPT !.paths = T])
    /\ Answer(r, "ok")
    /\ UNCHANGED <<database, writers, call, since>>

(* Neo4jClient.query throws: the timeout has passed or the connection has    *)
(* broken (500), or the answer, of Neo4j or of a proxy, is an error or no    *)
(* JSON (502).  What becomes of a write is not known.                        *)
QueryFails(r) ==
    /\ pc[r] \in Waiting
    /\ Problem(r, "error")
    /\ UNCHANGED <<database, writers, call, since>>

-----------------------------------------------------------------------------
(* The transactions of Neo4j, at READ COMMITTED *)

(* A bug: no SET before the nodes are matched. *)
NoBlockers(r, g) == {}

(* Whose end a transaction has to wait for before it writes to g's node.     *)
Blockers(r, g) == {lock[g]} \ {r, None}

Release(r) == lock' = [g \in Graphs |-> IF lock[g] = r THEN None ELSE lock[g]]

Ends(r, outcome) ==
    /\ tx' = [tx EXCEPT ![r] = outcome]
    /\ old' = [old EXCEPT ![r] = {}]
    /\ Release(r)

(* MERGE and SET, whether or not the client still waits for it; the counts   *)
(* are read under the graph's lock, when nothing of it can change.           *)
UpsertGraph(r) ==
    /\ tx[r] = "sent" /\ call[r].op = "putGraph"
    /\ Blockers(r, call[r].g) = {}
    /\ graphs' = graphs \cup {call[r].g}
    /\ since' = [since EXCEPT ![r] = Len(history[call[r].g])]
    /\ Ends(r, "committed")
    /\ UNCHANGED <<nodes, edges, history, call, handler>>

(* replaceSnapshot starts with a SET on the graph: its write lock is what    *)
(* makes replacements of one graph take turns.                               *)
SetUpdated(r) ==
    /\ tx[r] = "sent" /\ call[r].op = "putSnapshot"
    /\ Blockers(r, call[r].g) = {}
    /\ lock' = [lock EXCEPT ![call[r].g] = r]
    /\ tx' = [tx EXCEPT ![r] = "locked"]
    /\ UNCHANGED <<database, old, call, handler, since>>

MatchOld(r) ==
    /\ tx[r] = "locked"
    /\ old' = [old EXCEPT ![r] = NodesOf(call[r].g)]
    /\ tx' = [tx EXCEPT ![r] = "matched"]
    /\ UNCHANGED <<database, lock, call, handler, since>>

Created(r) == { Node(call[r].g, i, r) : i \in call[r].s.nodes }

(* A bug: MATCH by id alone. *)
CreatedEdgesOfAnyGraph(r, N) ==
    { [from |-> p[1], to |-> p[2]] :
        p \in { q \in N \X N : <<q[1].id, q[2].id>> \in call[r].s.edges } }

(* The two MATCH and the CREATE of a relationship, over the nodes N.         *)
CreatedEdges(r, N) ==
    { [from |-> p[1], to |-> p[2]] :
        p \in { q \in N \X N :
            /\ q[1].graph = call[r].g /\ q[2].graph = call[r].g
            /\ <<q[1].id, q[2].id>> \in call[r].s.edges } }

(* architecture_node_key: no two nodes with one key.                         *)
KeysAreFree(r, N) == \A x \in N : x.graph = call[r].g => x.id \notin call[r].s.nodes

(* DETACH DELETE, CREATE and COMMIT, which is applied until Close.           *)
Replace(r) ==
    LET kept == nodes \ old[r] IN
    /\ tx[r] = "matched"
    /\ KeysAreFree(r, kept)
    /\ UNCHANGED <<graphs, lock, old, call, handler>>
    /\ nodes' = kept \cup Created(r)
    /\ edges' = { e \in edges : e.from \in kept /\ e.to \in kept }
                  \cup CreatedEdges(r, kept \cup Created(r))
    /\ history' = [history EXCEPT ![call[r].g] = Append(@, Content(call[r].g)')]
    /\ since' = [since EXCEPT ![r] = Len(history[call[r].g]) + 1]
    /\ tx' = [tx EXCEPT ![r] = "applying"]

(* All of it is applied; only now is the lock released and the query         *)
(* answered.                                                                 *)
Close(r) ==
    /\ tx[r] = "applying"
    /\ Ends(r, "committed")
    /\ UNCHANGED <<database, call, handler, since>>

(* An error of the server, a constraint, or a query that never arrived or    *)
(* was ended when its connection broke.                                      *)
RollBack(r) ==
    /\ tx[r] \in { "sent", "locked", "matched" }
    /\ Ends(r, "failed")
    /\ UNCHANGED <<database, call, handler, since>>

Handle(r) ==
    \/ Arrive(r) \/ GetGraph(r) \/ Written(r) \/ ListNodes(r) \/ ListEdges(r)
    \/ CountNodes(r) \/ CountEdges(r) \/ GetNode(r) \/ FindPaths(r)
    \/ QueryFails(r)

Transact(r) ==
    \/ UpsertGraph(r) \/ SetUpdated(r) \/ MatchOld(r) \/ Replace(r) \/ Close(r)
    \/ RollBack(r)

Next == \E r \in Requests : Handle(r) \/ Transact(r)

Spec == Init /\ [][Next]_vars

=============================================================================
