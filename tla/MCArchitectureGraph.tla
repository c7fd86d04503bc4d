-------------------------- MODULE MCArchitectureGraph --------------------------
(* A small instance of ArchitectureGraph. *)
EXTENDS ArchitectureGraphProperties, TLC

CONSTANTS a, b, first, second

CallsOf(op, snapshots, questions) ==
    [op : {op}, g : Graphs, s : snapshots, q : questions]

Replacements(snapshots) == CallsOf("putSnapshot", snapshots, {NoQuestion})

(* One replacement stores a relationship; another stores nothing, or a node  *)
(* with a key of the first one's, or asks for a relationship that has an end *)
(* missing.                                                                  *)
Large == { [nodes |-> {a, b}, edges |-> {<<a, b>>}] }

Small == {
    Empty,
    [nodes |-> {a}, edges |-> {}],
    [nodes |-> {a}, edges |-> {<<a, b>>}] }

Dependents == [focus |-> b, target |-> None, template |-> "dependents"]

Path == [focus |-> a, target |-> b, template |-> "shortest_path"]

(* Readers have no effect on each other: one is enough. *)
Reads ==
    UNION { CallsOf(op, {Empty}, {NoQuestion}) : op \in {"putGraph", "getSnapshot", "summary"} }
      \cup CallsOf("question", {Empty}, {Path})
      \cup CallsOf("trace", {Empty}, {Dependents})
      \cup CallsOf("path", {Empty}, {Path})

MCInputs == [r \in Requests |->
    IF r = first THEN Replacements(Large)
    ELSE IF r = second THEN Replacements(Small)
    ELSE Reads]

MCSymmetry == Permutations(Graphs)

(* Nothing tells apart any more what becomes of a request that has ended     *)
(* without a reply and without having written, or, once all have arrived,    *)
(* whether a graph is there that none of them is about.                      *)
MCView == <<
    IF \E r \in Requests : pc[r] = "idle" THEN graphs
    ELSE graphs \cap { call[r].g : r \in Requests },
    nodes, edges, history, lock, old,
    [r \in Requests |->
        IF code[r] \notin {"none", "ok"} /\ tx[r] = "none" THEN <<"over">>
        ELSE <<tx[r], call[r], pc[r], sent[r], reply[r], code[r], since[r]>>]>>

=============================================================================
