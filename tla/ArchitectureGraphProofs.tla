------------------------ MODULE ArchitectureGraphProofs ------------------------
(***************************************************************************)
(* The theorems about the architecture graph API.  AllInv is inductive: a  *)
(* step of a handler leaves the database alone, so that it can only hurt   *)
(* what is said of its own request; of the steps of a transaction only     *)
(* Replace changes a graph, and it holds the graph's lock; and what a      *)
(* reader has found stays recent, for histories only grow.                 *)
(***************************************************************************)
EXTENDS ArchitectureGraphProperties, FiniteSetTheorems, SequenceTheorems,
        WellFoundedInduction, TLAPS

RequestIsRight(r) == RequestInv(r) /\ ReplyIsRecent(r)

DatabaseInv == KeysAreUnique /\ NodesAreContained /\ EdgesAreInside /\ StoredIsLatest

WriterInv == LocksAreHeld /\ OldIsCurrent

AllInv == TypeOK /\ DatabaseInv /\ WriterInv /\ \A r \in Requests : RequestIsRight(r)

(* What a step must leave alone for RequestIsRight(q) to stay.               *)
SameRequest(q) ==
    /\ tx'[q] = tx[q] /\ call'[q] = call[q] /\ pc'[q] = pc[q] /\ sent'[q] = sent[q]
    /\ reply'[q] = reply[q] /\ code'[q] = code[q] /\ since'[q] = since[q]

HistoryGrows == \A g \in Graphs :
    /\ Len(history[g]) \in Nat /\ Len(history'[g]) \in Nat
    /\ Len(history'[g]) >= Len(history[g])
    /\ \A i \in 1 .. Len(history[g]) : history'[g][i] = history[g][i]
    /\ Oldest(g)' >= Oldest(g)

-----------------------------------------------------------------------------
(* Facts about the data *)

LEMMA EmptyIsValid == Empty \in Snapshots /\ IsValid(Empty)
  BY GraphAssumption, FS_EmptySet, SMT DEF Snapshots, Empty, IsValid

LEMMA NoReplyType == NoReply \in Replies
  BY DEF NoReply, Replies

LEMMA Least ==
    ASSUME NEW T \in SUBSET Nat, T # {}
    PROVE  \E x \in T : \A y \in T : x <= y
  <1> DEFINE F == { 1 .. x : x \in T }
  <1>1. IsWellFoundedOn(StrictSubsetOrdering(Nat), FiniteSubsetsOf(Nat))
    BY FS_StrictSubsetOrderingWellFounded
  <1>2. F \subseteq FiniteSubsetsOf(Nat) /\ F # {}
    <2>1. \A x \in T : 1 .. x \in SUBSET Nat /\ IsFiniteSet(1 .. x)
      BY FS_Interval
    <2> QED
      BY <2>1 DEF FiniteSubsetsOf
  <1>3. \E X \in F : \A Y \in F : ~(<<Y, X>> \in StrictSubsetOrdering(Nat))
    <2> HIDE DEF F
    <2> QED
      BY <1>1, <1>2, WFMin
  <1>4. PICK x \in T : \A y \in T : ~(<<1 .. y, 1 .. x>> \in StrictSubsetOrdering(Nat))
    BY <1>3
  <1>5. ASSUME NEW y \in T, y < x
        PROVE  FALSE
    <2>1. 1 .. y \subseteq 1 .. x /\ 1 .. y # 1 .. x
      <3>1. x \in 1 .. x /\ x \notin 1 .. y
        BY <1>5
      <3> QED
        BY <1>5, <3>1
    <2>2. 1 .. y \in SUBSET Nat /\ 1 .. x \in SUBSET Nat
      OBVIOUS
    <2>3. <<1 .. y, 1 .. x>> \in StrictSubsetOrdering(Nat)
      BY <2>1, <2>2 DEF StrictSubsetOrdering
    <2> QED
      BY <2>3, <1>4
  <1> QED
    BY <1>5

(* A hop is made over one relationship, in one of its directions.            *)
LEMMA HopIsAnEdge ==
    ASSUME NEW E, NEW t, t \in Templates, NEW x, NEW y, <<x, y>> \in Hops(E, t)
    PROVE  \E e \in E :
              /\ (x = e.from /\ y = e.to) \/ (x = e.to /\ y = e.from)
              /\ \A D : e \in D => <<x, y>> \in Hops(D, t)
  <1>1. CASE t = "dependencies"
    <2>1. \A D : Hops(D, t) = { <<e.from, e.to>> : e \in D }
      BY <1>1 DEF Hops
    <2> QED
      BY <2>1
  <1>2. CASE t = "dependents"
    <2>1. \A D : Hops(D, t) = { <<e.to, e.from>> : e \in D }
      BY <1>2 DEF Hops
    <2> QED
      BY <2>1
  <1>3. CASE t = "shortest_path"
    <2>1. \A D : Hops(D, t) = UNION { {<<e.from, e.to>>, <<e.to, e.from>>} : e \in D }
      BY <1>3 DEF Hops
    <2>2. PICK e \in E : <<x, y>> \in {<<e.from, e.to>>, <<e.to, e.from>>}
      BY <2>1
    <2>3. \A D : e \in D => <<x, y>> \in Hops(D, t)
      BY <2>1, <2>2
    <2> QED
      BY <2>2, <2>3
  <1> QED
    BY <1>1, <1>2, <1>3 DEF Templates

LEMMA PathFacts ==
    ASSUME NEW E \in SUBSET Relationships, NEW q, NEW p \in Paths(E, q)
    PROVE  /\ p \in Seq(Elements) /\ Len(p) \in 2 .. MaxDepth + 1
           /\ p[1].id = q.focus
           /\ q.target # None => p[Len(p)].id = q.target
           /\ \A i \in 1 .. Len(p) - 1 : <<p[i], p[i + 1]>> \in Hops(E, q.template)
           /\ \A i, j \in 1 .. Len(p) : p[i] = p[j] => i = j
  <1> DEFINE ends == { e.from : e \in E } \cup { e.to : e \in E }
  <1>1. PICK k \in 2 .. MaxDepth + 1 : p \in [1 .. k -> ends]
    BY DEF Paths
  <1>2. ends \subseteq Elements
    BY DEF Relationships
  <1>3. p \in [1 .. k -> Elements] /\ k \in Nat
    BY <1>1, <1>2, GraphAssumption
  <1>4. p \in Seq(Elements)
    BY <1>3, SeqDef
  <1>5. Len(p) = k
    BY <1>3, <1>4, LenProperties
  <1> HIDE DEF ends
  <1>6. /\ p[1].id = q.focus
        /\ q.target # None => p[Len(p)].id = q.target
        /\ \A i \in 1 .. Len(p) - 1 : <<p[i], p[i + 1]>> \in Hops(E, q.template)
        /\ \A i, j \in 1 .. Len(p) : p[i] = p[j] => i = j
    BY Zenon DEF Paths
  <1> QED
    BY <1>1, <1>4, <1>5, <1>6

LEMMA LimitedIsPart ==
    ASSUME NEW S, NEW limit, NEW T \in Limited(S, limit)
    PROVE  T \subseteq S /\ (Cardinality(S) <= limit => T = S)
  BY DEF Limited

LEMMA AnswersArePart ==
    ASSUME NEW P, NEW q, NEW T \in Answers(P, q)
    PROVE  T \subseteq P
  BY LimitedIsPart DEF Answers, FirstPaths, ShortestPaths

(* Contents that share no node: a path over their relationships together is  *)
(* a path of one of them, for it goes from node to node.                     *)
LEMMA PathIsOfOne ==
    ASSUME NEW W \in SUBSET Contents,
           \A v \in W : \A e \in v.edges : e.from \in v.nodes /\ e.to \in v.nodes,
           \A v, w \in W : v # w => v.nodes \cap w.nodes = {},
           NEW q, q.template \in Templates,
           NEW p \in Paths(UNION { v.edges : v \in W }, q)
    PROVE  \E v \in W : p \in Paths(v.edges, q)
  <1> DEFINE E == UNION { v.edges : v \in W }
             n == Len(p)
  <1>1. E \in SUBSET Relationships
    BY DEF Contents
  <1>0. p \in Paths(E, q) /\ \A e \in E : \E v \in W : e \in v.edges
    OBVIOUS
  <1> HIDE DEF E
  <1>2. /\ p \in Seq(Elements) /\ n \in 2 .. MaxDepth + 1 /\ n \in Nat
        /\ p[1].id = q.focus
        /\ q.target # None => p[n].id = q.target
        /\ \A i \in 1 .. n - 1 : <<p[i], p[i + 1]>> \in Hops(E, q.template)
        /\ \A i, j \in 1 .. n : p[i] = p[j] => i = j
    BY <1>1, <1>0, PathFacts, GraphAssumption
  <1>3. ASSUME NEW i \in 1 .. n - 1
        PROVE  \E v \in W :
                /\ p[i] \in v.nodes /\ p[i + 1] \in v.nodes
                /\ <<p[i], p[i + 1]>> \in Hops(v.edges, q.template)
                /\ \E e \in v.edges :
                    (p[i] = e.from /\ p[i + 1] = e.to) \/ (p[i] = e.to /\ p[i + 1] = e.from)
    <2>1. PICK e \in E :
            /\ (p[i] = e.from /\ p[i + 1] = e.to) \/ (p[i] = e.to /\ p[i + 1] = e.from)
            /\ \A D : e \in D => <<p[i], p[i + 1]>> \in Hops(D, q.template)
      BY <1>2, HopIsAnEdge
    <2>2. PICK v \in W : e \in v.edges
      BY <1>0
    <2> QED
      BY <2>1, <2>2
  <1>4. 1 \in 1 .. n - 1
    BY <1>2
  <1>5. PICK v \in W : p[1] \in v.nodes
    BY <1>3, <1>4
  <1>6. \A i \in 1 .. n : p[i] \in v.nodes
    <2> DEFINE T == { i \in 1 .. n : p[i] \notin v.nodes }
    <2>1. SUFFICES ASSUME T # {} PROVE FALSE
      OBVIOUS
    <2>2. T \in SUBSET Nat
      BY <1>2
    <2>3. PICK x \in T : \A y \in T : x <= y
      <3> HIDE DEF T
      <3> QED
        BY <2>1, <2>2, Least
    <2>4. x \in 1 .. n /\ x # 1 /\ x - 1 \in 1 .. n - 1 /\ x - 1 \notin T /\ x - 1 + 1 = x
      BY <1>2, <1>5, <2>3
    <2>5. PICK w \in W : p[x - 1] \in w.nodes /\ p[x - 1 + 1] \in w.nodes
      BY <1>3, <2>4
    <2>6. p[x - 1] \in v.nodes
      BY <1>2, <2>4
    <2>7. w = v
      BY <2>5, <2>6
    <2> QED
      BY <2>3, <2>4, <2>5, <2>7
  <1>7. ASSUME NEW i \in 1 .. n - 1
        PROVE  /\ <<p[i], p[i + 1]>> \in Hops(v.edges, q.template)
               /\ \E e \in v.edges :
                   (p[i] = e.from /\ p[i + 1] = e.to) \/ (p[i] = e.to /\ p[i + 1] = e.from)
    <2>1. PICK w \in W :
            /\ p[i] \in w.nodes /\ p[i + 1] \in w.nodes
            /\ <<p[i], p[i + 1]>> \in Hops(w.edges, q.template)
            /\ \E e \in w.edges :
                (p[i] = e.from /\ p[i + 1] = e.to) \/ (p[i] = e.to /\ p[i + 1] = e.from)
      BY <1>3
    <2>2. p[i] \in v.nodes
      BY <1>2, <1>6
    <2>3. w = v
      BY <2>1, <2>2
    <2> QED
      BY <2>1, <2>3
  <1> DEFINE ends == { e.from : e \in v.edges } \cup { e.to : e \in v.edges }
  <1>8. ASSUME NEW i \in 1 .. n
        PROVE  p[i] \in ends
    <2>1. CASE i < n
      <3>1. i \in 1 .. n - 1
        BY <1>2, <2>1
      <3>2. PICK e \in v.edges :
              (p[i] = e.from /\ p[i + 1] = e.to) \/ (p[i] = e.to /\ p[i + 1] = e.from)
        BY <3>1, <1>7
      <3> QED
        BY <3>2
    <2>2. CASE i = n
      <3>1. PICK j \in 1 .. n - 1 : j + 1 = i
        <4>1. n - 1 \in 1 .. n - 1 /\ n - 1 + 1 = i
          BY <1>2, <2>2
        <4> QED
          BY <4>1
      <3>2. PICK e \in v.edges :
              (p[j] = e.from /\ p[j + 1] = e.to) \/ (p[j] = e.to /\ p[j + 1] = e.from)
        BY <3>1, <1>7
      <3> QED
        BY <3>1, <3>2
    <2> QED
      BY <1>2, <2>1, <2>2
  <1> HIDE DEF ends
  <1>9. p \in [1 .. n -> ends]
    <2>1. p \in [1 .. n -> Elements]
      BY <1>2, LenProperties
    <2> QED
      BY <2>1, <1>8
  <1>10. p \in UNION { [1 .. k -> ends] : k \in 2 .. MaxDepth + 1 }
    BY <1>2, <1>9
  <1>11. \A i \in 1 .. Len(p) - 1 : <<p[i], p[i + 1]>> \in Hops(v.edges, q.template)
    BY <1>7
  <1>12. p \in Paths(v.edges, q)
    BY <1>2, <1>10, <1>11, Zenon DEF Paths, ends
  <1> QED
    BY <1>12

-----------------------------------------------------------------------------
(* The histories *)

LEMMA OldestFacts ==
    ASSUME AllInv, NEW g \in Graphs
    PROVE  /\ history[g] \in Seq(Contents) /\ Len(history[g]) \in Nat \ {0}
           /\ Oldest(g) \in 1 .. Len(history[g])
           /\ Len(history[g]) <= Oldest(g) + 1
  <1>1. history[g] \in Seq(Contents) /\ Len(history[g]) \in Nat
    BY DEF AllInv, TypeOK
  <1>2. Len(history[g]) >= 1
    BY DEF AllInv, DatabaseInv, StoredIsLatest
  <1>3. lock[g] # None /\ tx[lock[g]] = "applying" => Len(history[g]) > 1
    BY DEF AllInv, WriterInv, LocksAreHeld
  <1> QED
    BY <1>1, <1>2, <1>3 DEF Oldest

(* No step but Replace begins to apply anything. *)
LEMMA HistoryStays ==
    ASSUME TypeOK, UNCHANGED history,
           \A g \in Graphs : lock'[g] # None /\ tx'[lock'[g]] = "applying" =>
               lock[g] # None /\ tx[lock[g]] = "applying"
    PROVE  HistoryGrows
  <1>1. \A g \in Graphs : Len(history[g]) \in Nat
    BY DEF TypeOK
  <1>2. ASSUME NEW g \in Graphs
        PROVE  Oldest(g)' >= Oldest(g)
    BY <1>1 DEF Oldest
  <1> QED
    BY <1>1, <1>2 DEF HistoryGrows

LEMMA InputFacts ==
    ASSUME NEW r \in Requests, NEW c \in Inputs[r]
    PROVE  /\ c \in Calls /\ c.g \in Graphs /\ c.s \in Snapshots
           /\ c.op \in AllOperations /\ c.op # "none"
           /\ c.op \in {"question", "trace", "path"} =>
                c.q \in AllQuestions /\ c.q.focus # None /\ c.q.template \in Templates
           /\ c.op = "trace" => c.q.target = None
  <1>1. c \in Calls
    BY GraphAssumption
  <1>2. c.op \in {"question", "trace", "path"} =>
            c.q \in AllQuestions /\ c.q.focus # None /\ c.q.template \in Templates
    <2>1. c.op \in {"question", "trace", "path"} => c.q \in AllQuestions
      BY <1>1, GraphAssumption DEF Calls
    <2> QED
      BY <2>1, GraphAssumption DEF AllQuestions
  <1>3. c.op = "trace" => c.q.target = None
    BY GraphAssumption
  <1> QED
    BY <1>1, <1>2, <1>3 DEF Calls, AllOperations

(* What is said of a reply stays true of it when its history grows.          *)
LEMMA RepliesStay ==
    ASSUME TypeOK, NEW q \in Requests, RequestIsRight(q), SameRequest(q), HistoryGrows,
           call[q].op # "none"
    PROVE  /\ call[q].g \in Graphs /\ since'[q] \in 1 .. Len(h(q)')
           /\ h(q)'[since'[q]] = h(q)[since[q]]
           /\ pc[q] \in Reading => sent'[q] \in since'[q] .. Len(h(q)')
           /\ NodesBetween(q, since[q], sent[q] + 1) => NodesBetween(q, since[q], sent[q] + 1)'
           /\ NodesBetween(q, since[q], Len(h(q))) => NodesBetween(q, since[q], Len(h(q)))'
           /\ EdgesBetween(q, since[q], Len(h(q))) => EdgesBetween(q, since[q], Len(h(q)))'
           /\ InOrder(q) => InOrder(q)'
           /\ Undisturbed(q)' =>
                /\ Undisturbed(q)
                /\ NodesAreAll(q) => NodesAreAll(q)'
                /\ EdgesAreAll(q) => EdgesAreAll(q)'
                /\ PathsAreAll(q) => PathsAreAll(q)'
  <1> USE DEF SameRequest
  <1>1. call[q].g \in Graphs /\ since[q] \in 1 .. Len(h(q))
    BY InputFacts DEF RequestIsRight, RequestInv, ReadsAreRecent
  <1>2. /\ Len(h(q)) \in Nat /\ Len(h(q)') \in Nat /\ Len(h(q)') >= Len(h(q))
        /\ \A i \in 1 .. Len(h(q)) : h(q)'[i] = h(q)[i]
    BY <1>1 DEF HistoryGrows, h
  <1>3. \A i \in Recent(q) : i \in Recent(q)' /\ h(q)'[i] = h(q)[i]
    BY <1>1, <1>2 DEF Recent
  <1>4. \A i \in Recent(q) : i \in Nat /\ i <= Len(h(q)) /\ i <= Len(h(q)')
    BY <1>1, <1>2 DEF Recent
  <1>5. pc[q] \in Reading => sent'[q] \in since'[q] .. Len(h(q)')
    BY <1>1, <1>2 DEF RequestIsRight, RequestInv, ReadsAreRecent
  <1>6. NodesBetween(q, since[q], sent[q] + 1) => NodesBetween(q, since[q], sent[q] + 1)'
    BY <1>3 DEF NodesBetween
  <1>7. NodesBetween(q, since[q], Len(h(q))) => NodesBetween(q, since[q], Len(h(q)))'
    BY <1>3, <1>4 DEF NodesBetween
  <1>8. EdgesBetween(q, since[q], Len(h(q))) => EdgesBetween(q, since[q], Len(h(q)))'
    BY <1>3, <1>4 DEF EdgesBetween
  <1>9. InOrder(q) => InOrder(q)'
    <2>1. SUFFICES ASSUME InOrder(q) PROVE InOrder(q)'
      OBVIOUS
    <2>2. PICK k \in Recent(q) :
            /\ NodesBetween(q, since[q], k + 1)
            /\ EdgesBetween(q, k, Len(h(q)))
            /\ PathsBetween(q, k, Len(h(q)))
      BY <2>1 DEF InOrder
    <2>3. NodesBetween(q, since[q], k + 1)'
      BY <1>3, <2>2 DEF NodesBetween
    <2>4. EdgesBetween(q, k, Len(h(q)))'
      BY <1>3, <1>4, <2>2 DEF EdgesBetween
    <2>5. PathsBetween(q, k, Len(h(q)))'
      BY <1>3, <1>4, <2>2 DEF PathsBetween
    <2> QED
      BY <1>3, <2>2, <2>3, <2>4, <2>5 DEF InOrder
  <1>10. ASSUME Undisturbed(q)'
         PROVE  /\ Undisturbed(q)
                /\ NodesAreAll(q) => NodesAreAll(q)'
                /\ EdgesAreAll(q) => EdgesAreAll(q)'
                /\ PathsAreAll(q) => PathsAreAll(q)'
    <2>1. Len(h(q)') = Len(h(q)) /\ since[q] = Len(h(q))
      BY <1>1, <1>2, <1>10 DEF Undisturbed
    <2>2. h(q)'[Len(h(q)')] = h(q)[Len(h(q))]
      BY <1>1, <1>2, <2>1
    <2> QED
      BY <2>1, <2>2 DEF Undisturbed, NodesAreAll, EdgesAreAll, PathsAreAll
  <1>11. since'[q] \in 1 .. Len(h(q)') /\ h(q)'[since'[q]] = h(q)[since[q]]
    BY <1>1, <1>2
  <1> QED
    BY <1>1, <1>5, <1>6, <1>7, <1>8, <1>9, <1>10, <1>11

(* A request that a step does not touch keeps its invariant: the graphs and  *)
(* the histories only grow.                                                  *)
LEMMA Untouched ==
    ASSUME TypeOK, NEW q \in Requests, RequestIsRight(q), SameRequest(q),
           graphs \subseteq graphs', HistoryGrows
    PROVE  RequestIsRight(q)'
  <1>1. WriteIsAsked(q)'
    BY DEF RequestIsRight, RequestInv, WriteIsAsked, SameRequest
  <1>2. CASE call[q].op = "none"
    <2>1. pc[q] = "idle" /\ code[q] = "none" /\ reply'[q] = NoReply
      BY <1>2 DEF RequestIsRight, RequestInv, ReadsAreRecent, WriteIsAsked, TypeOK, SameRequest
    <2>2. ReadsAreRecent(q)'
      BY <1>2, <2>1 DEF ReadsAreRecent, SameRequest, Reading, Waiting, IsCommitted
    <2>3. ReplyIsRecent(q)'
      BY <1>2, <2>1 DEF ReplyIsRecent, SameRequest
    <2> QED
      BY <1>1, <2>2, <2>3 DEF RequestIsRight, RequestInv
  <1>3. CASE call[q].op # "none"
    <2>1. call'[q].g = call[q].g /\ Oldest(call[q].g)' >= Oldest(call[q].g)
      BY <1>3, RepliesStay DEF HistoryGrows, SameRequest
    <2>2. ReadsAreRecent(q)'
      <3> USE DEF SameRequest
      <3>1. ReadsAreRecent(q)
        BY DEF RequestIsRight, RequestInv
      <3>2. call[q].op # "none" /\ tx[q] # "applying" => since'[q] <= Oldest(call[q].g)'
        <4>1. call[q].g \in Graphs
          BY <1>3, RepliesStay
        <4>2. since[q] \in Nat /\ Oldest(call[q].g) \in Int /\ Oldest(call[q].g)' \in Int
          BY <4>1 DEF TypeOK, HistoryGrows, Oldest
        <4> QED
          BY <3>1, <2>1, <4>2 DEF ReadsAreRecent
      <3>3. IsCommitted(q)' <=> IsCommitted(q)
        BY DEF IsCommitted
      <3>4. Shown(h(q)[since[q]])' = Shown(h(q)[since[q]])
        BY <1>3, RepliesStay
      <3> QED
        BY <1>3, <3>1, <3>2, <3>3, <3>4, RepliesStay DEF ReadsAreRecent
    <2>3. ReplyIsRecent(q)'
      BY <1>3, RepliesStay DEF RequestIsRight, ReplyIsRecent, SameRequest
    <2> QED
      BY <1>1, <2>2, <2>3 DEF RequestIsRight, RequestInv
  <1> QED
    BY <1>2, <1>3

-----------------------------------------------------------------------------
(* The steps of the handler *)

LEMMA ContentsAre ==
    ASSUME AllInv, NEW g \in Graphs, NEW i \in 1 .. Len(history[g])
    PROVE  /\ history[g][i] \in Contents /\ CommitIsWhole(g, i)
           /\ history[g][i].nodes \subseteq Elements /\ history[g][i].edges \subseteq Relationships
  <1>1. history[g][i] \in Contents
    BY DEF AllInv, TypeOK
  <1>2. CommitIsWhole(g, i)
    BY DEF AllInv, DatabaseInv, StoredIsLatest
  <1> QED
    BY <1>1, <1>2 DEF Contents

LEMMA DatabaseStays ==
    ASSUME AllInv, UNCHANGED <<nodes, edges, history>>, graphs \subseteq graphs',
           \A q \in Requests : IsCommitted(q) => IsCommitted(q)'
    PROVE  DatabaseInv'
  <1>1. KeysAreUnique' /\ NodesAreContained' /\ EdgesAreInside'
    BY DEF AllInv, DatabaseInv, KeysAreUnique, NodesAreContained, EdgesAreInside
  <1>2. ASSUME NEW g \in Graphs
        PROVE  /\ Len(history'[g]) >= 1
               /\ Content(g)' = history'[g][Len(history'[g])]
               /\ \A i \in 1 .. Len(history'[g]) : CommitIsWhole(g, i)'
    <2>1. Content(g)' = Content(g)
      BY DEF Content, NodesOf, EdgesOf
    <2>2. Len(history[g]) >= 1 /\ Content(g) = history[g][Len(history[g])]
      BY DEF AllInv, DatabaseInv, StoredIsLatest
    <2>3. ASSUME NEW i \in 1 .. Len(history[g])
          PROVE  CommitIsWhole(g, i)'
      <3>1. CommitIsWhole(g, i) /\ history[g][i].nodes \subseteq Elements
        BY ContentsAre
      <3>2. \A x \in history[g][i].nodes : x.graph = g /\ IsCommitted(x.by)'
        BY <3>1 DEF CommitIsWhole, Elements
      <3>3. IsValid(Shown(history[g][i]))' /\ Cardinality(history[g][i].nodes)' <= MaxNodes
        BY <3>1 DEF CommitIsWhole
      <3> QED
        BY <3>1, <3>2, <3>3 DEF CommitIsWhole
    <2> QED
      BY <2>1, <2>2, <2>3
  <1> QED
    BY <1>1, <1>2 DEF DatabaseInv, StoredIsLatest

TransactionStays(r) ==
    \/ tx[r] \in {"none", "sent"} /\ tx'[r] \in {"none", "sent"}
    \/ tx'[r] = tx[r] /\ call'[r] = call[r]

(* Nothing has been written for r, or nothing changes about its transaction. *)
LEMMA WritersStay ==
    ASSUME TypeOK, WriterInv, NEW r \in Requests, UNCHANGED <<database, lock, old>>,
           TransactionStays(r),
           \A q \in Requests \ {r} : SameRequest(q)
    PROVE  WriterInv' /\ HistoryGrows
  <1> USE DEF TransactionStays, WriterInv, LocksAreHeld, OldIsCurrent, SameRequest, NodesOf, database
  <1>1. \A q \in Requests : tx'[q] \in {"locked", "matched", "applying"} => lock'[call'[q].g] = q
    OBVIOUS
  <1>2. ASSUME NEW g \in Graphs, lock'[g] # None
        PROVE  /\ tx'[lock'[g]] \in {"locked", "matched", "applying"} /\ call'[lock'[g]].g = g
               /\ lock[g] # None /\ tx'[lock'[g]] = tx[lock[g]]
    <2>1. lock[g] \in Requests /\ lock'[g] = lock[g]
      BY <1>2 DEF TypeOK
    <2>2. tx[lock[g]] \in {"locked", "matched", "applying"} /\ call[lock[g]].g = g
      BY <1>2, <2>1
    <2>3. CASE lock[g] = r
      BY <1>2, <2>1, <2>2, <2>3
    <2>4. CASE lock[g] # r
      BY <1>2, <2>1, <2>2, <2>4
    <2> QED
      BY <2>3, <2>4
  <1>3. OldIsCurrent'
    OBVIOUS
  <1>4. HistoryGrows
    BY <1>2, HistoryStays
  <1> QED
    BY <1>1, <1>2, <1>3, <1>4

(* What a step of a handler leaves, and what it has to show.                 *)
LEMMA HandlerStep ==
    ASSUME AllInv, NEW r \in Requests, UNCHANGED <<database, lock, old>>,
           TypeOK', RequestIsRight(r)', TransactionStays(r),
           \A q \in Requests \ {r} : SameRequest(q)
    PROVE  AllInv'
  <1>1. \A q \in Requests : IsCommitted(q) => IsCommitted(q)'
    BY DEF IsCommitted, SameRequest, TransactionStays
  <1>2. DatabaseInv'
    BY <1>1, DatabaseStays DEF database
  <1>3. WriterInv' /\ HistoryGrows
    BY WritersStay DEF AllInv
  <1>4. \A q \in Requests \ {r} : RequestIsRight(q)'
    BY <1>3, Untouched DEF AllInv, database
  <1> QED
    BY <1>2, <1>3, <1>4 DEF AllInv

(* The versions that r's query may meet.                                     *)
LEMMA HistoryFacts ==
    ASSUME AllInv, NEW r \in Requests, call[r].op # "none"
    PROVE  /\ call[r].g \in Graphs
           /\ h(r) \in Seq(Contents) /\ Len(h(r)) \in Nat /\ since[r] \in 1 .. Len(h(r))
           /\ Recent(r) \subseteq 1 .. Len(h(r)) /\ Len(h(r)) \in Recent(r)
           /\ \A i \in 1 .. Len(h(r)) : h(r)[i] \in Contents /\ CommitIsWhole(call[r].g, i)
           /\ Oldest(call[r].g) \in 1 .. Len(h(r)) /\ Len(h(r)) <= Oldest(call[r].g) + 1
  <1>1. call[r].g \in Graphs /\ since[r] \in 1 .. Len(h(r))
    BY InputFacts DEF AllInv, RequestIsRight, RequestInv, ReadsAreRecent
  <1> QED
    BY <1>1, OldestFacts, ContentsAre DEF h, Recent

(* r's reply, once its graph and its history are as they were.               *)
LEMMA SameHistory ==
    ASSUME NEW r \in Requests, UNCHANGED <<database, call, since>>
    PROVE  h(r)' = h(r) /\ Recent(r)' = Recent(r)
  BY DEF database, h, Recent

LEMMA ArriveStep ==
    ASSUME AllInv, NEW r \in Requests, Arrive(r)
    PROVE  AllInv'
  <1>0. TypeOK /\ RequestInv(r)
    BY DEF AllInv, RequestIsRight
  <1>1. PICK c \in Inputs[r] :
            /\ call' = [call EXCEPT ![r] = c]
            /\ since' = [since EXCEPT ![r] = Oldest(c.g)]
            /\ \/ c.op = "putGraph" /\ Send(r, c.g, "upsert")
               \/ c.op = "trace" /\ Await(r, c.g, "getNode") /\ UNCHANGED writers
               \/ c.op = "path" /\ Await(r, c.g, "paths") /\ UNCHANGED writers
               \/ /\ c.op \in { "putSnapshot", "getSnapshot", "summary", "question" }
                  /\ Await(r, c.g, "getGraph") /\ UNCHANGED writers
    BY DEF Arrive
  <1>2. /\ c \in Calls /\ c.g \in Graphs /\ c.op # "none" /\ c.op \in AllOperations
    BY <1>1, InputFacts
  <1>3. /\ pc[r] = "idle" /\ tx[r] = "none" /\ code[r] = "none" /\ reply[r] = NoReply
        /\ UNCHANGED <<database, reply, lock, old>>
    BY <1>0, <1>1 DEF Arrive, Send, writers, RequestInv, WriteIsAsked, ReadsAreRecent, TypeOK
  <1>4. Oldest(c.g) \in 1 .. Len(history[c.g]) /\ Len(history[c.g]) \in Nat \ {0}
    BY <1>2, OldestFacts
  <1>5. /\ call'[r] = c /\ since'[r] = Oldest(c.g) /\ sent'[r] = Oldest(c.g)
        /\ code'[r] = "none" /\ reply'[r] = NoReply
        /\ \/ c.op = "putGraph" /\ pc'[r] = "upsert" /\ tx'[r] = "sent"
           \/ c.op = "trace" /\ pc'[r] = "getNode" /\ tx'[r] = "none"
           \/ c.op = "path" /\ pc'[r] = "paths" /\ tx'[r] = "none"
           \/ /\ c.op \in { "putSnapshot", "getSnapshot", "summary", "question" }
              /\ pc'[r] = "getGraph" /\ tx'[r] = "none"
    BY <1>0, <1>1, <1>3 DEF Send, Await, TypeOK, writers
  <1>6. \A q \in Requests \ {r} : SameRequest(q)
    BY <1>0, <1>1, <1>3 DEF Send, Await, TypeOK, writers, SameRequest
  <1>7. TypeOK'
    <2>1. call' \in [Requests -> Calls \cup {NoCall}] /\ since' \in [Requests -> Nat]
      BY <1>0, <1>1, <1>2, <1>4 DEF TypeOK
    <2>2. pc' \in [Requests -> Waiting \cup {"idle", "done"}]
      BY <1>0, <1>1 DEF Send, Await, TypeOK, Waiting, Reading
    <2>3. sent' \in [Requests -> Nat]
      <3>1. Oldest(c.g) \in Nat /\ sent' = [sent EXCEPT ![r] = Oldest(c.g)]
        BY <1>1, <1>4 DEF Send, Await
      <3> QED
        BY <1>0, <3>1 DEF TypeOK
    <2>4. tx' \in [Requests -> Outcomes] /\ UNCHANGED code
      BY <1>0, <1>1 DEF Send, Await, writers, TypeOK, Outcomes
    <2> QED
      BY <1>0, <1>3, <2>1, <2>2, <2>3, <2>4 DEF TypeOK, database
  <1>8. TransactionStays(r)
    BY <1>3, <1>5 DEF TransactionStays
  <1>9. HistoryGrows
    BY <1>3, <1>6, <1>8, WritersStay DEF AllInv
  <1>10. RequestIsRight(r)'
    <2>1. WriteIsAsked(r)'
      BY <1>5 DEF WriteIsAsked
    <2>2. h(r)' = history[c.g] /\ Oldest(c.g)' >= Oldest(c.g) /\ Oldest(c.g)' \in Int
      BY <1>2, <1>3, <1>5, <1>9 DEF h, database, HistoryGrows, Oldest
    <2>3. since'[r] <= Oldest(c.g)' /\ since'[r] \in 1 .. Len(h(r)') /\ sent'[r] = since'[r]
      BY <1>4, <1>5, <2>2
    <2>4. Oldest(call[r].g)' = Oldest(c.g)'
      BY <1>5 DEF Oldest
    <2>5. NodesBetween(r, since[r], sent[r] + 1)'
      BY <1>5 DEF NodesBetween, NoReply
    <2>6. reply'[r].edges = {} /\ reply'[r].paths = {}
      BY <1>5 DEF NoReply
    <2>7. ReadsAreRecent(r)'
      BY <1>2, <1>4, <1>5, <2>2, <2>3, <2>4, <2>5, <2>6
      DEF ReadsAreRecent, AllOperations, IsCommitted, Exports
    <2> QED
      BY <1>5, <2>1, <2>7 DEF RequestIsRight, RequestInv, ReplyIsRecent
  <1> QED
    BY <1>3, <1>6, <1>7, <1>8, <1>10, HandlerStep

(* What a request that has not yet written may await: its next query finds   *)
(* nothing older than its answer may tell of.                                *)
LEMMA AwaitIsRecent ==
    ASSUME AllInv, NEW r \in Requests, call[r].op # "none", tx[r] # "applying"
    PROVE  /\ Oldest(call[r].g) \in since[r] .. Len(h(r)) /\ Oldest(call[r].g) \in Nat
           /\ Len(h(r)) <= Oldest(call[r].g) + 1
  <1>1. since[r] <= Oldest(call[r].g)
    BY DEF AllInv, RequestIsRight, RequestInv, ReadsAreRecent
  <1> QED
    BY <1>1, HistoryFacts

LEMMA GetGraphStep ==
    ASSUME AllInv, NEW r \in Requests, GetGraph(r)
    PROVE  AllInv'
  <1>0. TypeOK /\ RequestInv(r)
    BY DEF AllInv, RequestIsRight
  <1>1. /\ pc[r] = "getGraph" /\ tx[r] = "none" /\ code[r] = "none" /\ reply[r] = NoReply
        /\ UNCHANGED <<database, call, since, lock, old>>
    BY <1>0 DEF GetGraph, Send, writers, RequestInv, WriteIsAsked, ReadsAreRecent, TypeOK
  <1>2. call[r].op \in { "putSnapshot", "getSnapshot", "summary", "question" }
    BY <1>0, <1>1 DEF RequestInv, ReadsAreRecent, Exports
  <1>3. Oldest(call[r].g) \in since[r] .. Len(h(r)) /\ Oldest(call[r].g) \in Nat
    BY <1>1, <1>2, AwaitIsRecent
  <1>4. TypeOK'
    <2>1. pc' \in [Requests -> Waiting \cup {"idle", "done"}] /\ code' \in [Requests -> Codes]
      BY <1>0 DEF GetGraph, Send, Await, Problem, Answer, TypeOK, Waiting, Reading, Codes
    <2>2. tx' \in [Requests -> Outcomes]
      BY <1>0 DEF GetGraph, Send, writers, TypeOK, Outcomes
    <2>3. reply' \in [Requests -> Replies]
      BY <1>0, NoReplyType DEF GetGraph, Problem, Returns, TypeOK
    <2>4. sent' \in [Requests -> Nat]
      <3>1. sent' = [sent EXCEPT ![r] = 0] \/ sent' = [sent EXCEPT ![r] = Oldest(call[r].g)]
        BY DEF GetGraph, Problem, Answer, Send, Await
      <3>2. PICK n \in Nat : sent' = [sent EXCEPT ![r] = n]
        BY <1>3, <3>1
      <3> QED
        BY <1>0, <3>2 DEF TypeOK
    <2> QED
      BY <1>0, <1>1, <2>1, <2>2, <2>3, <2>4 DEF TypeOK, database
  <1>5. \A q \in Requests \ {r} : SameRequest(q)
    BY <1>0, <1>1
    DEF GetGraph, Send, Await, Problem, Answer, Returns, writers, TypeOK, SameRequest
  <1>6. /\ reply'[r] = NoReply
        /\ \/ /\ pc'[r] = "done" /\ code'[r] \in {"notFound", "invalid"} /\ tx'[r] = "none"
           \/ /\ pc'[r] = "replace" /\ code'[r] = "none" /\ tx'[r] = "sent"
              /\ call[r].op = "putSnapshot" /\ call[r].g \in graphs /\ IsValid(call[r].s)
           \/ /\ pc'[r] = "listNodes" /\ code'[r] = "none" /\ tx'[r] = "none"
              /\ call[r].op # "putSnapshot" /\ sent'[r] = Oldest(call[r].g)
    BY <1>0, <1>1 DEF GetGraph, Send, Await, Problem, Answer, Returns, writers, TypeOK
  <1>7. TransactionStays(r)
    BY <1>1, <1>6 DEF TransactionStays
  <1>8. HistoryGrows
    BY <1>1, <1>5, <1>7, WritersStay DEF AllInv
  <1>9. RequestIsRight(r)'
    <2>1. WriteIsAsked(r)'
      BY <1>1, <1>2, <1>6 DEF WriteIsAsked, database
    <2>2. /\ call[r].g \in Graphs /\ since[r] \in 1 .. Len(h(r)) /\ h(r)' = h(r)
          /\ call[r] \in Inputs[r]
      BY <1>0, <1>1, <1>2, HistoryFacts, SameHistory DEF RequestInv, ReadsAreRecent
    <2>3. since[r] <= Oldest(call[r].g)'
      <3>1. Oldest(call[r].g)' >= Oldest(call[r].g) /\ Oldest(call[r].g)' \in Int
        BY <1>1, <2>2, <1>8 DEF HistoryGrows, Oldest
      <3> QED
        BY <1>3, <2>2, <3>1
    <2>4. ReadsAreRecent(r)'
      BY <1>1, <1>2, <1>3, <1>6, <2>2, <2>3 DEF ReadsAreRecent, IsCommitted, Reading, Exports
    <2> QED
      BY <1>6, <2>1, <2>4 DEF RequestIsRight, RequestInv, ReplyIsRecent
  <1> QED
    BY <1>1, <1>4, <1>5, <1>7, <1>9, HandlerStep

(* A query has returned or failed: r alone has moved, to p, with answer c,   *)
(* its next query sent at n, and the reply rep.                              *)
Moves(r, p, c, n, rep) ==
    /\ UNCHANGED <<database, writers, call, since>>
    /\ p \in Waiting \cup {"done"} /\ c \in Codes /\ n \in Nat /\ rep \in Replies
    /\ pc' = [pc EXCEPT ![r] = p]
    /\ code' = [code EXCEPT ![r] = c]
    /\ sent' = [sent EXCEPT ![r] = n]
    /\ reply' = [reply EXCEPT ![r] = rep]

LEMMA ReadStep ==
    ASSUME AllInv, NEW r \in Requests, NEW p, NEW c, NEW n, NEW rep,
           Moves(r, p, c, n, rep), RequestIsRight(r)'
    PROVE  AllInv'
  <1>0. TypeOK
    BY DEF AllInv
  <1>1. TypeOK'
    <2>1. pc' \in [Requests -> Waiting \cup {"idle", "done"}] /\ code' \in [Requests -> Codes]
      BY <1>0 DEF TypeOK, Moves
    <2>2. reply' \in [Requests -> Replies] /\ sent' \in [Requests -> Nat]
      BY <1>0 DEF TypeOK, Moves
    <2> QED
      BY <1>0, <2>1, <2>2 DEF TypeOK, Moves, database, writers
  <1>2. \A q \in Requests \ {r} : SameRequest(q)
    BY <1>0 DEF TypeOK, Moves, SameRequest, writers
  <1>3. TransactionStays(r) /\ UNCHANGED <<database, lock, old>>
    BY DEF Moves, writers, TransactionStays
  <1> QED
    BY <1>1, <1>2, <1>3, HandlerStep

LEMMA Moved ==
    ASSUME AllInv, NEW r \in Requests, NEW p, NEW c, NEW n, NEW rep, Moves(r, p, c, n, rep)
    PROVE  /\ pc'[r] = p /\ code'[r] = c /\ sent'[r] = n /\ reply'[r] = rep
           /\ tx'[r] = tx[r] /\ call'[r] = call[r] /\ since'[r] = since[r]
           /\ h(r)' = h(r) /\ Recent(r)' = Recent(r) /\ graphs' = graphs
           /\ Oldest(call[r].g)' = Oldest(call[r].g)
           /\ (/\ WriteIsAsked(r) /\ pc[r] # "idle" /\ p \notin {"upsert", "replace", "getGraph"}
               /\ c # "none" => p = "done"
               /\ c \in {"notFound", "invalid"} => tx[r] = "none")
                => WriteIsAsked(r)'
  <1>1. /\ pc'[r] = p /\ code'[r] = c /\ sent'[r] = n /\ reply'[r] = rep
        /\ tx'[r] = tx[r] /\ call'[r] = call[r] /\ since'[r] = since[r] /\ graphs' = graphs
        /\ p # "idle"
    BY DEF AllInv, TypeOK, Moves, writers, database, Waiting, Reading
  <1>2. h(r)' = h(r) /\ Recent(r)' = Recent(r)
    BY SameHistory DEF Moves
  <1>3. Oldest(call[r].g)' = Oldest(call[r].g)
    BY DEF Moves, writers, database, Oldest
  <1> QED
    BY <1>1, <1>2, <1>3 DEF WriteIsAsked

(* r ends without a reply. *)
LEMMA ProblemStep ==
    ASSUME AllInv, NEW r \in Requests, NEW c \in {"notFound", "invalid", "error"},
           pc[r] \in Waiting, c \in {"notFound", "invalid"} => tx[r] = "none",
           Problem(r, c), UNCHANGED <<database, writers, call, since>>
    PROVE  AllInv'
  <1>1. Moves(r, "done", c, 0, NoReply)
    BY NoReplyType DEF Moves, Problem, Answer, Returns, Codes
  <1>2. RequestIsRight(r)'
    <2> USE Moved, <1>1
    <2>1. pc[r] # "idle" /\ WriteIsAsked(r) /\ ReadsAreRecent(r)
      BY DEF AllInv, RequestIsRight, RequestInv, Waiting, Reading
    <2>2. WriteIsAsked(r)'
      BY <2>1
    <2>3. ReadsAreRecent(r)'
      BY <2>1 DEF ReadsAreRecent, IsCommitted, Waiting, Reading
    <2> QED
      BY <2>2, <2>3 DEF RequestIsRight, RequestInv, ReplyIsRecent
  <1> QED
    BY <1>1, <1>2, ReadStep

(* A request that is not yet answered is still an active one. *)
LEMMA ReaderFacts ==
    ASSUME AllInv, NEW r \in Requests, pc[r] \in Waiting
    PROVE  /\ TypeOK /\ WriteIsAsked(r) /\ ReadsAreRecent(r) /\ code[r] = "none"
           /\ reply[r] \in Replies /\ call[r] \in Calls /\ call[r].op # "none"
  <1>1. call[r].op # "none" /\ code[r] = "none"
    BY DEF AllInv, RequestIsRight, RequestInv, ReadsAreRecent, WriteIsAsked, Waiting, Reading, TypeOK
  <1> QED
    BY <1>1 DEF AllInv, RequestIsRight, RequestInv, TypeOK, NoCall

LEMMA ReadersDoNotWrite ==
    ASSUME AllInv, NEW r \in Requests,
           call[r].op \in {"getSnapshot", "summary", "question", "trace", "path"}
    PROVE  tx[r] = "none"
  BY DEF AllInv, RequestIsRight, RequestInv, WriteIsAsked

(* What a query finds, of versions of which it meets one or several.         *)
LEMMA FoundIsThere ==
    ASSUME NEW versions, NEW S \in Found(versions)
    PROVE  \A x \in S : \E V \in versions : x \in V
  BY DEF Found

LEMMA FoundOfOne ==
    ASSUME NEW V, NEW S \in Found({V})
    PROVE  S = V
  BY DEF Found

LEMMA FoundFacts ==
    ASSUME AllInv, NEW r \in Requests, pc[r] \in Reading
    PROVE  /\ sent[r] \in since[r] .. Len(h(r)) /\ sent[r] \in Recent(r)
           /\ \A S \in FoundNodes(r) :
                /\ S \subseteq Elements
                /\ \A x \in S : \E l \in Recent(r) : sent[r] <= l /\ x \in h(r)[l].nodes
                /\ sent[r] = Len(h(r)) => S = h(r)[Len(h(r))].nodes
           /\ \A S \in FoundEdges(r) :
                /\ S \subseteq Relationships
                /\ \A x \in S : \E l \in Recent(r) : sent[r] <= l /\ x \in h(r)[l].edges
                /\ sent[r] = Len(h(r)) => S = h(r)[Len(h(r))].edges
           /\ Met(r) \in SUBSET Contents
           /\ \A v \in Met(r) : \E l \in Recent(r) : sent[r] <= l /\ v = h(r)[l]
           /\ sent[r] = Len(h(r)) => Met(r) = {h(r)[Len(h(r))]}
  <1>0. call[r].op # "none" /\ sent[r] \in since[r] .. Len(h(r))
    BY ReaderFacts DEF Waiting, ReadsAreRecent
  <1>1. /\ Recent(r) \subseteq 1 .. Len(h(r)) /\ Len(h(r)) \in Nat /\ since[r] \in 1 .. Len(h(r))
        /\ \A i \in 1 .. Len(h(r)) : h(r)[i] \in Contents
    BY <1>0, HistoryFacts
  <1>2. \A i \in sent[r] .. Len(h(r)) : i \in Recent(r) /\ sent[r] <= i
    BY <1>0, <1>1 DEF Recent
  <1>3. Met(r) = { h(r)[i] : i \in sent[r] .. Len(h(r)) }
    BY DEF Met, h
  <1>4. \A v \in Met(r) : v \in Contents /\ \E l \in Recent(r) : sent[r] <= l /\ v = h(r)[l]
    BY <1>1, <1>2, <1>3
  <1>5. sent[r] = Len(h(r)) => Met(r) = {h(r)[Len(h(r))]}
    BY <1>0, <1>1, <1>3
  <1>6. ASSUME NEW S \in FoundNodes(r)
        PROVE  /\ S \subseteq Elements
               /\ \A x \in S : \E l \in Recent(r) : sent[r] <= l /\ x \in h(r)[l].nodes
               /\ sent[r] = Len(h(r)) => S = h(r)[Len(h(r))].nodes
    <2>1. \A x \in S : \E v \in Met(r) : x \in v.nodes
      BY FoundIsThere DEF FoundNodes
    <2> DEFINE versions == { v.nodes : v \in Met(r) }
    <2>2. /\ sent[r] = Len(h(r)) => versions = {h(r)[Len(h(r))].nodes}
          /\ S \in Found(versions)
      BY <1>5 DEF FoundNodes
    <2>3. sent[r] = Len(h(r)) => S = h(r)[Len(h(r))].nodes
      <3> HIDE DEF versions
      <3> QED
        BY <2>2, FoundOfOne
    <2>4. \A x \in S : \E l \in Recent(r) : sent[r] <= l /\ x \in h(r)[l].nodes
      BY <2>1, <1>4
    <2>5. S \subseteq Elements
      BY <2>1, <1>4 DEF Contents
    <2> QED
      BY <2>3, <2>4, <2>5
  <1>7. ASSUME NEW S \in FoundEdges(r)
        PROVE  /\ S \subseteq Relationships
               /\ \A x \in S : \E l \in Recent(r) : sent[r] <= l /\ x \in h(r)[l].edges
               /\ sent[r] = Len(h(r)) => S = h(r)[Len(h(r))].edges
    <2>1. \A x \in S : \E v \in Met(r) : x \in v.edges
      BY FoundIsThere DEF FoundEdges
    <2> DEFINE versions == { v.edges : v \in Met(r) }
    <2>2. /\ sent[r] = Len(h(r)) => versions = {h(r)[Len(h(r))].edges}
          /\ S \in Found(versions)
      BY <1>5 DEF FoundEdges
    <2>3. sent[r] = Len(h(r)) => S = h(r)[Len(h(r))].edges
      <3> HIDE DEF versions
      <3> QED
        BY <2>2, FoundOfOne
    <2>4. \A x \in S : \E l \in Recent(r) : sent[r] <= l /\ x \in h(r)[l].edges
      BY <2>1, <1>4
    <2>5. S \subseteq Relationships
      BY <2>1, <1>4 DEF Contents
    <2> QED
      BY <2>3, <2>4, <2>5
  <1> QED
    BY <1>0, <1>1, <1>2, <1>4, <1>5, <1>6, <1>7

LEMMA WrittenStep ==
    ASSUME AllInv, NEW r \in Requests, Written(r)
    PROVE  AllInv'
  <1>0. /\ pc[r] \in {"upsert", "replace"} /\ tx[r] = "committed"
        /\ UNCHANGED <<database, writers, call, since>>
    BY DEF Written, Continue
  <1>1. /\ TypeOK /\ WriteIsAsked(r) /\ ReadsAreRecent(r) /\ code[r] = "none"
        /\ reply[r] \in Replies /\ reply[r] = NoReply /\ call[r].op # "none"
    BY <1>0, ReaderFacts DEF Waiting, ReadsAreRecent
  <1>2. /\ since[r] \in 1 .. Len(h(r)) /\ since[r] \in Recent(r) /\ Len(h(r)) \in Nat
        /\ h(r)[since[r]] \in Contents
    BY <1>1, HistoryFacts DEF Recent
  <1>3. CASE pc[r] = "upsert"
    <2> DEFINE v == h(r)[since[r]]
               rep == [nodes |-> v.nodes, edges |-> v.edges, paths |-> {}]
    <2>1. /\ rep \in Replies /\ rep.nodes = v.nodes /\ rep.edges = v.edges /\ rep.paths = {}
      <3>1. v.nodes \in SUBSET Elements /\ v.edges \in SUBSET Relationships
        BY <1>2 DEF Contents
      <3> HIDE DEF v
      <3> QED
        BY <3>1 DEF Replies
    <2>2. Moves(r, "done", "ok", 0, rep)
      BY <1>0, <1>3, <2>1 DEF Moves, Written, Continue, Answer, Returns, Codes, h
    <2> HIDE DEF rep
    <2>3. call[r].op = "putGraph"
      BY <1>1, <1>3 DEF ReadsAreRecent
    <2>4. WriteIsAsked(r)'
      BY <1>0, <1>1, <2>2, Moved
    <2>5. ReadsAreRecent(r)'
      BY <1>1, <2>2, Moved DEF ReadsAreRecent, IsCommitted, Reading
    <2>6. NodesBetween(r, since[r], since[r] + 1)'
      BY <1>2, <2>1, <2>2, Moved DEF NodesBetween
    <2>7. EdgesBetween(r, since[r], Len(h(r)))'
      BY <1>2, <2>1, <2>2, Moved DEF EdgesBetween
    <2>8. PathsBetween(r, since[r], Len(h(r)))'
      BY <2>1, <2>2, Moved DEF PathsBetween
    <2>9. InOrder(r)'
      <3>1. since'[r] \in Recent(r)'
        BY <1>2, <2>2, Moved
      <3> QED
        BY <2>6, <2>7, <2>8, <3>1 DEF InOrder
    <2>10. Undisturbed(r)' => NodesAreAll(r)' /\ EdgesAreAll(r)'
      BY <2>1, <2>2, Moved DEF Undisturbed, NodesAreAll, EdgesAreAll
    <2>11. ReplyIsRecent(r)'
      BY <1>0, <2>1, <2>2, <2>3, <2>9, <2>10, Moved DEF ReplyIsRecent
    <2> QED
      BY <2>2, <2>4, <2>5, <2>11, ReadStep DEF RequestIsRight, RequestInv
  <1>4. CASE pc[r] = "replace"
    <2>1. Oldest(call[r].g) \in since[r] .. Len(h(r)) /\ Oldest(call[r].g) \in Nat
      BY <1>0, <1>1, AwaitIsRecent
    <2>2. Moves(r, "listNodes", "none", Oldest(call[r].g), reply[r])
      BY <1>0, <1>1, <1>4, <2>1
      DEF Moves, Written, Continue, Await, Returns, TypeOK, Waiting, Reading, Codes
    <2>3. call[r].op = "putSnapshot"
      BY <1>1, <1>4 DEF ReadsAreRecent
    <2>4. WriteIsAsked(r)'
      BY <1>0, <1>1, <2>2, Moved
    <2>5. ReadsAreRecent(r)'
      BY <1>0, <1>1, <2>1, <2>2, <2>3, Moved DEF ReadsAreRecent, IsCommitted, Reading, Exports
    <2>6. ReplyIsRecent(r)'
      BY <2>2, Moved DEF ReplyIsRecent
    <2> QED
      BY <2>2, <2>4, <2>5, <2>6, ReadStep DEF RequestIsRight, RequestInv
  <1> QED
    BY <1>0, <1>3, <1>4

LEMMA ListNodesStep ==
    ASSUME AllInv, NEW r \in Requests, ListNodes(r)
    PROVE  AllInv'
  <1>0. /\ pc[r] = "listNodes" /\ UNCHANGED <<database, writers, call, since>>
    BY DEF ListNodes
  <1>1. /\ TypeOK /\ WriteIsAsked(r) /\ ReadsAreRecent(r) /\ code[r] = "none"
        /\ reply[r] \in Replies /\ reply[r] = NoReply /\ call[r].op # "none"
        /\ call[r].op \in Exports \cup {"summary", "question"}
    BY <1>0, ReaderFacts DEF Waiting, Reading, ReadsAreRecent
  <1>2. tx[r] # "applying"
    BY <1>0, <1>1, ReadersDoNotWrite DEF ReadsAreRecent, Exports
  <1>3. /\ Oldest(call[r].g) \in since[r] .. Len(h(r)) /\ Oldest(call[r].g) \in Nat
        /\ Len(h(r)) <= Oldest(call[r].g) + 1
    BY <1>1, <1>2, AwaitIsRecent
  <1>4. /\ Len(h(r)) \in Nat /\ since[r] \in 1 .. Len(h(r)) /\ Recent(r) \subseteq 1 .. Len(h(r))
    BY <1>1, HistoryFacts
  <1>5. CASE call[r].op = "summary" /\ Await(r, call[r].g, "counts") /\ UNCHANGED reply
    <2>1. Moves(r, "counts", "none", Oldest(call[r].g), reply[r])
      BY <1>0, <1>1, <1>3, <1>5 DEF Moves, Await, TypeOK, Waiting, Reading, Codes
    <2>2. WriteIsAsked(r)'
      BY <1>0, <1>1, <2>1, Moved
    <2>3. ReadsAreRecent(r)' /\ ReplyIsRecent(r)'
      BY <1>1, <1>3, <1>5, <2>1, Moved DEF ReadsAreRecent, ReplyIsRecent, IsCommitted
    <2> QED
      BY <2>1, <2>2, <2>3, ReadStep DEF RequestIsRight, RequestInv
  <1>6. ASSUME NEW S \in FoundNodes(r), NEW T \in Limited(S, ListLimit)
        PROVE  /\ T \subseteq Elements
               /\ \A x \in T : \E l \in Recent(r) :
                    since[r] <= l /\ l <= Oldest(call[r].g) + 1 /\ x \in h(r)[l].nodes
               /\ Undisturbed(r) => T = h(r)[Len(h(r))].nodes
    <2>1. T \subseteq S /\ (Cardinality(S) <= MaxNodes => T = S)
      BY LimitedIsPart DEF ListLimit
    <2>2. /\ S \subseteq Elements
          /\ \A x \in S : \E l \in Recent(r) : sent[r] <= l /\ x \in h(r)[l].nodes
          /\ sent[r] = Len(h(r)) => S = h(r)[Len(h(r))].nodes
          /\ sent[r] \in since[r] .. Len(h(r))
      BY <1>0, FoundFacts DEF Reading
    <2>3. \A l \in Recent(r) : since[r] <= l /\ l <= Oldest(call[r].g) + 1
      BY <1>3, <1>4 DEF Recent
    <2>4. ASSUME Undisturbed(r)
          PROVE  T = h(r)[Len(h(r))].nodes
      <3>1. sent[r] = Len(h(r))
        BY <1>4, <2>2, <2>4 DEF Undisturbed
      <3>2. CommitIsWhole(call[r].g, Len(h(r)))
        BY <1>1, <1>4, HistoryFacts
      <3>3. Cardinality(h(r)[Len(h(r))].nodes) <= MaxNodes
        BY <3>2 DEF CommitIsWhole, h
      <3> QED
        BY <2>1, <2>2, <3>1, <3>3
    <2> QED
      BY <2>1, <2>2, <2>3, <2>4
  <1>7. ASSUME NEW S \in FoundNodes(r), NEW T \in Limited(S, ListLimit),
               call[r].op \in { "putSnapshot", "getSnapshot" },
               Await(r, call[r].g, "listEdges"),
               Returns(r, [reply[r] EXCEPT !.nodes = T])
        PROVE  AllInv'
    <2> DEFINE rep == [reply[r] EXCEPT !.nodes = T]
    <2>1. rep \in Replies /\ rep.nodes = T /\ rep.edges = {} /\ rep.paths = {}
      BY <1>1, <1>6 DEF Replies, NoReply
    <2> HIDE DEF rep
    <2>2. Moves(r, "listEdges", "none", Oldest(call[r].g), rep)
      BY <1>0, <1>1, <1>3, <1>7, <2>1
      DEF rep, Moves, Await, Returns, TypeOK, Waiting, Reading, Codes
    <2>3. WriteIsAsked(r)'
      BY <1>0, <1>1, <2>2, Moved
    <2>4. NodesBetween(r, since[r], sent[r] + 1)'
      BY <1>6, <2>1, <2>2, Moved DEF NodesBetween
    <2>5. Undisturbed(r)' => NodesAreAll(r)'
      BY <1>6, <2>1, <2>2, Moved DEF Undisturbed, NodesAreAll
    <2>6. ReadsAreRecent(r)'
      BY <1>0, <1>1, <1>3, <1>7, <2>1, <2>2, <2>4, <2>5, Moved
      DEF ReadsAreRecent, IsCommitted, Exports
    <2>7. ReplyIsRecent(r)'
      BY <2>2, Moved DEF ReplyIsRecent
    <2> QED
      BY <2>2, <2>3, <2>6, <2>7, ReadStep DEF RequestIsRight, RequestInv
  <1>8. ASSUME NEW S \in FoundNodes(r), NEW T \in Limited(S, ListLimit),
               call[r].op = "question", Mentioned(call[r].q) \subseteq Ids(T),
               Await(r, call[r].g, "paths"),
               Returns(r, [reply[r] EXCEPT
                              !.nodes = { x \in T : x.id \in Mentioned(call[r].q) }])
        PROVE  AllInv'
    <2> DEFINE U == { x \in T : x.id \in Mentioned(call[r].q) }
               rep == [reply[r] EXCEPT !.nodes = U]
    <2>1. U \subseteq T /\ Ids(U) = Mentioned(call[r].q)
      BY <1>8 DEF Ids
    <2> HIDE DEF U
    <2>2. rep \in Replies /\ rep.nodes = U /\ rep.edges = {} /\ rep.paths = {}
      BY <1>1, <1>6, <2>1 DEF Replies, NoReply
    <2> HIDE DEF rep
    <2>3. Moves(r, "paths", "none", Oldest(call[r].g), rep)
      BY <1>0, <1>1, <1>3, <1>8, <2>2
      DEF U, rep, Moves, Await, Returns, TypeOK, Waiting, Reading, Codes
    <2>4. WriteIsAsked(r)'
      BY <1>0, <1>1, <2>3, Moved
    <2>5. NodesBetween(r, since[r], sent[r] + 1)'
      BY <1>6, <2>1, <2>2, <2>3, Moved DEF NodesBetween
    <2>6. ReadsAreRecent(r)'
      BY <1>0, <1>1, <1>3, <1>8, <2>1, <2>2, <2>3, <2>5, Moved
      DEF ReadsAreRecent, IsCommitted, Exports
    <2>7. ReplyIsRecent(r)'
      BY <2>3, Moved DEF ReplyIsRecent
    <2> QED
      BY <2>3, <2>4, <2>6, <2>7, ReadStep DEF RequestIsRight, RequestInv
  <1>9. CASE call[r].op = "question" /\ Problem(r, "invalid")
    BY <1>0, <1>9, ProblemStep, ReadersDoNotWrite DEF Waiting, Reading
  <1> QED
    BY <1>5, <1>7, <1>8, <1>9 DEF ListNodes

LEMMA ListEdgesStep ==
    ASSUME AllInv, NEW r \in Requests, ListEdges(r)
    PROVE  AllInv'
  <1>0. pc[r] = "listEdges" /\ UNCHANGED <<database, writers, call, since>>
    BY DEF ListEdges
  <1>1. /\ TypeOK /\ WriteIsAsked(r) /\ ReadsAreRecent(r) /\ code[r] = "none"
        /\ reply[r] \in Replies /\ reply[r].edges = {} /\ reply[r].paths = {}
        /\ call[r].op \in Exports /\ NodesBetween(r, since[r], sent[r] + 1)
        /\ Undisturbed(r) => NodesAreAll(r)
    BY <1>0, ReaderFacts DEF Waiting, Reading, ReadsAreRecent
  <1>2. /\ Len(h(r)) \in Nat /\ since[r] \in 1 .. Len(h(r)) /\ Recent(r) \subseteq 1 .. Len(h(r))
    BY <1>1, HistoryFacts DEF Exports
  <1>3. PICK S \in FoundEdges(r) : Returns(r, [reply[r] EXCEPT !.edges = S]) /\ Answer(r, "ok")
    BY DEF ListEdges
  <1>4. /\ S \subseteq Relationships
        /\ \A x \in S : \E l \in Recent(r) : sent[r] <= l /\ x \in h(r)[l].edges
        /\ sent[r] = Len(h(r)) => S = h(r)[Len(h(r))].edges
        /\ sent[r] \in since[r] .. Len(h(r)) /\ sent[r] \in Recent(r)
    BY <1>0, FoundFacts DEF Reading
  <1> DEFINE rep == [reply[r] EXCEPT !.edges = S]
  <1>5. /\ rep \in Replies /\ rep.nodes = reply[r].nodes /\ rep.edges = S /\ rep.paths = {}
    BY <1>1, <1>4 DEF Replies
  <1> HIDE DEF rep
  <1>6. Moves(r, "done", "ok", 0, rep)
    BY <1>0, <1>3, <1>5 DEF rep, Moves, Answer, Returns, Codes
  <1>7. WriteIsAsked(r)'
    BY <1>0, <1>1, <1>6, Moved
  <1>8. ReadsAreRecent(r)'
    BY <1>1, <1>2, <1>6, Moved DEF ReadsAreRecent, IsCommitted, Reading, Exports
  <1>9. InOrder(r)'
    <2>1. NodesBetween(r, since[r], sent[r] + 1) /\ sent[r] \in Recent(r)'
      BY <1>1, <1>4, <1>6, Moved
    <2>2. PICK k : k = sent[r]
      OBVIOUS
    <2>3. NodesBetween(r, since[r], k + 1)'
      BY <2>1, <2>2, <1>5, <1>6, Moved DEF NodesBetween
    <2>4. EdgesBetween(r, k, Len(h(r)))'
      BY <2>2, <1>2, <1>4, <1>5, <1>6, Moved DEF EdgesBetween
    <2>5. PathsBetween(r, k, Len(h(r)))'
      BY <1>5, <1>6, Moved DEF PathsBetween
    <2> QED
      BY <2>1, <2>2, <2>3, <2>4, <2>5 DEF InOrder
  <1>10. Undisturbed(r)' => NodesAreAll(r)' /\ EdgesAreAll(r)'
    <2>1. Undisturbed(r) => sent[r] = Len(h(r))
      BY <1>2, <1>4 DEF Undisturbed
    <2> QED
      BY <2>1, <1>1, <1>4, <1>5, <1>6, Moved DEF Undisturbed, NodesAreAll, EdgesAreAll
  <1>11. ReplyIsRecent(r)'
    BY <1>0, <1>1, <1>6, <1>9, <1>10, Moved DEF ReplyIsRecent, ReadsAreRecent, Exports, IsCommitted
  <1> QED
    BY <1>6, <1>7, <1>8, <1>11, ReadStep DEF RequestIsRight, RequestInv

(* The two queries of a summary: what has been counted first is recent, and  *)
(* complete if nothing was committed since.                                  *)
LEMMA CountNodesStep ==
    ASSUME AllInv, NEW r \in Requests, CountNodes(r)
    PROVE  AllInv'
  <1>0. pc[r] \in {"counts", "countNodes"} /\ UNCHANGED <<database, writers, call, since>>
    BY DEF CountNodes, Count
  <1>1. /\ TypeOK /\ WriteIsAsked(r) /\ ReadsAreRecent(r) /\ code[r] = "none"
        /\ reply[r] \in Replies /\ reply[r].paths = {} /\ call[r].op = "summary"
        /\ pc[r] = "counts" => reply[r] = NoReply
        /\ pc[r] = "countNodes" => EdgesBetween(r, since[r], Len(h(r)))
        /\ pc[r] = "countNodes" /\ Undisturbed(r) => EdgesAreAll(r)
        /\ tx[r] = "none"
    BY <1>0, ReaderFacts, ReadersDoNotWrite DEF Waiting, Reading, ReadsAreRecent, NoReply
  <1>2. /\ Len(h(r)) \in Nat /\ since[r] \in 1 .. Len(h(r)) /\ Recent(r) \subseteq 1 .. Len(h(r))
    BY <1>1, HistoryFacts
  <1>3. PICK S \in FoundNodes(r) : Returns(r, [reply[r] EXCEPT !.nodes = S])
    BY DEF CountNodes
  <1>4. /\ S \subseteq Elements
        /\ \A x \in S : \E l \in Recent(r) : sent[r] <= l /\ x \in h(r)[l].nodes
        /\ sent[r] = Len(h(r)) => S = h(r)[Len(h(r))].nodes
        /\ sent[r] \in since[r] .. Len(h(r))
    BY <1>0, FoundFacts DEF Reading
  <1> DEFINE rep == [reply[r] EXCEPT !.nodes = S]
  <1>5. /\ rep \in Replies /\ rep.nodes = S /\ rep.edges = reply[r].edges /\ rep.paths = {}
    BY <1>1, <1>4 DEF Replies
  <1> HIDE DEF rep
  <1>6. \/ pc[r] = "counts" /\ Moves(r, "countEdges", "none", sent[r], rep)
        \/ pc[r] = "countNodes" /\ Moves(r, "done", "ok", 0, rep)
    <2>1. CASE pc[r] = "counts"
      <3>1. sent' = [sent EXCEPT ![r] = sent[r]] /\ code' = [code EXCEPT ![r] = "none"]
        BY <1>1, <2>1 DEF CountNodes, Count, TypeOK
      <3>2. sent[r] \in Nat
        BY <1>1 DEF TypeOK
      <3> QED
        BY <1>0, <1>3, <1>5, <2>1, <3>1, <3>2
        DEF rep, Moves, Returns, Waiting, Reading, Codes, CountNodes, Count
    <2>2. CASE pc[r] = "countNodes"
      BY <1>0, <1>3, <1>5, <2>2 DEF rep, Moves, Answer, Returns, Codes, CountNodes, Count
    <2> QED
      BY <1>0, <2>1, <2>2
  <1>7. NodesBetween(r, since[r], Len(h(r)))'
    <2>1. \A l \in Recent(r) : since[r] <= l /\ l <= Len(h(r))
      BY <1>2 DEF Recent
    <2> QED
      BY <2>1, <1>4, <1>5, <1>6, Moved DEF NodesBetween
  <1>8. EdgesBetween(r, since[r], Len(h(r))) => EdgesBetween(r, since[r], Len(h(r)))'
    BY <1>5, <1>6, Moved DEF EdgesBetween
  <1>9. Undisturbed(r)' => Undisturbed(r) /\ NodesAreAll(r)' /\ (EdgesAreAll(r) => EdgesAreAll(r)')
    <2>1. Undisturbed(r) => sent[r] = Len(h(r))
      BY <1>2, <1>4 DEF Undisturbed
    <2> QED
      BY <2>1, <1>4, <1>5, <1>6, Moved DEF Undisturbed, NodesAreAll, EdgesAreAll
  <1>10. WriteIsAsked(r)'
    BY <1>1, <1>6, Moved DEF WriteIsAsked
  <1>11. ReadsAreRecent(r)'
    BY <1>1, <1>2, <1>4, <1>5, <1>6, <1>7, <1>9, Moved
    DEF ReadsAreRecent, IsCommitted, Reading, NoReply
  <1>12. ReplyIsRecent(r)'
    BY <1>1, <1>6, <1>7, <1>8, <1>9, Moved DEF ReplyIsRecent, Exports
  <1> QED
    BY <1>6, <1>10, <1>11, <1>12, ReadStep DEF RequestIsRight, RequestInv

LEMMA CountEdgesStep ==
    ASSUME AllInv, NEW r \in Requests, CountEdges(r)
    PROVE  AllInv'
  <1>0. pc[r] \in {"counts", "countEdges"} /\ UNCHANGED <<database, writers, call, since>>
    BY DEF CountEdges, Count
  <1>1. /\ TypeOK /\ WriteIsAsked(r) /\ ReadsAreRecent(r) /\ code[r] = "none"
        /\ reply[r] \in Replies /\ reply[r].paths = {} /\ call[r].op = "summary"
        /\ pc[r] = "counts" => reply[r] = NoReply
        /\ pc[r] = "countEdges" => NodesBetween(r, since[r], Len(h(r)))
        /\ pc[r] = "countEdges" /\ Undisturbed(r) => NodesAreAll(r)
        /\ tx[r] = "none"
    BY <1>0, ReaderFacts, ReadersDoNotWrite DEF Waiting, Reading, ReadsAreRecent, NoReply
  <1>2. /\ Len(h(r)) \in Nat /\ since[r] \in 1 .. Len(h(r)) /\ Recent(r) \subseteq 1 .. Len(h(r))
    BY <1>1, HistoryFacts
  <1>3. PICK S \in FoundEdges(r) : Returns(r, [reply[r] EXCEPT !.edges = S])
    BY DEF CountEdges
  <1>4. /\ S \subseteq Relationships
        /\ \A x \in S : \E l \in Recent(r) : sent[r] <= l /\ x \in h(r)[l].edges
        /\ sent[r] = Len(h(r)) => S = h(r)[Len(h(r))].edges
        /\ sent[r] \in since[r] .. Len(h(r))
    BY <1>0, FoundFacts DEF Reading
  <1> DEFINE rep == [reply[r] EXCEPT !.edges = S]
  <1>5. /\ rep \in Replies /\ rep.edges = S /\ rep.nodes = reply[r].nodes /\ rep.paths = {}
    BY <1>1, <1>4 DEF Replies
  <1> HIDE DEF rep
  <1>6. \/ pc[r] = "counts" /\ Moves(r, "countNodes", "none", sent[r], rep)
        \/ pc[r] = "countEdges" /\ Moves(r, "done", "ok", 0, rep)
    <2>1. CASE pc[r] = "counts"
      <3>1. sent' = [sent EXCEPT ![r] = sent[r]] /\ code' = [code EXCEPT ![r] = "none"]
        BY <1>1, <2>1 DEF CountEdges, Count, TypeOK
      <3>2. sent[r] \in Nat
        BY <1>1 DEF TypeOK
      <3> QED
        BY <1>0, <1>3, <1>5, <2>1, <3>1, <3>2
        DEF rep, Moves, Returns, Waiting, Reading, Codes, CountEdges, Count
    <2>2. CASE pc[r] = "countEdges"
      BY <1>0, <1>3, <1>5, <2>2 DEF rep, Moves, Answer, Returns, Codes, CountEdges, Count
    <2> QED
      BY <1>0, <2>1, <2>2
  <1>7. EdgesBetween(r, since[r], Len(h(r)))'
    <2>1. \A l \in Recent(r) : since[r] <= l /\ l <= Len(h(r))
      BY <1>2 DEF Recent
    <2> QED
      BY <2>1, <1>4, <1>5, <1>6, Moved DEF EdgesBetween
  <1>8. NodesBetween(r, since[r], Len(h(r))) => NodesBetween(r, since[r], Len(h(r)))'
    BY <1>5, <1>6, Moved DEF NodesBetween
  <1>9. Undisturbed(r)' => Undisturbed(r) /\ EdgesAreAll(r)' /\ (NodesAreAll(r) => NodesAreAll(r)')
    <2>1. Undisturbed(r) => sent[r] = Len(h(r))
      BY <1>2, <1>4 DEF Undisturbed
    <2> QED
      BY <2>1, <1>4, <1>5, <1>6, Moved DEF Undisturbed, NodesAreAll, EdgesAreAll
  <1>10. WriteIsAsked(r)'
    BY <1>1, <1>6, Moved DEF WriteIsAsked
  <1>11. ReadsAreRecent(r)'
    BY <1>1, <1>2, <1>4, <1>5, <1>6, <1>7, <1>9, Moved
    DEF ReadsAreRecent, IsCommitted, Reading, NoReply
  <1>12. ReplyIsRecent(r)'
    BY <1>1, <1>6, <1>7, <1>8, <1>9, Moved DEF ReplyIsRecent, Exports
  <1> QED
    BY <1>6, <1>10, <1>11, <1>12, ReadStep DEF RequestIsRight, RequestInv

LEMMA GetNodeStep ==
    ASSUME AllInv, NEW r \in Requests, GetNode(r)
    PROVE  AllInv'
  <1>0. pc[r] = "getNode" /\ UNCHANGED <<database, writers, call, since>>
    BY DEF GetNode
  <1>1. /\ TypeOK /\ WriteIsAsked(r) /\ ReadsAreRecent(r) /\ code[r] = "none"
        /\ reply[r] \in Replies /\ reply[r] = NoReply /\ call[r].op = "trace" /\ tx[r] = "none"
    BY <1>0, ReaderFacts, ReadersDoNotWrite DEF Waiting, Reading, ReadsAreRecent
  <1>2. /\ Oldest(call[r].g) \in since[r] .. Len(h(r)) /\ Oldest(call[r].g) \in Nat
        /\ Len(h(r)) <= Oldest(call[r].g) + 1
        /\ Len(h(r)) \in Nat /\ since[r] \in 1 .. Len(h(r)) /\ Recent(r) \subseteq 1 .. Len(h(r))
    BY <1>1, AwaitIsRecent, HistoryFacts
  <1>3. PICK S \in FoundNodes(r) : LET T == { x \in S : x.id = call[r].q.focus } IN
            \/ T = {} /\ Problem(r, "notFound")
            \/ /\ T # {} /\ Await(r, call[r].g, "paths")
               /\ Returns(r, [reply[r] EXCEPT !.nodes = T])
    BY DEF GetNode
  <1> DEFINE T == { x \in S : x.id = call[r].q.focus }
             rep == [reply[r] EXCEPT !.nodes = T]
  <1>4. CASE Problem(r, "notFound")
    BY <1>0, <1>1, <1>4, ProblemStep DEF Waiting, Reading
  <1>5. CASE T # {} /\ Await(r, call[r].g, "paths") /\ Returns(r, rep)
    <2>1. /\ S \subseteq Elements
          /\ \A x \in S : \E l \in Recent(r) : sent[r] <= l /\ x \in h(r)[l].nodes
      BY <1>0, FoundFacts DEF Reading
    <2>2. call[r].q.target = None /\ call[r].q.focus # None
      BY <1>1, InputFacts DEF ReadsAreRecent
    <2>3. Ids(T) = Mentioned(call[r].q)
      BY <1>5, <2>2 DEF Ids, Mentioned
    <2>4. T \subseteq S
      OBVIOUS
    <2> HIDE DEF T
    <2>5. rep \in Replies /\ rep.nodes = T /\ rep.edges = {} /\ rep.paths = {}
      BY <1>1, <2>1, <2>4 DEF Replies, NoReply
    <2> HIDE DEF rep
    <2>6. Moves(r, "paths", "none", Oldest(call[r].g), rep)
      BY <1>0, <1>1, <1>2, <1>5, <2>5 DEF Moves, Await, Returns, TypeOK, Waiting, Reading, Codes
    <2>7. WriteIsAsked(r)'
      BY <1>0, <1>1, <2>6, Moved
    <2>8. NodesBetween(r, since[r], sent[r] + 1)'
      <3>1. \A l \in Recent(r) : since[r] <= l /\ l <= Oldest(call[r].g) + 1
        BY <1>2 DEF Recent
      <3> QED
        BY <3>1, <2>1, <2>4, <2>5, <2>6, Moved DEF NodesBetween
    <2>9. ReadsAreRecent(r)'
      BY <1>1, <1>2, <2>3, <2>5, <2>6, <2>8, Moved DEF ReadsAreRecent, IsCommitted
    <2>10. ReplyIsRecent(r)'
      BY <2>6, Moved DEF ReplyIsRecent
    <2> QED
      BY <2>6, <2>7, <2>9, <2>10, ReadStep DEF RequestIsRight, RequestInv
  <1> QED
    BY <1>3, <1>4, <1>5

(* The paths over several versions are each one of a single version.         *)
LEMMA FoundPathsFacts ==
    ASSUME AllInv, NEW r \in Requests, pc[r] \in Reading, call[r].q.template \in Templates,
           NEW P \in FoundPaths(r)
    PROVE  /\ \A p \in P : \E l \in Recent(r) :
                sent[r] <= l /\ p \in Paths(h(r)[l].edges, call[r].q)
           /\ sent[r] = Len(h(r)) => P = Paths(h(r)[Len(h(r))].edges, call[r].q)
  <1> DEFINE W == Met(r)
             E == { v.edges : v \in W }
  <1>1. /\ W \in SUBSET Contents
        /\ \A v \in W : \E l \in Recent(r) : sent[r] <= l /\ v = h(r)[l]
        /\ sent[r] = Len(h(r)) => W = {h(r)[Len(h(r))]}
    BY FoundFacts
  <1>2. /\ P \in SUBSET Paths(UNION E, call[r].q)
        /\ Paths({ e \in UNION E : \A V \in E : e \in V }, call[r].q) \subseteq P
    BY Zenon DEF FoundPaths
  <1>3. /\ call[r].op # "none" /\ Recent(r) \subseteq 1 .. Len(h(r))
        /\ \A l \in 1 .. Len(h(r)) : CommitIsWhole(call[r].g, l)
    BY ReaderFacts, HistoryFacts DEF Waiting
  <1> HIDE DEF W
  <1>4. \A v \in W : \A e \in v.edges : e.from \in v.nodes /\ e.to \in v.nodes
    <2>1. ASSUME NEW v \in W
          PROVE  \A e \in v.edges : e.from \in v.nodes /\ e.to \in v.nodes
      <3>1. PICK l \in 1 .. Len(h(r)) : v = h(r)[l]
        BY <1>1, <1>3
      <3>2. CommitIsWhole(call[r].g, l)
        BY <1>3, <3>1
      <3> QED
        BY <3>1, <3>2 DEF CommitIsWhole, h
    <2> QED
      BY <2>1
  <1>5. \A v, w \in W : v # w => v.nodes \cap w.nodes = {}
    <2>1. ASSUME NEW v \in W, NEW w \in W, v # w
          PROVE  v.nodes \cap w.nodes = {}
      <3>1. PICK l \in 1 .. Len(h(r)) : v = h(r)[l]
        BY <1>1, <1>3
      <3>2. PICK m \in 1 .. Len(h(r)) : w = h(r)[m]
        BY <1>1, <1>3
      <3>3. CommitIsWhole(call[r].g, m) /\ l # m
        BY <1>3, <2>1, <3>1, <3>2
      <3> QED
        BY <3>1, <3>2, <3>3 DEF CommitIsWhole, h
    <2> QED
      BY <2>1
  <1>6. ASSUME NEW p \in P
        PROVE  \E l \in Recent(r) : sent[r] <= l /\ p \in Paths(h(r)[l].edges, call[r].q)
    <2>1. p \in Paths(UNION { v.edges : v \in W }, call[r].q)
      BY <1>2
    <2>2. PICK v \in W : p \in Paths(v.edges, call[r].q)
      BY <1>1, <1>4, <1>5, <2>1, PathIsOfOne
    <2> QED
      BY <1>1, <2>2
  <1>7. ASSUME sent[r] = Len(h(r))
        PROVE  P = Paths(h(r)[Len(h(r))].edges, call[r].q)
    <2> DEFINE V == h(r)[Len(h(r))].edges
    <2>1. E = {V}
      BY <1>1, <1>7
    <2>2. UNION E = V /\ { e \in UNION E : \A X \in E : e \in X } = V
      <3> HIDE DEF E, V
      <3> QED
        BY <2>1
    <2> HIDE DEF E
    <2> QED
      BY <1>2, <2>2
  <1> QED
    BY <1>6, <1>7

LEMMA FindPathsStep ==
    ASSUME AllInv, NEW r \in Requests, FindPaths(r)
    PROVE  AllInv'
  <1>0. pc[r] = "paths" /\ UNCHANGED <<database, writers, call, since>>
    BY DEF FindPaths
  <1>1. /\ TypeOK /\ WriteIsAsked(r) /\ ReadsAreRecent(r) /\ code[r] = "none"
        /\ reply[r] \in Replies /\ reply[r].edges = {} /\ reply[r].paths = {}
        /\ call[r].op \in {"question", "trace", "path"}
        /\ NodesBetween(r, since[r], sent[r] + 1) /\ tx[r] = "none"
        /\ call[r].op # "path" => Ids(reply[r].nodes) = Mentioned(call[r].q)
        /\ call[r] \in Inputs[r]
    BY <1>0, ReaderFacts, ReadersDoNotWrite DEF Waiting, Reading, ReadsAreRecent
  <1>2. /\ Len(h(r)) \in Nat /\ since[r] \in 1 .. Len(h(r)) /\ Recent(r) \subseteq 1 .. Len(h(r))
        /\ \A i \in 1 .. Len(h(r)) : h(r)[i] \in Contents
    BY <1>1, HistoryFacts
  <1>3. PICK P, T :
            /\ P \in FoundPaths(r) /\ T \in Answers(P, call[r].q)
            /\ Returns(r, [reply[r] EXCEPT !.paths = T]) /\ Answer(r, "ok")
    BY DEF FindPaths
  <1>4. call[r].q.template \in Templates
    BY <1>1, InputFacts
  <1>5. /\ \A p \in P : \E l \in Recent(r) :
                sent[r] <= l /\ p \in Paths(h(r)[l].edges, call[r].q)
        /\ sent[r] = Len(h(r)) => P = Paths(h(r)[Len(h(r))].edges, call[r].q)
        /\ sent[r] \in since[r] .. Len(h(r)) /\ sent[r] \in Recent(r)
    BY <1>0, <1>3, <1>4, FoundPathsFacts, FoundFacts DEF Reading
  <1>6. \A p \in T : p \in P /\ p \in Seq(Elements)
    <2>1. \A l \in Recent(r) : \A p \in Paths(h(r)[l].edges, call[r].q) : p \in Seq(Elements)
      BY <1>2, PathFacts DEF Contents
    <2> QED
      BY <1>3, <1>5, <2>1, AnswersArePart
  <1> DEFINE rep == [reply[r] EXCEPT !.paths = T]
  <1>7. /\ rep \in Replies /\ rep.nodes = reply[r].nodes /\ rep.edges = {} /\ rep.paths = T
    BY <1>1, <1>6 DEF Replies
  <1> HIDE DEF rep
  <1>8. Moves(r, "done", "ok", 0, rep)
    BY <1>0, <1>3, <1>7 DEF rep, Moves, Answer, Returns, Codes
  <1>9. WriteIsAsked(r)'
    BY <1>0, <1>1, <1>8, Moved
  <1>10. ReadsAreRecent(r)'
    BY <1>1, <1>2, <1>8, Moved DEF ReadsAreRecent, IsCommitted, Reading
  <1>11. InOrder(r)'
    <2>1. PICK k : k = sent[r]
      OBVIOUS
    <2>2. k \in Recent(r)'
      BY <1>5, <1>8, <2>1, Moved
    <2>3. NodesBetween(r, since[r], k + 1)'
      BY <1>1, <1>7, <1>8, <2>1, Moved DEF NodesBetween
    <2>4. EdgesBetween(r, k, Len(h(r)))'
      BY <1>7, <1>8, Moved DEF EdgesBetween
    <2>5. PathsBetween(r, k, Len(h(r)))'
      <3>1. \A l \in Recent(r) : l <= Len(h(r))
        BY <1>2
      <3> QED
        BY <1>5, <1>6, <1>7, <1>8, <2>1, <3>1, Moved DEF PathsBetween
    <2> QED
      BY <2>2, <2>3, <2>4, <2>5 DEF InOrder
  <1>12. Undisturbed(r)' => PathsAreAll(r)'
    <2>1. Undisturbed(r) => sent[r] = Len(h(r))
      BY <1>2, <1>5 DEF Undisturbed
    <2>2. T \in Answers(P, call[r].q)
      BY <1>3
    <2> QED
      BY <2>1, <2>2, <1>5, <1>7, <1>8, Moved DEF Undisturbed, PathsAreAll
  <1>13. ReplyIsRecent(r)'
    BY <1>1, <1>7, <1>8, <1>11, <1>12, Moved DEF ReplyIsRecent, Exports
  <1> QED
    BY <1>8, <1>9, <1>10, <1>13, ReadStep DEF RequestIsRight, RequestInv

LEMMA HandlersKeepAllInv ==
    ASSUME AllInv, NEW r \in Requests, Handle(r)
    PROVE  AllInv'
  <1>1. QueryFails(r) => AllInv'
    BY ProblemStep DEF QueryFails
  <1> QED
    BY <1>1, ArriveStep, GetGraphStep, WrittenStep, ListNodesStep, ListEdgesStep,
       CountNodesStep, CountEdgesStep, GetNodeStep, FindPathsStep DEF Handle

-----------------------------------------------------------------------------
(* The steps of a transaction *)

Active == {"locked", "matched", "applying"}

(* Of a step that commits no replacement.                                    *)
LEMMA QuietStep ==
    ASSUME AllInv, NEW r \in Requests, NEW t \in {"locked", "matched", "committed", "failed"},
           tx' = [tx EXCEPT ![r] = t], tx[r] = "applying" => t = "committed",
           tx[r] # "committed",
           UNCHANGED <<nodes, edges, history, call>>, graphs \subseteq graphs',
           \A g \in Graphs : lock'[g] \in {lock[g], None, r}
    PROVE  DatabaseInv' /\ HistoryGrows
  <1>0. TypeOK /\ tx'[r] = t /\ \A q \in Requests \ {r} : tx'[q] = tx[q]
    BY DEF AllInv, TypeOK
  <1>1. \A q \in Requests : IsCommitted(q) => IsCommitted(q)'
    BY <1>0 DEF IsCommitted
  <1>2. DatabaseInv'
    BY <1>1, DatabaseStays
  <1>3. ASSUME NEW g \in Graphs, lock'[g] # None, tx'[lock'[g]] = "applying"
        PROVE  lock[g] # None /\ tx[lock[g]] = "applying"
    <2>1. lock[g] \in Requests \cup {None} /\ lock'[g] # r
      BY <1>0, <1>3 DEF TypeOK
    <2> QED
      BY <1>0, <1>3, <2>1
  <1>4. HistoryGrows
    BY <1>0, <1>3, HistoryStays
  <1> QED
    BY <1>2, <1>4

(* A transaction that ends releases its lock, and no other.                  *)
LEMMA WriterEnds ==
    ASSUME AllInv, NEW r \in Requests, NEW outcome \in {"committed", "failed"},
           Ends(r, outcome), UNCHANGED <<nodes, history, call>>
    PROVE  /\ WriterInv'
           /\ tx'[r] = outcome /\ \A q \in Requests \ {r} : tx'[q] = tx[q]
           /\ tx' \in [Requests -> Outcomes] /\ old' \in [Requests -> SUBSET Elements]
           /\ lock' \in [Graphs -> Requests \cup {None}]
           /\ \A g \in Graphs : lock'[g] = IF lock[g] = r THEN None ELSE lock[g]
  <1>0. TypeOK /\ WriterInv
    BY DEF AllInv
  <1>1. /\ tx'[r] = outcome /\ \A q \in Requests \ {r} : tx'[q] = tx[q] /\ old'[q] = old[q]
        /\ \A g \in Graphs : lock'[g] = IF lock[g] = r THEN None ELSE lock[g]
        /\ tx' \in [Requests -> Outcomes] /\ old' \in [Requests -> SUBSET Elements]
        /\ lock' \in [Graphs -> Requests \cup {None}]
    BY <1>0 DEF TypeOK, Ends, Release, Outcomes
  <1>2. ASSUME NEW q \in Requests, tx'[q] \in Active
        PROVE  lock'[call'[q].g] = q
    <2>1. q # r /\ lock[call[q].g] = q /\ tx[q] # "none"
      BY <1>0, <1>1, <1>2 DEF WriterInv, LocksAreHeld, Active
    <2>2. call[q].op # "none"
      BY <2>1 DEF AllInv, RequestIsRight, RequestInv, WriteIsAsked
    <2>3. call[q].g \in Graphs
      BY <2>2, HistoryFacts
    <2> QED
      BY <1>1, <2>1, <2>3
  <1>3. ASSUME NEW g \in Graphs, lock'[g] # None
        PROVE  /\ tx'[lock'[g]] \in Active /\ call'[lock'[g]].g = g
               /\ tx'[lock'[g]] = "applying" => Len(history'[g]) > 1
    <2>1. lock[g] # r /\ lock'[g] = lock[g] /\ lock[g] \in Requests
      BY <1>0, <1>1, <1>3 DEF TypeOK
    <2> QED
      BY <1>0, <1>1, <1>3, <2>1 DEF WriterInv, LocksAreHeld, Active
  <1>4. OldIsCurrent'
    BY <1>0, <1>1 DEF WriterInv, OldIsCurrent, NodesOf
  <1> QED
    BY <1>1, <1>2, <1>3, <1>4 DEF WriterInv, LocksAreHeld, Active

LEMMA WriterFacts ==
    ASSUME AllInv, NEW r \in Requests, tx[r] \in {"sent"} \cup Active
    PROVE  /\ TypeOK /\ WriterInv /\ WriteIsAsked(r) /\ ReadsAreRecent(r)
           /\ call[r].op \in {"putGraph", "putSnapshot"} /\ call[r] \in Inputs[r]
           /\ call[r].g \in Graphs /\ Len(h(r)) \in Nat /\ since[r] \in 1 .. Len(h(r))
           /\ h(r) = history[call[r].g]
           /\ pc[r] \in {"upsert", "replace", "done"} /\ code[r] # "ok"
           /\ tx[r] # "applying" =>
                since[r] <= Oldest(call[r].g) /\ Oldest(call[r].g) \in Nat
  <1>1. /\ TypeOK /\ WriterInv /\ WriteIsAsked(r) /\ ReadsAreRecent(r) /\ ReplyIsRecent(r)
        /\ call[r].op \in {"putGraph", "putSnapshot"}
    BY DEF AllInv, RequestIsRight, RequestInv, WriteIsAsked, Active
  <1>2. /\ call[r] \in Inputs[r] /\ call[r].g \in Graphs
        /\ Len(h(r)) \in Nat /\ since[r] \in 1 .. Len(h(r))
    BY <1>1, HistoryFacts DEF ReadsAreRecent
  <1>3. code[r] # "ok"
    BY <1>1 DEF ReplyIsRecent, Active
  <1>4. pc[r] \in {"upsert", "replace", "done"}
    <2>1. pc[r] \in Waiting \cup {"idle", "done"}
      BY <1>1 DEF TypeOK
    <2> QED
      BY <1>1, <2>1 DEF WriteIsAsked, ReadsAreRecent, Active, Waiting, Reading, Exports
  <1>5. tx[r] # "applying" => since[r] <= Oldest(call[r].g) /\ Oldest(call[r].g) \in Nat
    BY <1>1, AwaitIsRecent DEF ReadsAreRecent
  <1> QED
    BY <1>1, <1>2, <1>3, <1>4, <1>5 DEF h

(* What a step of r's transaction has to show.                               *)
LEMMA TransactionStep ==
    ASSUME AllInv, NEW r \in Requests, tx[r] \in {"sent"} \cup Active,
           UNCHANGED <<call, handler>>, TypeOK', DatabaseInv', WriterInv',
           HistoryGrows, graphs \subseteq graphs',
           tx'[r] \in Active \cup {"committed", "failed"},
           tx'[r] \in Active => call[r].op = "putSnapshot",
           since'[r] \in 1 .. Len(h(r)'),
           tx'[r] # "applying" => since'[r] <= Oldest(call[r].g)',
           IsCommitted(r)' => Shown(h(r)'[since'[r]]) = call[r].s,
           \A q \in Requests \ {r} : tx'[q] = tx[q] /\ since'[q] = since[q]
    PROVE  AllInv'
  <1>1. \A q \in Requests \ {r} : RequestIsRight(q)'
    BY Untouched DEF AllInv, SameRequest, handler
  <1>2. /\ WriteIsAsked(r) /\ ReadsAreRecent(r) /\ call[r].op \in {"putGraph", "putSnapshot"}
        /\ pc[r] \in {"upsert", "replace", "done"} /\ code[r] # "ok" /\ tx[r] # "none"
        /\ call[r] \in Inputs[r]
    BY WriterFacts DEF Active
  <1>3. /\ call'[r] = call[r] /\ pc'[r] = pc[r] /\ code'[r] = code[r]
        /\ sent'[r] = sent[r] /\ reply'[r] = reply[r]
    BY DEF handler
  <1>4. WriteIsAsked(r)'
    BY <1>2, <1>3 DEF WriteIsAsked, Active
  <1>5. ReadsAreRecent(r)'
    BY <1>2, <1>3 DEF ReadsAreRecent, Reading
  <1>6. ReplyIsRecent(r)'
    BY <1>2, <1>3 DEF ReplyIsRecent
  <1> QED
    BY <1>1, <1>4, <1>5, <1>6 DEF AllInv, RequestIsRight, RequestInv

LEMMA UpsertGraphStep ==
    ASSUME AllInv, NEW r \in Requests, UpsertGraph(r)
    PROVE  AllInv'
  <1>0. /\ tx[r] = "sent" /\ call[r].op = "putGraph" /\ lock[call[r].g] \in {r, None}
        /\ graphs' = graphs \cup {call[r].g} /\ Ends(r, "committed")
        /\ since' = [since EXCEPT ![r] = Len(history[call[r].g])]
        /\ UNCHANGED <<nodes, edges, history, call, handler>>
    BY DEF UpsertGraph, Blockers
  <1>1. /\ TypeOK /\ call[r].g \in Graphs /\ Len(h(r)) \in Nat \ {0}
        /\ h(r) = history[call[r].g]
    BY <1>0, WriterFacts, OldestFacts
  <1>2. /\ WriterInv' /\ tx'[r] = "committed" /\ \A q \in Requests \ {r} : tx'[q] = tx[q]
        /\ tx' \in [Requests -> Outcomes] /\ old' \in [Requests -> SUBSET Elements]
        /\ lock' \in [Graphs -> Requests \cup {None}]
        /\ \A g \in Graphs : lock'[g] = IF lock[g] = r THEN None ELSE lock[g]
    BY <1>0, WriterEnds
  <1>3. DatabaseInv' /\ HistoryGrows
    BY <1>0, <1>2, QuietStep DEF Ends
  <1>4. since'[r] = Len(h(r)) /\ \A q \in Requests \ {r} : since'[q] = since[q]
    BY <1>0, <1>1 DEF TypeOK
  <1>5. TypeOK'
    <2>1. since' \in [Requests -> Nat] /\ graphs' \in SUBSET Graphs
      BY <1>0, <1>1 DEF TypeOK
    <2> QED
      BY <1>0, <1>1, <1>2, <2>1 DEF TypeOK, handler
  <1>6. h(r)' = h(r) /\ since'[r] \in 1 .. Len(h(r)')
    BY <1>0, <1>1, <1>4 DEF h
  <1>7. since'[r] <= Oldest(call[r].g)'
    <2>1. lock'[call[r].g] = None
      BY <1>0, <1>1, <1>2
    <2> QED
      BY <1>0, <1>1, <1>4, <2>1 DEF Oldest
  <1>8. ~IsCommitted(r)'
    BY <1>0 DEF IsCommitted
  <1> QED
    BY <1>0, <1>2, <1>3, <1>4, <1>5, <1>6, <1>7, <1>8, TransactionStep DEF Active

LEMMA RollBackStep ==
    ASSUME AllInv, NEW r \in Requests, RollBack(r)
    PROVE  AllInv'
  <1>0. /\ tx[r] \in {"sent", "locked", "matched"}
        /\ Ends(r, "failed") /\ UNCHANGED <<database, call, handler, since>>
    BY DEF RollBack
  <1>1. /\ TypeOK /\ call[r].g \in Graphs /\ Len(h(r)) \in Nat /\ since[r] \in 1 .. Len(h(r))
        /\ since[r] <= Oldest(call[r].g) /\ Oldest(call[r].g) \in Nat
    BY <1>0, WriterFacts DEF Active
  <1>2. /\ WriterInv' /\ tx'[r] = "failed" /\ \A q \in Requests \ {r} : tx'[q] = tx[q]
        /\ tx' \in [Requests -> Outcomes] /\ old' \in [Requests -> SUBSET Elements]
        /\ lock' \in [Graphs -> Requests \cup {None}]
        /\ \A g \in Graphs : lock'[g] = IF lock[g] = r THEN None ELSE lock[g]
    BY <1>0, WriterEnds DEF database
  <1>3. DatabaseInv' /\ HistoryGrows
    BY <1>0, <1>2, QuietStep DEF Ends, database
  <1>4. TypeOK'
    BY <1>0, <1>1, <1>2 DEF TypeOK, handler, database
  <1>5. h(r)' = h(r) /\ graphs' = graphs /\ since' = since
    BY <1>0 DEF h, database
  <1>6. since'[r] <= Oldest(call[r].g)'
    <2>1. Oldest(call[r].g)' >= Oldest(call[r].g) /\ Oldest(call[r].g)' \in Int
      BY <1>0, <1>1, <1>3 DEF HistoryGrows, Oldest
    <2> QED
      BY <1>1, <1>5, <2>1
  <1>7. ~IsCommitted(r)'
    BY <1>2 DEF IsCommitted
  <1> QED
    BY <1>0, <1>1, <1>2, <1>3, <1>4, <1>5, <1>6, <1>7, TransactionStep DEF Active

LEMMA CloseStep ==
    ASSUME AllInv, NEW r \in Requests, Close(r)
    PROVE  AllInv'
  <1>0. /\ tx[r] = "applying"
        /\ Ends(r, "committed") /\ UNCHANGED <<database, call, handler, since>>
    BY DEF Close
  <1>1. /\ TypeOK /\ WriterInv /\ ReadsAreRecent(r)
        /\ call[r].g \in Graphs /\ Len(h(r)) \in Nat /\ since[r] \in 1 .. Len(h(r))
        /\ h(r) = history[call[r].g]
    BY <1>0, WriterFacts DEF Active
  <1>2. /\ WriterInv' /\ tx'[r] = "committed" /\ \A q \in Requests \ {r} : tx'[q] = tx[q]
        /\ tx' \in [Requests -> Outcomes] /\ old' \in [Requests -> SUBSET Elements]
        /\ lock' \in [Graphs -> Requests \cup {None}]
        /\ \A g \in Graphs : lock'[g] = IF lock[g] = r THEN None ELSE lock[g]
    BY <1>0, WriterEnds DEF database
  <1>3. DatabaseInv' /\ HistoryGrows
    BY <1>0, <1>2, QuietStep DEF Ends, database
  <1>4. TypeOK'
    BY <1>0, <1>1, <1>2 DEF TypeOK, handler, database
  <1>5. h(r)' = h(r) /\ graphs' = graphs /\ since' = since
    BY <1>0 DEF h, database
  <1>6. since'[r] <= Oldest(call[r].g)'
    <2>1. lock'[call[r].g] = None
      BY <1>0, <1>1, <1>2 DEF WriterInv, LocksAreHeld
    <2> QED
      BY <1>0, <1>1, <2>1 DEF Oldest, database
  <1>7. Shown(h(r)'[since'[r]]) = call[r].s \/ ~IsCommitted(r)'
    BY <1>0, <1>1, <1>5 DEF ReadsAreRecent, IsCommitted
  <1> QED
    BY <1>0, <1>1, <1>2, <1>3, <1>4, <1>5, <1>6, <1>7, TransactionStep DEF Active

LEMMA SetUpdatedStep ==
    ASSUME AllInv, NEW r \in Requests, SetUpdated(r)
    PROVE  AllInv'
  <1>0. /\ tx[r] = "sent" /\ call[r].op = "putSnapshot" /\ lock[call[r].g] \in {r, None}
        /\ lock' = [lock EXCEPT ![call[r].g] = r] /\ tx' = [tx EXCEPT ![r] = "locked"]
        /\ UNCHANGED <<database, old, call, handler, since>>
    BY DEF SetUpdated, Blockers
  <1>1. /\ TypeOK /\ WriterInv /\ call[r].g \in Graphs /\ Len(h(r)) \in Nat
        /\ since[r] \in 1 .. Len(h(r))
        /\ since[r] <= Oldest(call[r].g) /\ Oldest(call[r].g) \in Nat
    BY <1>0, WriterFacts
  <1>2. lock[call[r].g] = None
    BY <1>0, <1>1, GraphAssumption DEF WriterInv, LocksAreHeld
  <1>3. tx'[r] = "locked" /\ \A q \in Requests \ {r} : tx'[q] = tx[q]
    BY <1>0, <1>1 DEF TypeOK
  <1>4. TypeOK'
    BY <1>0, <1>1 DEF TypeOK, handler, database, Outcomes
  <1>5. \A g \in Graphs : lock'[g] = IF g = call[r].g THEN r ELSE lock[g]
    BY <1>0, <1>1 DEF TypeOK
  <1>6. DatabaseInv' /\ HistoryGrows
    <2>1. \A g \in Graphs : lock'[g] \in {lock[g], None, r}
      BY <1>5
    <2> QED
      BY <1>0, <2>1, QuietStep DEF database
  <1>7. WriterInv'
    <2>1. ASSUME NEW q \in Requests, tx'[q] \in Active
          PROVE  lock'[call'[q].g] = q
      <3>1. CASE q = r
        BY <1>0, <1>1, <1>5, <3>1
      <3>2. CASE q # r
        <4>1. lock[call[q].g] = q /\ tx[q] \in Active
          BY <1>1, <1>3, <2>1, <3>2 DEF WriterInv, LocksAreHeld, Active
        <4>2. call[q].g # call[r].g /\ call[q].g \in Graphs
          BY <1>2, <4>1, WriterFacts, GraphAssumption
        <4> QED
          BY <1>0, <1>5, <4>1, <4>2
      <3> QED
        BY <3>1, <3>2
    <2>2. ASSUME NEW g \in Graphs, lock'[g] # None
          PROVE  /\ tx'[lock'[g]] \in Active /\ call'[lock'[g]].g = g
                 /\ tx'[lock'[g]] = "applying" => Len(history'[g]) > 1
      <3>1. CASE g = call[r].g
        BY <1>0, <1>3, <1>5, <3>1 DEF Active
      <3>2. CASE g # call[r].g
        <4>1. lock'[g] = lock[g] /\ lock[g] \in Requests
          BY <1>1, <1>5, <2>2, <3>2 DEF TypeOK
        <4>2. /\ tx[lock[g]] \in Active /\ call[lock[g]].g = g
              /\ tx[lock[g]] = "applying" => Len(history[g]) > 1
          BY <1>1, <2>2, <4>1 DEF WriterInv, LocksAreHeld, Active
        <4>3. lock[g] # r
          BY <3>2, <4>2
        <4> QED
          BY <1>0, <1>3, <4>1, <4>2, <4>3 DEF database
      <3> QED
        BY <3>1, <3>2
    <2>3. OldIsCurrent'
      BY <1>0, <1>1, <1>3 DEF WriterInv, OldIsCurrent, NodesOf, database
    <2> QED
      BY <2>1, <2>2, <2>3 DEF WriterInv, LocksAreHeld, Active
  <1>8. h(r)' = h(r) /\ graphs' = graphs /\ since' = since
    BY <1>0 DEF h, database
  <1>9. since'[r] <= Oldest(call[r].g)'
    <2>1. Oldest(call[r].g)' >= Oldest(call[r].g) /\ Oldest(call[r].g)' \in Int
      BY <1>0, <1>1, <1>6 DEF HistoryGrows, Oldest
    <2> QED
      BY <1>1, <1>8, <2>1
  <1>10. ~IsCommitted(r)'
    BY <1>3 DEF IsCommitted
  <1> QED
    BY <1>0, <1>1, <1>3, <1>4, <1>6, <1>7, <1>8, <1>9, <1>10, TransactionStep DEF Active

LEMMA MatchOldStep ==
    ASSUME AllInv, NEW r \in Requests, MatchOld(r)
    PROVE  AllInv'
  <1>0. /\ tx[r] = "locked"
        /\ old' = [old EXCEPT ![r] = NodesOf(call[r].g)] /\ tx' = [tx EXCEPT ![r] = "matched"]
        /\ UNCHANGED <<database, lock, call, handler, since>>
    BY DEF MatchOld
  <1>1. /\ TypeOK /\ WriterInv /\ call[r].g \in Graphs /\ Len(h(r)) \in Nat
        /\ call[r].op = "putSnapshot" /\ since[r] \in 1 .. Len(h(r))
        /\ since[r] <= Oldest(call[r].g) /\ Oldest(call[r].g) \in Nat
    BY <1>0, WriterFacts DEF Active, WriteIsAsked
  <1>2. /\ tx'[r] = "matched" /\ old'[r] = NodesOf(call[r].g)
        /\ \A q \in Requests \ {r} : tx'[q] = tx[q] /\ old'[q] = old[q]
    BY <1>0, <1>1 DEF TypeOK
  <1>3. TypeOK'
    <2>1. NodesOf(call[r].g) \in SUBSET Elements
      BY <1>1 DEF TypeOK, NodesOf
    <2> QED
      BY <1>0, <1>1, <2>1 DEF TypeOK, handler, database, Outcomes
  <1>4. DatabaseInv' /\ HistoryGrows
    BY <1>0, QuietStep DEF database
  <1>5. WriterInv'
    <2>1. ASSUME NEW q \in Requests, tx'[q] \in Active
          PROVE  lock'[call'[q].g] = q
      BY <1>0, <1>1, <1>2, <2>1 DEF WriterInv, LocksAreHeld, Active
    <2>2. ASSUME NEW g \in Graphs, lock'[g] # None
          PROVE  /\ tx'[lock'[g]] \in Active /\ call'[lock'[g]].g = g
                 /\ tx'[lock'[g]] = "applying" => Len(history'[g]) > 1
      <3>1. /\ lock'[g] = lock[g] /\ lock[g] \in Requests
            /\ tx[lock[g]] \in Active /\ call[lock[g]].g = g
            /\ tx[lock[g]] = "applying" => Len(history[g]) > 1
        BY <1>0, <1>1, <2>2 DEF TypeOK, WriterInv, LocksAreHeld, Active
      <3>2. CASE lock[g] = r
        BY <1>0, <1>2, <3>1, <3>2 DEF Active
      <3>3. CASE lock[g] # r
        BY <1>0, <1>2, <3>1, <3>3 DEF database
      <3> QED
        BY <3>2, <3>3
    <2>3. OldIsCurrent'
      BY <1>0, <1>1, <1>2 DEF WriterInv, OldIsCurrent, NodesOf, database
    <2> QED
      BY <2>1, <2>2, <2>3 DEF WriterInv, LocksAreHeld, Active
  <1>6. h(r)' = h(r) /\ graphs' = graphs /\ since' = since
    BY <1>0 DEF h, database
  <1>7. since'[r] <= Oldest(call[r].g)'
    <2>1. Oldest(call[r].g)' >= Oldest(call[r].g) /\ Oldest(call[r].g)' \in Int
      BY <1>0, <1>1, <1>4 DEF HistoryGrows, Oldest
    <2> QED
      BY <1>1, <1>6, <2>1
  <1>8. ~IsCommitted(r)'
    BY <1>2 DEF IsCommitted
  <1> QED
    BY <1>0, <1>1, <1>2, <1>3, <1>4, <1>5, <1>6, <1>7, <1>8, TransactionStep DEF Active

(* What a replacement in its last step may count on.                         *)
LEMMA ReplaceFacts ==
    ASSUME AllInv, NEW r \in Requests, Replace(r)
    PROVE  /\ TypeOK /\ WriterInv /\ tx[r] = "matched" /\ call[r].op = "putSnapshot"
           /\ call[r].g \in graphs /\ call[r].g \in Graphs
           /\ call[r].s \in Snapshots /\ IsValid(call[r].s)
           /\ old[r] = NodesOf(call[r].g) /\ lock[call[r].g] = r
           /\ nodes \ old[r] = { x \in nodes : x.graph # call[r].g }
           /\ history[call[r].g] \in Seq(Contents)
           /\ Len(history[call[r].g]) \in Nat \ {0}
  <1>1. /\ TypeOK /\ WriterInv /\ tx[r] = "matched" /\ WriteIsAsked(r)
        /\ call[r].g \in Graphs /\ call[r] \in Inputs[r]
    BY WriterFacts DEF Active, Replace
  <1>2. /\ old[r] = NodesOf(call[r].g) /\ lock[call[r].g] = r
        /\ call[r].op = "putSnapshot" /\ call[r].g \in graphs /\ IsValid(call[r].s)
    BY <1>1 DEF WriterInv, OldIsCurrent, LocksAreHeld, WriteIsAsked
  <1>3. call[r].s \in Snapshots
    BY <1>1, InputFacts
  <1>4. history[call[r].g] \in Seq(Contents) /\ Len(history[call[r].g]) \in Nat \ {0}
    BY <1>1, OldestFacts
  <1>5. nodes \ old[r] = { x \in nodes : x.graph # call[r].g }
    BY <1>2 DEF NodesOf
  <1> QED
    BY <1>1, <1>2, <1>3, <1>4, <1>5

(* The nodes after a replacement: those of the other graphs and the new ones.*)
LEMMA NodesAfter ==
    ASSUME AllInv, NEW r \in Requests, Replace(r)
    PROVE  /\ nodes' = { x \in nodes : x.graph # call[r].g } \cup Created(r)
           /\ \A x \in Created(r) :
                x \in Elements /\ x.graph = call[r].g /\ x.id \in call[r].s.nodes /\ x.by = r
           /\ \A i \in call[r].s.nodes : \E x \in Created(r) : x.graph = call[r].g /\ x.id = i
           /\ nodes' \in SUBSET Elements
           /\ KeysAreUnique'
  <1>1. nodes' = { x \in nodes : x.graph # call[r].g } \cup Created(r)
    BY ReplaceFacts DEF Replace
  <1>2. \A x \in Created(r) :
            x \in Elements /\ x.graph = call[r].g /\ x.id \in call[r].s.nodes /\ x.by = r
    BY ReplaceFacts DEF Created, Node, Elements, Snapshots
  <1>3. \A i \in call[r].s.nodes : \E x \in Created(r) : x.graph = call[r].g /\ x.id = i
    <2>1. \A i : Node(call[r].g, i, r).graph = call[r].g /\ Node(call[r].g, i, r).id = i
      BY DEF Node
    <2>2. \A i \in call[r].s.nodes : Node(call[r].g, i, r) \in Created(r)
      BY DEF Created
    <2> QED
      BY <2>1, <2>2
  <1>4. nodes \in SUBSET Elements
    BY DEF AllInv, TypeOK
  <1>5. \A x, y \in Created(r) : x.id = y.id => x = y
    BY DEF Created, Node
  <1>6. KeysAreUnique'
    BY <1>1, <1>2, <1>5 DEF AllInv, DatabaseInv, KeysAreUnique
  <1> QED
    BY <1>1, <1>2, <1>3, <1>4, <1>6

LEMMA CreatedAreFew ==
    ASSUME AllInv, NEW r \in Requests, Replace(r)
    PROVE  Cardinality(Created(r)) <= MaxNodes
  <1> DEFINE S == call[r].s.nodes
             f == [i \in S |-> Node(call[r].g, i, r)]
  <1>1. IsFiniteSet(S) /\ Cardinality(S) \in Nat /\ Cardinality(S) <= MaxNodes
    <2>1. S \subseteq Nodes
      BY ReplaceFacts DEF Snapshots
    <2>2. IsFiniteSet(S)
      BY <2>1, FS_Subset, GraphAssumption
    <2> QED
      BY <2>2, FS_CardinalityType, ReplaceFacts DEF IsValid
  <1>2. f \in Surjection(S, Created(r))
    BY DEF Surjection, Created
  <1>3. /\ IsFiniteSet(Created(r)) /\ Cardinality(Created(r)) <= Cardinality(S)
    <2> HIDE DEF f, S
    <2> QED
      BY <1>1, <1>2, FS_Surjection
  <1> QED
    BY <1>1, <1>3, FS_CardinalityType, GraphAssumption

LEMMA EdgesAfter ==
    ASSUME AllInv, NEW r \in Requests, Replace(r)
    PROVE  /\ \A e \in edges' :
                  \/ e \in edges /\ e.from.graph # call[r].g /\ e.to.graph # call[r].g
                  \/ /\ e.from.graph = call[r].g /\ e.to.graph = call[r].g
                     /\ <<e.from.id, e.to.id>> \in call[r].s.edges
           /\ \A e \in edges : e.from.graph # call[r].g => e \in edges'
           /\ \A p \in call[r].s.edges : \E e \in edges' :
                e.from.graph = call[r].g /\ e.to.graph = call[r].g /\ <<e.from.id, e.to.id>> = p
           /\ edges' \in SUBSET Relationships
           /\ EdgesAreInside'
  <1> DEFINE kept == { x \in nodes : x.graph # call[r].g }
             N == nodes'
  <1>1. /\ N = kept \cup Created(r)
        /\ edges' = { e \in edges : e.from \in kept /\ e.to \in kept } \cup CreatedEdges(r, N)
    BY ReplaceFacts DEF Replace
  <1>2. N \in SUBSET Elements /\ edges \in SUBSET Relationships
    BY NodesAfter DEF AllInv, TypeOK
  <1>3. \A e \in edges : e.from \in nodes /\ e.to \in nodes /\ e.from.graph = e.to.graph
    BY DEF AllInv, DatabaseInv, EdgesAreInside
  <1>4. \A x \in kept : x \in N /\ x.graph # call[r].g
    BY <1>1
  <1> HIDE DEF N
  <1>5. \A e \in CreatedEdges(r, N) :
            /\ e \in Relationships
            /\ e.from \in N /\ e.to \in N
            /\ e.from.graph = call[r].g /\ e.to.graph = call[r].g
            /\ <<e.from.id, e.to.id>> \in call[r].s.edges
    <2>1. ASSUME NEW e \in CreatedEdges(r, N)
          PROVE  /\ e \in Relationships
                 /\ e.from \in N /\ e.to \in N
                 /\ e.from.graph = call[r].g /\ e.to.graph = call[r].g
                 /\ <<e.from.id, e.to.id>> \in call[r].s.edges
      <3>1. PICK x \in N, y \in N :
              /\ e = [from |-> x, to |-> y] /\ x.graph = call[r].g /\ y.graph = call[r].g
              /\ <<x.id, y.id>> \in call[r].s.edges
        BY DEF CreatedEdges
      <3> QED
        BY <3>1, <1>2 DEF Relationships
    <2> QED
      BY <2>1
  <1>6. \A p \in call[r].s.edges : \E e \in CreatedEdges(r, N) :
            e.from.graph = call[r].g /\ e.to.graph = call[r].g /\ <<e.from.id, e.to.id>> = p
    <2>1. ASSUME NEW p \in call[r].s.edges
          PROVE  \E e \in CreatedEdges(r, N) :
            e.from.graph = call[r].g /\ e.to.graph = call[r].g /\ <<e.from.id, e.to.id>> = p
      <3>1. /\ p[1] \in call[r].s.nodes /\ p[2] \in call[r].s.nodes /\ p = <<p[1], p[2]>>
        BY ReplaceFacts DEF IsValid, Snapshots
      <3>2. PICK x \in Created(r) : x.graph = call[r].g /\ x.id = p[1]
        BY <3>1, NodesAfter
      <3>3. PICK y \in Created(r) : y.graph = call[r].g /\ y.id = p[2]
        BY <3>1, NodesAfter
      <3>4. <<x, y>> \in N \X N /\ <<x, y>>[1] = x /\ <<x, y>>[2] = y
        BY <1>1, <3>2, <3>3
      <3>5. [from |-> x, to |-> y] \in CreatedEdges(r, N)
        BY <3>1, <3>2, <3>3, <3>4 DEF CreatedEdges
      <3> QED
        BY <3>1, <3>2, <3>3, <3>5
    <2> QED
      BY <2>1
  <1> HIDE DEF kept
  <1>7. EdgesAreInside'
    BY <1>1, <1>3, <1>4, <1>5 DEF EdgesAreInside, N
  <1>8. edges' \in SUBSET Relationships
    BY <1>1, <1>2, <1>5
  <1>9. \A e \in edges : e.from.graph # call[r].g => e \in edges'
    BY <1>1, <1>3 DEF kept
  <1> QED
    BY <1>1, <1>4, <1>5, <1>6, <1>7, <1>8, <1>9

(* What a replacement stores of its graph, and of the others.                *)
LEMMA StoredAfter ==
    ASSUME AllInv, NEW r \in Requests, Replace(r), NEW g \in Graphs
    PROVE  /\ Content(g)' = [nodes |-> { x \in nodes' : x.graph = g },
                             edges |-> { e \in edges' : e.from.graph = g /\ e.to.graph = g }]
           /\ Content(g)' \in Contents
           /\ g = call[r].g =>
                /\ Content(g)'.nodes = Created(r)
                /\ Shown(Content(g)') = call[r].s
                /\ \A e \in Content(g)'.edges : e.from \in Created(r) /\ e.to \in Created(r)
           /\ g # call[r].g => Content(g)' = Content(g) /\ NodesOf(g)' = NodesOf(g)
  <1> DEFINE X == { x \in nodes' : x.graph = g }
             Y == { e \in edges' : e.from.graph = g /\ e.to.graph = g }
  <1>1. Content(g)' = [nodes |-> X, edges |-> Y] /\ NodesOf(g)' = X
    BY DEF Content, NodesOf, EdgesOf
  <1>2. [nodes |-> X, edges |-> Y] \in Contents
    BY NodesAfter, EdgesAfter DEF Contents
  <1>3. CASE g = call[r].g
    <2>1. X = Created(r)
      BY <1>3, NodesAfter
    <2>2. \A e \in Y : e.from \in Created(r) /\ e.to \in Created(r)
      <3>1. \A e \in Y : e.from \in X /\ e.to \in X
        BY EdgesAfter DEF EdgesAreInside
      <3> QED
        BY <2>1, <3>1
    <2>3. Ids(X) = call[r].s.nodes
      BY <2>1, NodesAfter DEF Ids
    <2>4. { <<e.from.id, e.to.id>> : e \in Y } = call[r].s.edges
      BY <1>3, EdgesAfter
    <2>5. call[r].s = [nodes |-> call[r].s.nodes, edges |-> call[r].s.edges]
      BY ReplaceFacts DEF Snapshots
    <2> HIDE DEF X, Y
    <2>6. Shown([nodes |-> X, edges |-> Y]) = call[r].s
      BY <2>3, <2>4, <2>5 DEF Shown
    <2> QED
      BY <1>1, <1>2, <1>3, <2>1, <2>2, <2>6 DEF X, Y
  <1>4. CASE g # call[r].g
    <2>1. X = { x \in nodes : x.graph = g }
      BY <1>4, NodesAfter
    <2>2. Y = { e \in edges : e.from.graph = g /\ e.to.graph = g }
      <3>1. \A e \in edges' : e.from.graph = g => e \in edges
        BY <1>4, EdgesAfter
      <3>2. \A e \in edges : e.from.graph = g => e \in edges'
        BY <1>4, EdgesAfter
      <3> QED
        BY <3>1, <3>2
    <2> QED
      BY <1>1, <1>2, <1>4, <2>1, <2>2 DEF Content, NodesOf, EdgesOf
  <1> QED
    BY <1>3, <1>4

(* The history that a replacement leaves.                                    *)
LEMMA HistoryAfter ==
    ASSUME AllInv, NEW r \in Requests, Replace(r), NEW g, g = call[r].g
    PROVE  LET H == history[g]
           IN  /\ history' \in [Graphs -> Seq(Contents)]
               /\ Len(history'[g]) = Len(H) + 1 /\ history'[g][Len(H) + 1] = Content(g)'
               /\ \A i \in 1 .. Len(H) : history'[g][i] = H[i]
               /\ \A k \in Graphs : k # g => history'[k] = history[k]
               /\ since' = [since EXCEPT ![r] = Len(H) + 1]
               /\ tx' = [tx EXCEPT ![r] = "applying"]
               /\ UNCHANGED <<graphs, lock, old, call, handler>>
  <1> DEFINE H == history[g]
  <1>1. /\ TypeOK /\ g \in Graphs /\ H \in Seq(Contents) /\ Len(H) \in Nat
        /\ Content(g)' \in Contents
    BY ReplaceFacts, StoredAfter
  <1>2. /\ history' = [history EXCEPT ![g] = Append(@, Content(call[r].g)')]
        /\ since' = [since EXCEPT ![r] = Len(H) + 1]
        /\ tx' = [tx EXCEPT ![r] = "applying"]
        /\ UNCHANGED <<graphs, lock, old, call, handler>>
    BY DEF Replace
  <1>3. Content(call[r].g)' = Content(g)'
    BY <1>2 DEF Content, NodesOf, EdgesOf
  <1>4. PICK C \in Contents : C = Content(g)'
    BY <1>1
  <1>5. Append(H, C) \in Seq(Contents)
    BY <1>1, <1>4
  <1>6. /\ history' \in [Graphs -> Seq(Contents)]
        /\ history'[g] = Append(H, C)
        /\ \A k \in Graphs : k # g => history'[k] = history[k]
    BY <1>1, <1>2, <1>3, <1>4, <1>5 DEF TypeOK
  <1>7. /\ Len(history'[g]) = Len(H) + 1 /\ history'[g][Len(H) + 1] = C
        /\ \A i \in 1 .. Len(H) : history'[g][i] = H[i]
    BY <1>1, <1>4, <1>6
  <1> QED
    BY <1>2, <1>4, <1>6, <1>7

(* What was committed before stays whole, and so is what is committed now.   *)
LEMMA CommitsAreWhole ==
    ASSUME AllInv, NEW r \in Requests, Replace(r), NEW k \in Graphs,
           NEW i \in 1 .. Len(history'[k])
    PROVE  CommitIsWhole(k, i)'
  <1>0. PICK g : g = call[r].g
    OBVIOUS
  <1> DEFINE H == history[g]
  <1>1. /\ history' \in [Graphs -> Seq(Contents)]
        /\ Len(history'[g]) = Len(H) + 1 /\ history'[g][Len(H) + 1] = Content(g)'
        /\ \A j \in 1 .. Len(H) : history'[g][j] = H[j]
        /\ \A l \in Graphs : l # g => history'[l] = history[l]
        /\ tx' = [tx EXCEPT ![r] = "applying"] /\ call' = call
    BY <1>0, HistoryAfter
  <1>2. /\ TypeOK /\ tx[r] = "matched" /\ call[r].op = "putSnapshot"
        /\ g \in Graphs /\ Len(H) \in Nat /\ IsValid(call[r].s)
    BY <1>0, ReplaceFacts
  <1>3. IsCommitted(r)' /\ ~IsCommitted(r) /\ \A q \in Requests : IsCommitted(q) => IsCommitted(q)'
    BY <1>1, <1>2 DEF IsCommitted, TypeOK
  <1>4. PICK C : C = Content(g)'
    OBVIOUS
  <1>5. /\ C.nodes = Created(r) /\ Shown(C) = call[r].s
        /\ \A e \in C.edges : e.from \in C.nodes /\ e.to \in C.nodes
    BY <1>0, <1>2, <1>4, StoredAfter
  <1>6. \A l \in Graphs : \A j \in 1 .. Len(history[l]) :
            CommitIsWhole(l, j) /\ history[l][j].nodes \subseteq Elements
    BY ContentsAre
  <1>7. \A l \in Graphs : \A j \in 1 .. Len(history[l]) :
            /\ IsValid(Shown(history[l][j])) /\ Cardinality(history[l][j].nodes) <= MaxNodes
            /\ \A x \in history[l][j].nodes : x.graph = l /\ IsCommitted(x.by)
            /\ \A e \in history[l][j].edges :
                e.from \in history[l][j].nodes /\ e.to \in history[l][j].nodes
            /\ \A m \in 1 .. Len(history[l]) : m # j =>
                history[l][m].nodes \cap history[l][j].nodes = {}
    BY <1>6 DEF CommitIsWhole
  <1>8. \A l \in Graphs : \A j \in 1 .. Len(history[l]) : \A x \in history[l][j].nodes :
            x.graph = l /\ IsCommitted(x.by)' /\ x.by # r
    <2>1. \A l \in Graphs : \A j \in 1 .. Len(history[l]) : \A x \in history[l][j].nodes :
              x.by \in Requests
      BY <1>6 DEF Elements
    <2> QED
      BY <1>3, <1>7, <2>1
  <1>9. \A j \in 1 .. Len(H) : H[j].nodes \cap C.nodes = {}
    <2>1. \A x \in C.nodes : x.by = r
      BY <1>5, NodesAfter
    <2> QED
      BY <1>2, <1>8, <2>1
  <1>10. SUFFICES
            /\ IsValid(Shown(history'[k][i])) /\ Cardinality(history'[k][i].nodes) <= MaxNodes
            /\ \A x \in history'[k][i].nodes : x.graph = k /\ IsCommitted(x.by)'
            /\ \A e \in history'[k][i].edges :
                e.from \in history'[k][i].nodes /\ e.to \in history'[k][i].nodes
            /\ \A j \in 1 .. Len(history'[k]) : j # i =>
                history'[k][j].nodes \cap history'[k][i].nodes = {}
    BY DEF CommitIsWhole
  <1>11. CASE k # g
    BY <1>1, <1>7, <1>8, <1>11
  <1>12. CASE k = g /\ i \in 1 .. Len(H)
    <2>1. history'[k][i] = history[k][i] /\ k \in Graphs /\ i \in 1 .. Len(history[k])
      BY <1>1, <1>12
    <2>2. ASSUME NEW j \in 1 .. Len(history'[k]), j # i
          PROVE  history'[k][j].nodes \cap history'[k][i].nodes = {}
      <3>1. CASE j \in 1 .. Len(H)
        BY <1>1, <1>7, <1>12, <2>1, <2>2, <3>1
      <3>2. CASE j = Len(H) + 1
        BY <1>1, <1>4, <1>9, <1>12, <2>1, <3>2
      <3> QED
        BY <1>1, <1>2, <1>12, <3>1, <3>2
    <2> QED
      BY <1>7, <1>8, <2>1, <2>2
  <1>13. CASE k = g /\ i = Len(H) + 1
    <2>1. history'[k][i] = C
      BY <1>1, <1>4, <1>13
    <2>2. Cardinality(C.nodes) <= MaxNodes /\ \A x \in C.nodes : x.graph = k /\ x.by = r
      BY <1>0, <1>5, <1>13, CreatedAreFew, NodesAfter
    <2>3. ASSUME NEW j \in 1 .. Len(history'[k]), j # i
          PROVE  history'[k][j].nodes \cap C.nodes = {}
      <3>1. j \in 1 .. Len(H)
        BY <1>1, <1>2, <1>13, <2>3
      <3> QED
        BY <1>1, <1>9, <1>13, <3>1
    <2>4. \A x \in C.nodes : IsCommitted(x.by)'
      BY <1>3, <2>2
    <2> QED
      BY <1>2, <1>5, <2>1, <2>2, <2>3, <2>4
  <1>14. k # g \/ (k = g /\ i \in 1 .. Len(H)) \/ (k = g /\ i = Len(H) + 1)
    <2>1. k = g => i \in 1 .. Len(H) + 1
      BY <1>1
    <2> QED
      BY <1>2, <2>1
  <1> QED
    BY <1>11, <1>12, <1>13, <1>14

LEMMA ReplaceStep ==
    ASSUME AllInv, NEW r \in Requests, Replace(r)
    PROVE  AllInv'
  <1>0. PICK g : g = call[r].g
    OBVIOUS
  <1> DEFINE H == history[g]
  <1>1. /\ history' \in [Graphs -> Seq(Contents)]
        /\ Len(history'[g]) = Len(H) + 1 /\ history'[g][Len(H) + 1] = Content(g)'
        /\ \A i \in 1 .. Len(H) : history'[g][i] = H[i]
        /\ \A k \in Graphs : k # g => history'[k] = history[k]
        /\ since' = [since EXCEPT ![r] = Len(H) + 1]
        /\ tx' = [tx EXCEPT ![r] = "applying"]
        /\ UNCHANGED <<graphs, lock, old, call, handler>>
    BY <1>0, HistoryAfter
  <1>2. /\ TypeOK /\ WriterInv /\ tx[r] = "matched" /\ call[r].op = "putSnapshot"
        /\ g \in Graphs /\ g \in graphs /\ lock[g] = r /\ Len(H) \in Nat \ {0}
    BY <1>0, ReplaceFacts
  <1>3. /\ tx'[r] = "applying" /\ \A q \in Requests \ {r} : tx'[q] = tx[q]
        /\ since'[r] = Len(H) + 1 /\ \A q \in Requests \ {r} : since'[q] = since[q]
    BY <1>1, <1>2 DEF TypeOK
  <1>4. TypeOK'
    <2>1. tx' \in [Requests -> Outcomes] /\ since' \in [Requests -> Nat]
      BY <1>1, <1>2 DEF TypeOK, Outcomes
    <2> QED
      BY <1>1, <1>2, <2>1, NodesAfter, EdgesAfter DEF TypeOK, handler
  <1>5. NodesAreContained'
    BY <1>0, <1>1, <1>2, NodesAfter DEF AllInv, DatabaseInv, NodesAreContained
  <1>6. StoredIsLatest'
    <2>1. ASSUME NEW k \in Graphs
          PROVE  Len(history'[k]) >= 1 /\ Content(k)' = history'[k][Len(history'[k])]
      <3>1. CASE k = g
        BY <1>1, <1>2, <3>1
      <3>2. CASE k # g
        <4>1. Content(k)' = Content(k) /\ history'[k] = history[k]
          BY <1>0, <1>1, <3>2, StoredAfter
        <4> QED
          BY <4>1 DEF AllInv, DatabaseInv, StoredIsLatest
      <3> QED
        BY <3>1, <3>2
    <2> QED
      BY <2>1, CommitsAreWhole DEF StoredIsLatest
  <1>7. DatabaseInv'
    BY <1>5, <1>6, NodesAfter, EdgesAfter DEF DatabaseInv
  <1>8. WriterInv'
    <2>1. ASSUME NEW q \in Requests, tx'[q] \in Active
          PROVE  lock'[call'[q].g] = q
      BY <1>1, <1>2, <1>3, <2>1 DEF WriterInv, LocksAreHeld, Active
    <2>2. ASSUME NEW k \in Graphs, lock'[k] # None
          PROVE  /\ tx'[lock'[k]] \in Active /\ call'[lock'[k]].g = k
                 /\ tx'[lock'[k]] = "applying" => Len(history'[k]) > 1
      <3>1. /\ lock'[k] = lock[k] /\ lock[k] \in Requests
            /\ tx[lock[k]] \in Active /\ call[lock[k]].g = k
            /\ tx[lock[k]] = "applying" => Len(history[k]) > 1
        BY <1>1, <1>2, <2>2 DEF TypeOK, WriterInv, LocksAreHeld, Active
      <3>2. CASE lock[k] = r
        BY <1>0, <1>1, <1>2, <1>3, <3>1, <3>2 DEF Active
      <3>3. CASE lock[k] # r
        <4>1. k # g
          BY <1>2, <3>3
        <4> QED
          BY <1>1, <1>3, <3>1, <3>3, <4>1
      <3> QED
        BY <3>2, <3>3
    <2>3. ASSUME NEW q \in Requests, tx'[q] = "matched"
          PROVE  (old[q] = NodesOf(call[q].g))'
      <3>1. q # r /\ tx[q] = "matched"
        BY <1>3, <2>3
      <3>2. old[q] = NodesOf(call[q].g) /\ lock[call[q].g] = q /\ call[q].g \in Graphs
        BY <3>1, WriterFacts DEF WriterInv, OldIsCurrent, LocksAreHeld, Active
      <3>3. call[q].g # g
        BY <1>2, <3>1, <3>2
      <3>4. { x \in nodes' : x.graph = call[q].g } = { x \in nodes : x.graph = call[q].g }
        BY <1>0, <3>3, NodesAfter
      <3> QED
        BY <1>1, <3>2, <3>4 DEF NodesOf
    <2> QED
      BY <2>1, <2>2, <2>3 DEF WriterInv, LocksAreHeld, OldIsCurrent, Active
  <1>9. HistoryGrows
    <2>1. ASSUME NEW k \in Graphs
          PROVE  /\ Len(history[k]) \in Nat /\ Len(history'[k]) \in Nat
                 /\ Len(history'[k]) >= Len(history[k])
                 /\ \A i \in 1 .. Len(history[k]) : history'[k][i] = history[k][i]
                 /\ Oldest(k)' >= Oldest(k)
      <3>1. Len(history[k]) \in Nat
        BY <1>2 DEF TypeOK
      <3>2. CASE k = g
        BY <1>1, <1>2, <1>3, <3>1, <3>2 DEF Oldest
      <3>3. CASE k # g
        <4>1. lock[k] # None => lock[k] \in Requests /\ lock[k] # r
          BY <1>0, <1>2, <3>3 DEF TypeOK, WriterInv, LocksAreHeld
        <4>2. Oldest(k)' = Oldest(k)
          BY <1>1, <1>3, <3>3, <4>1 DEF Oldest
        <4>3. Oldest(k) \in Int
          BY <3>1 DEF Oldest
        <4> QED
          BY <1>1, <3>1, <3>3, <4>2, <4>3
      <3> QED
        BY <3>2, <3>3
    <2> QED
      BY <2>1 DEF HistoryGrows
  <1>10. h(r)' = history'[g]
    BY <1>0, <1>1 DEF h
  <1>11. since'[r] \in 1 .. Len(h(r)') /\ Shown(h(r)'[since'[r]]) = call[r].s
    <2>1. Shown(Content(g)') = call[r].s
      BY <1>0, <1>2, StoredAfter
    <2> QED
      BY <1>1, <1>2, <1>3, <1>10, <2>1
  <1> QED
    BY <1>1, <1>2, <1>3, <1>4, <1>7, <1>8, <1>9, <1>11, TransactionStep DEF Active

-----------------------------------------------------------------------------
(* The theorems *)

LEMMA InitAllInv == Init => AllInv
  <1>1. SUFFICES ASSUME Init PROVE AllInv
    OBVIOUS
  <1> DEFINE V == [nodes |-> {}, edges |-> {}]
  <1>2. /\ V \in Contents /\ V.nodes = {} /\ V.edges = {} /\ Shown(V) = Empty
        /\ Cardinality(V.nodes) <= MaxNodes
    <2>1. V \in Contents /\ V.nodes = {} /\ V.edges = {}
      BY DEF Contents
    <2>2. Shown(V) = Empty
      BY DEF Shown, Ids, Empty
    <2> QED
      BY <2>1, <2>2, FS_EmptySet, GraphAssumption
  <1>3. TypeOK
    <2>1. history \in [Graphs -> Seq(Contents)]
      <3> HIDE DEF V
      <3>1. <<V>> \in Seq(Contents)
        BY <1>2
      <3>2. history = [g \in Graphs |-> <<V>>]
        BY <1>1 DEF Init, V
      <3> QED
        BY <3>1, <3>2
    <2> QED
      BY <1>1, <2>1, NoReplyType DEF Init, TypeOK, Outcomes, Codes
  <1>4. \A g \in Graphs : Content(g) = V
    BY <1>1 DEF Init, Content, NodesOf, EdgesOf
  <1>5. DatabaseInv
    <2>1. ASSUME NEW g \in Graphs
          PROVE  /\ Len(history[g]) >= 1
                 /\ Content(g) = history[g][Len(history[g])]
                 /\ \A i \in 1 .. Len(history[g]) : CommitIsWhole(g, i)
      <3>1. history[g] = <<V>>
        BY <1>1 DEF Init
      <3> HIDE DEF V
      <3>2. Len(history[g]) = 1 /\ history[g][1] = V
        BY <3>1
      <3>3. \A i \in 1 .. Len(history[g]) : i = 1
        BY <3>2
      <3>4. CommitIsWhole(g, 1)
        BY <3>2, <3>3, <1>2, EmptyIsValid DEF CommitIsWhole
      <3> QED
        BY <3>2, <3>3, <3>4, <1>4
    <2> QED
      BY <1>1, <2>1
      DEF Init, DatabaseInv, KeysAreUnique, NodesAreContained, EdgesAreInside, StoredIsLatest
  <1>6. WriterInv
    BY <1>1 DEF Init, WriterInv, LocksAreHeld, OldIsCurrent
  <1>7. ASSUME NEW r \in Requests
        PROVE  RequestIsRight(r)
    BY <1>1 DEF Init, RequestIsRight, RequestInv, WriteIsAsked, ReadsAreRecent, ReplyIsRecent,
       NoCall, Reading, IsCommitted
  <1> QED
    BY <1>3, <1>5, <1>6, <1>7 DEF AllInv

LEMMA IdleKeepsAllInv ==
    ASSUME AllInv, UNCHANGED vars
    PROVE  AllInv'
  <1>1. TypeOK'
    BY DEF AllInv, vars, database, writers, handler, TypeOK
  <1>2. DatabaseInv'
    <2>1. \A q \in Requests : IsCommitted(q) => IsCommitted(q)'
      BY DEF IsCommitted, vars, writers
    <2> QED
      BY <2>1, DatabaseStays DEF vars, database
  <1>3. WriterInv'
    BY DEF AllInv, vars, database, writers, WriterInv, LocksAreHeld, OldIsCurrent, NodesOf
  <1>4. \A q \in Requests : RequestIsRight(q)'
    <2>1. HistoryGrows
      BY HistoryStays DEF AllInv, vars, database, writers
    <2> QED
      BY <2>1, Untouched DEF AllInv, SameRequest, vars, database, writers, handler
  <1> QED
    BY <1>1, <1>2, <1>3, <1>4 DEF AllInv

LEMMA StepKeepsAllInv ==
    ASSUME AllInv, [Next]_vars
    PROVE  AllInv'
  <1>1. ASSUME NEW r \in Requests, Transact(r)
        PROVE  AllInv'
    BY <1>1, UpsertGraphStep, SetUpdatedStep, MatchOldStep, ReplaceStep, CloseStep, RollBackStep
    DEF Transact
  <1> QED
    BY <1>1, HandlersKeepAllInv, IdleKeepsAllInv DEF Next

LEMMA AlwaysAllInv == Spec => []AllInv
  <1>1. AllInv /\ [Next]_vars => AllInv'
    BY StepKeepsAllInv
  <1> QED
    BY <1>1, InitAllInv, PTL DEF Spec

(* Keys are unique, relationships stay inside their graph and keep both      *)
(* their ends, a graph is exactly the last snapshot that was committed, and  *)
(* whoever is about to replace it holds its lock and has matched its nodes.  *)
THEOREM GraphInvariant == Spec => []GraphInv
  <1>1. AllInv => GraphInv
    BY DEF AllInv, GraphInv, DatabaseInv, WriterInv, RequestIsRight
  <1> QED
    BY <1>1, AlwaysAllInv, PTL

(* Queries that see part of a replacement, or answer after it, never tell of *)
(* what was replaced before the request arrived, nor put one path together   *)
(* of two snapshots; and an answer that met no replacement is complete.      *)
THEOREM AnswersAreRecent == Spec => []RepliesAreRecent
  <1>1. AllInv => RepliesAreRecent
    BY DEF AllInv, RequestIsRight, RepliesAreRecent
  <1> QED
    BY <1>1, AlwaysAllInv, PTL


-----------------------------------------------------------------------------
(* The refinement *)

LEMMA AbsentIsEmpty ==
    ASSUME AllInv, NEW g \in Graphs \ graphs
    PROVE  Shown(Content(g)) = Empty
  <1>1. NodesOf(g) = {}
    BY DEF AllInv, DatabaseInv, NodesAreContained, NodesOf
  <1>2. EdgesOf(g) = {}
    BY <1>1 DEF AllInv, DatabaseInv, EdgesAreInside, NodesOf, EdgesOf
  <1> QED
    BY <1>1, <1>2 DEF Content, Shown, Ids, Empty

LEMMA ShownIsASnapshot ==
    ASSUME NEW v \in Contents
    PROVE  Shown(v) \in Snapshots
  BY DEF Contents, Relationships, Elements, Shown, Ids, Snapshots

LEMMA StoredStays ==
    ASSUME UNCHANGED <<graphs, nodes, edges>>
    PROVE  StoredSnapshots' = StoredSnapshots
  BY DEF StoredSnapshots, Shown, Content, NodesOf, EdgesOf, Ids

(* A handler's step is the arrival of a valid snapshot, or nothing.          *)
LEMMA HandlerImplementsContract ==
    ASSUME AllInv, NEW r \in Requests, Handle(r)
    PROVE  Contract!Ask(r) \/ UNCHANGED <<StoredSnapshots, Asked, Replaced>>
  <1>0. TypeOK /\ WriteIsAsked(r) /\ ReadsAreRecent(r)
    BY DEF AllInv, RequestIsRight, RequestInv
  <1>1. UNCHANGED database
    BY DEF Handle, Arrive, GetGraph, Written, Continue, ListNodes, ListEdges, CountNodes,
       CountEdges, Count, GetNode, FindPaths, QueryFails
  <1>2. StoredSnapshots' = StoredSnapshots
    BY <1>1, StoredStays DEF database
  <1>3. CASE ~Arrive(r)
    <2>1. UNCHANGED call /\ (UNCHANGED tx \/ (tx[r] = "none" /\ tx' = [tx EXCEPT ![r] = "sent"]))
      BY <1>0, <1>3 DEF Handle, GetGraph, Written, Continue, ListNodes, ListEdges, CountNodes,
         CountEdges, Count, GetNode, FindPaths, QueryFails, writers, Send, WriteIsAsked
    <2>2. \A q \in Requests : IsCommitted(q)' <=> IsCommitted(q)
      BY <1>0, <2>1 DEF TypeOK, IsCommitted
    <2> QED
      BY <1>2, <2>1, <2>2 DEF Asked, Replaced, IsValid
  <1>4. CASE Arrive(r)
    <2>1. PICK c \in Inputs[r] :
            /\ call' = [call EXCEPT ![r] = c]
            /\ tx' \in { tx, [tx EXCEPT ![r] = "sent"] }
      BY <1>4 DEF Arrive, Send, writers
    <2>2. call[r].op = "none" /\ tx[r] = "none" /\ c \in Calls /\ c.g \in Graphs /\ c.s \in Snapshots
      BY <1>0, <1>4, InputFacts DEF Arrive, WriteIsAsked, ReadsAreRecent
    <2>3. call'[r] = c /\ \A q \in Requests \ {r} : call'[q] = call[q]
      BY <1>0, <2>1 DEF TypeOK
    <2>4. \A q \in Requests : IsCommitted(q)' <=> IsCommitted(q)
      BY <1>0, <2>1, <2>2, <2>3 DEF TypeOK, IsCommitted
    <2>5. Replaced' = Replaced
      BY <2>4 DEF Replaced
    <2>6. Asked[r] = {}
      BY <2>2 DEF Asked
    <2>7. CASE c.op = "putSnapshot" /\ IsValid(c.s)
      <3>1. Asked' = [Asked EXCEPT ![r] = {[g |-> c.g, s |-> c.s]}]
        BY <2>3, <2>7 DEF Asked, IsValid
      <3>2. [g |-> c.g, s |-> c.s] \in Contract!Asks
        BY <2>2, <2>7 DEF Contract!Asks
      <3>3. Asked'[r] # {}
        BY <2>3, <2>7 DEF Asked, IsValid
      <3> QED
        BY <1>2, <2>5, <2>6, <3>1, <3>2, <3>3 DEF Contract!Ask
    <2>8. CASE ~(c.op = "putSnapshot" /\ IsValid(c.s))
      <3>1. Asked' = Asked
        BY <2>2, <2>3, <2>8 DEF Asked, IsValid
      <3> QED
        BY <1>2, <2>5, <3>1
    <2> QED
      BY <2>7, <2>8
  <1> QED
    BY <1>3, <1>4

LEMMA UpsertImplementsContract ==
    ASSUME AllInv, NEW r \in Requests, UpsertGraph(r)
    PROVE  (\E g \in Graphs : Contract!Create(g))
             \/ UNCHANGED <<StoredSnapshots, Asked, Replaced>>
  <1>1. PICK g : g = call[r].g
    OBVIOUS
  <1>2. /\ TypeOK /\ g \in Graphs /\ graphs' = graphs \cup {g} /\ call[r].op = "putGraph"
        /\ Ends(r, "committed") /\ UNCHANGED <<nodes, edges, call>>
    BY <1>1, WriterFacts DEF UpsertGraph
  <1>3. Asked' = Asked /\ Replaced' = Replaced
    BY <1>2 DEF Asked, Replaced, IsCommitted, IsValid, Ends, TypeOK
  <1>4. \A k \in Graphs : Shown(Content(k))' = Shown(Content(k))
    BY <1>2 DEF Shown, Content, NodesOf, EdgesOf, Ids
  <1>5. CASE g \in graphs
    BY <1>2, <1>3, <1>4, <1>5 DEF StoredSnapshots
  <1>6. CASE g \notin graphs
    <2>1. Shown(Content(g)) = Empty
      BY <1>2, <1>6, AbsentIsEmpty
    <2>2. StoredSnapshots' = [StoredSnapshots EXCEPT ![g] = Empty] /\ StoredSnapshots[g] = None
      BY <1>2, <1>4, <1>6, <2>1 DEF StoredSnapshots
    <2> QED
      BY <1>2, <1>3, <2>2 DEF Contract!Create
  <1> QED
    BY <1>5, <1>6

LEMMA ReplaceImplementsContract ==
    ASSUME AllInv, NEW r \in Requests, Replace(r)
    PROVE  Contract!Replace(r)
  <1>1. PICK g, s : g = call[r].g /\ s = call[r].s
    OBVIOUS
  <1>2. /\ TypeOK /\ g \in Graphs /\ g \in graphs /\ s \in Snapshots /\ IsValid(s)
        /\ call[r].op = "putSnapshot" /\ tx[r] = "matched"
        /\ tx' = [tx EXCEPT ![r] = "applying"] /\ UNCHANGED <<graphs, call>>
    BY <1>1, ReplaceFacts DEF Replace
  <1>3. Asked' = Asked /\ Asked[r] = {[g |-> g, s |-> s]}
    BY <1>1, <1>2 DEF Asked, IsValid
  <1>4. r \notin Replaced /\ Replaced' = Replaced \cup {r}
    BY <1>2 DEF Replaced, IsCommitted, TypeOK
  <1>5. StoredSnapshots[g] # None
    <2>1. Content(g) \in Contents
      BY <1>2 DEF TypeOK, Content, NodesOf, EdgesOf, Contents
    <2> QED
      BY <1>2, <2>1, ShownIsASnapshot, GraphAssumption DEF StoredSnapshots
  <1>6. StoredSnapshots' = [StoredSnapshots EXCEPT ![g] = s]
    <2>1. ASSUME NEW k \in Graphs
          PROVE  Shown(Content(k))' = IF k = g THEN s ELSE Shown(Content(k))
      BY <1>1, StoredAfter DEF Shown, Ids
    <2> QED
      BY <1>2, <2>1 DEF StoredSnapshots
  <1> QED
    BY <1>3, <1>4, <1>5, <1>6 DEF Contract!Replace

(* What else a transaction does is no step of the contract. *)
LEMMA OthersImplementContract ==
    ASSUME AllInv, NEW r \in Requests,
           SetUpdated(r) \/ MatchOld(r) \/ Close(r) \/ RollBack(r)
    PROVE  UNCHANGED <<StoredSnapshots, Asked, Replaced>>
  <1>1. UNCHANGED <<database, call>>
    BY DEF SetUpdated, MatchOld, Close, RollBack
  <1>2. \E t \in Outcomes :
            /\ tx' = [tx EXCEPT ![r] = t]
            /\ t \in {"applying", "committed"} <=> tx[r] \in {"applying", "committed"}
    BY DEF SetUpdated, MatchOld, Close, RollBack, Ends, Outcomes
  <1>3. \A q \in Requests : IsCommitted(q)' <=> IsCommitted(q)
    BY <1>1, <1>2 DEF AllInv, TypeOK, IsCommitted
  <1> QED
    BY <1>1, <1>3, StoredStays DEF database, Asked, Replaced, IsValid

LEMMA StepImplementsContract ==
    ASSUME AllInv, [Next]_vars
    PROVE  [Contract!Next]_(Contract!contract)
  <1> USE DEF Contract!Next, Contract!contract
  <1>1. ASSUME NEW r \in Requests, Handle(r)
        PROVE  [Contract!Next]_(Contract!contract)
    BY <1>1, HandlerImplementsContract
  <1>2. ASSUME NEW r \in Requests, Transact(r)
        PROVE  [Contract!Next]_(Contract!contract)
    BY <1>2, UpsertImplementsContract, ReplaceImplementsContract, OthersImplementContract
    DEF Transact
  <1>3. CASE UNCHANGED vars
    <2>1. StoredSnapshots' = StoredSnapshots
      BY <1>3, StoredStays DEF vars, database
    <2> QED
      BY <1>3, <2>1 DEF vars, writers, Asked, Replaced, IsCommitted, IsValid
  <1> QED
    BY <1>1, <1>2, <1>3 DEF Next

LEMMA InitImplementsContract == Init => Contract!Init
  <1>1. SUFFICES ASSUME Init PROVE Contract!Init
    OBVIOUS
  <1>2. \A g \in Graphs : Shown(Content(g)) = Empty
    BY <1>1 DEF Init, Shown, Content, Ids, NodesOf, EdgesOf, Empty
  <1>3. \A r \in Requests : call[r].op = "none"
    BY <1>1 DEF Init, NoCall
  <1>4. StoredSnapshots \in [Graphs -> {Empty, None}]
    BY <1>2 DEF StoredSnapshots
  <1>5. Asked = [r \in Requests |-> {}] /\ Replaced = {}
    BY <1>3 DEF Asked, Replaced, IsCommitted
  <1> QED
    BY <1>4, <1>5 DEF Contract!Init

(* What is stored of a graph changes as a whole, to a valid snapshot that a  *)
(* request submitted for it, and at most once for each request.              *)
THEOREM GraphImplementsContract == Spec => ImplementsContract
  BY InitImplementsContract, AlwaysAllInv, StepImplementsContract, PTL
  DEF Spec, ImplementsContract, Contract!Spec
=============================================================================
