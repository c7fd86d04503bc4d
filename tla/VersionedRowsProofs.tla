------------------------- MODULE VersionedRowsProofs -------------------------
(***************************************************************************)
(* Proofs about VersionedRows for every set of services, resources, names  *)
(* and concurrent requests.                                                *)
(***************************************************************************)
EXTENDS VersionedRowsProperties, TLAPS

(* A row's parent is a row. *)
LEMMA Tree ==
    /\ \A x \in Rows : Parent(x) \in Rows
    /\ \A x \in Rows : \A y \in Siblings(x) : y \in Children /\ y # x /\ x \in Siblings(y)
    /\ \A x \in Resources : Parent(x) \in Services
    /\ \A x \in Services : Parent(x) = Project
    /\ Project \in Rows /\ Children \subseteq Rows /\ Project \notin Children
  BY RowsAssumption DEF Parent, Rows, Children, Siblings

-----------------------------------------------------------------------------
(* What a statement that runs has waited for *)

LEMMA Unblocked ==
    ASSUME TreeInv, NEW r \in Requests, Blockers(r) = {}
    PROVE  LET x == call[r].x IN
           /\ pc[r] = "claim" => entry[Parent(x)][call[r].n] \in {None, r}
           /\ pc[r] = "write" /\ Matches(r) =>
                /\ lock[x] \in {None, r}
                /\ call[r].op = "Delete" => share[x] \subseteq {r}
           /\ pc[r] = "cascade" => \A y \in Cascaded(r) :
                lock[y] = None /\ share[y] \subseteq {r}
           /\ pc[r] = "shareParent" => \A d \in Requests \ {r} :
                lock[Parent(x)] = d => call[d].op # "Delete"
           /\ pc[r] = "shareProject" => \A d \in Requests \ {r} :
                lock[Project] = d => call[d].op # "Delete"
<1>. USE RowsAssumption
<1>1. ASSUME NEW d \in Requests PROVE ~Waits(r, d)
  BY DEF Blockers
<1>2. ASSUME pc[r] # "idle" PROVE call[r].x \in Rows /\ Parent(call[r].x) \in Rows
  BY <1>2, Tree DEF TreeInv, ControlInv
<1>3. ASSUME NEW y \in Rows
      PROVE  lock[y] \in Requests \cup {None} /\ share[y] \subseteq Requests
  BY DEF TreeInv, TypeOK, LocksOK, Holder
<1>4. CASE pc[r] = "claim"
  <2>1. entry[Parent(call[r].x)][call[r].n] \in Requests \cup {None}
    BY <1>2, <1>4 DEF TreeInv, TypeOK, LocksOK, Holder, RequestsOK, ControlInv, Calls, Renames
  <2>. QED
    BY <1>1, <1>4, <2>1 DEF Waits, NameBlockers, Others
<1>5. CASE pc[r] = "write"
  BY <1>1, <1>2, <1>3, <1>5 DEF Waits, RowBlockers, Others, Exclusive
<1>6. CASE pc[r] = "cascade"
  <2>1. call[r].op = "Delete"
    BY <1>6 DEF TreeInv, ControlInv
  <2>2. ASSUME NEW y \in Cascaded(r) PROVE lock[y] = None /\ share[y] \subseteq {r}
    <3>1. y \in Rows /\ lock[y] # r
      BY Tree DEF Cascaded
    <3>. QED
      BY <1>1, <1>3, <1>6, <2>1, <3>1 DEF Waits, RowBlockers, Others, Exclusive
  <2>. QED
    BY <1>6, <2>2
<1>7. CASE pc[r] = "shareParent"
  BY <1>1, <1>2, <1>7 DEF Waits, KeyShareBlockers, Others, Exclusive
<1>8. CASE pc[r] = "shareProject"
  BY <1>1, <1>8 DEF Waits, KeyShareBlockers, Others, Exclusive
<1>. QED
  BY <1>4, <1>5, <1>6, <1>7, <1>8

-----------------------------------------------------------------------------
(* The end of a transaction *)

(* An answer releases the locks of its request and no others. *)
LEMMA Released ==
    ASSUME TypeOK, NEW r \in Requests, Release(r)
    PROVE  /\ LocksOK'
           /\ \A x \in Rows :
                 /\ share'[x] = share[x] \ {r}
                 /\ lock'[x] # r
                 /\ lock'[x] \in {None, lock[x]}
                 /\ lock[x] # r => lock'[x] = lock[x]
           /\ \A x \in Rows, n \in Names :
                 /\ entry'[x][n] \in {None, entry[x][n]} /\ entry'[x][n] # r
                 /\ entry[x][n] # r => entry'[x][n] = entry[x][n]
<1>1. r # None
  BY RowsAssumption
<1>2. LocksOK'
  BY DEF TypeOK, LocksOK, Release, Holder, Free
<1>. QED
  BY <1>1, <1>2 DEF Release, Free

(* A transaction that ends without having written anything. *)
LEMMA Answering ==
    ASSUME TreeInv, NEW r \in Requests, NEW c \in Codes,
           Answer(r, c), UNCHANGED <<tables, call>>, pc[r] # "idle"
    PROVE  TreeInv'
<1>. USE Tree DEF tables
<1>1. Release(r)
  BY DEF Answer
<1>2. /\ pc' \in [Requests -> Steps] /\ code' \in [Requests -> Codes]
      /\ pc'[r] = "done" /\ \A d \in Requests : d # r => pc'[d] = pc[d]
  BY DEF Answer, TreeInv, TypeOK, RequestsOK, Steps
<1>3. TypeOK
  BY DEF TreeInv
<1>4. TypeOK'
  BY <1>1, <1>2, <1>3, Released DEF TypeOK, TablesOK, RequestsOK
<1>5. ControlInv'
  BY <1>2 DEF TreeInv, ControlInv, Renames
<1>6. WriterLocks' /\ LockedIsWritten'
  <2>1. WriterLocks'
    BY <1>1, <1>2, <1>3, Released DEF TreeInv, ControlInv, WriterLocks, Written
  <2>2. ASSUME NEW x \in Rows, NEW d \in Requests, lock'[x] = d
        PROVE  d # r /\ lock[x] = d /\ (\A y \in Rows : lock[y] = d => lock'[y] = d)
    BY <1>1, <1>3, <2>2, Released, RowsAssumption
  <2>. QED
    BY <1>2, <2>1, <2>2 DEF TreeInv, LockedIsWritten, Written, Live
<1>7. SharedExists' /\ WritersShare'
  <2>1. ASSUME NEW x \in Rows, NEW d \in Requests, lock'[x] = d
        PROVE  lock[x] = d
    BY <1>1, <1>3, <2>1, Released, RowsAssumption
  <2>. QED
    BY <1>1, <1>2, <1>3, <2>1, Released
    DEF TreeInv, ControlInv, SharedExists, WritersShare, Live
<1>8. NewRows'
  BY <1>2 DEF TreeInv, NewRows, Running
<1>9. NamesClaimed' /\ ClaimedIsFree'
  <2>1. ASSUME NEW d \in Requests, d # r, call[d].op # "none",
               call[d].op = "Create" \/ Renames(d, call[d].x)
        PROVE  entry[Parent(call[d].x)][call[d].n] = d
                 => entry'[Parent(call[d].x)][call[d].n] = d
    BY <1>1, <1>3, <2>1, Released
    DEF TreeInv, ControlInv, Renames, TypeOK, RequestsOK, Calls
  <2>2. NamesClaimed'
    BY <1>2, <2>1 DEF TreeInv, NamesClaimed, Renames
  <2>. QED
    BY <1>1, <1>3, <2>2, Released DEF TreeInv, ClaimedIsFree, Live
<1>10. CascadeIsComplete'
  <2>1. ASSUME NEW d \in Requests, d # r, NEW y \in Rows
        PROVE  lock'[y] = d <=> lock[y] = d
    BY <1>1, <1>3, <2>1, Released, RowsAssumption
  <2>. QED
    BY <1>2, <2>1 DEF TreeInv, CascadeIsComplete, Cascaded, Live
<1>11. NoOrphanRows' /\ UniqueNames'
  BY DEF TreeInv, NoOrphanRows, UniqueNames, Live
<1>. QED
  BY <1>4, <1>5, <1>6, <1>7, <1>8, <1>9, <1>10, <1>11 DEF TreeInv

-----------------------------------------------------------------------------
(* The arrival of a request *)

(* A call that the router passes on, and what the arrival knows of its row.  *)
Arrives(c) ==
    /\ c \in Calls /\ c.op \in AllOperations /\ c.x \in Rows
    /\ c.op = "Create" => /\ c.x \in Children /\ c.n \in Names
                          /\ state[c.x] = "unused"
                          /\ \A d \in Requests : call[d].x # c.x
    /\ c.op # "Create" => state[c.x] # "unused"
    /\ c.op = "Update" /\ c.x = Project => c.n = None

FirstStep(c, s) ==
    \/ c.op = "Create" /\ s = "insert"
    \/ c.op \in {"Update", "Delete"} /\ s \in {"write", "rowState"}

(* It is refused at once, or goes on to the next statement.                  *)
LEMMA Arriving ==
    ASSUME TreeInv, NEW r \in Requests, NEW c, Arrives(c), Serve(r, c),
           NEW s,
           \/ s = "done" /\ \E e \in Codes : Answer(r, e)
           \/ FirstStep(c, s) /\ Goto(r, s)
    PROVE  TreeInv'
<1>. USE Tree, RowsAssumption DEF tables
<1>1. TypeOK /\ UNCHANGED tables
  BY DEF TreeInv, Serve
<1>2. /\ call' \in [Requests -> Calls] /\ pc[r] = "idle"
      /\ call'[r] = c /\ \A d \in Requests : d # r => call'[d] = call[d]
  BY <1>1 DEF Serve, TypeOK, RequestsOK, Arrives
<1>3. /\ pc' \in [Requests -> Steps] /\ code' \in [Requests -> Codes]
      /\ pc'[r] = s /\ s \in {"done", "insert", "write", "rowState"}
      /\ \A d \in Requests : d # r => pc'[d] = pc[d]
  BY <1>1 DEF FirstStep, Answer, Goto, TypeOK, RequestsOK, Steps
<1>4. ASSUME NEW x \in Rows PROVE lock[x] # r
  BY <1>2 DEF TreeInv, LockedIsWritten, Written
<1>5. /\ LocksOK'
      /\ \A x \in Rows : /\ lock'[x] = lock[x]
                         /\ share[x] \ {r} \subseteq share'[x] /\ share'[x] \subseteq share[x]
      /\ \A x \in Rows, n \in Names :
            /\ entry'[x][n] \in {None, entry[x][n]}
            /\ entry[x][n] # r => entry'[x][n] = entry[x][n]
  <2>1. CASE \E e \in Codes : Answer(r, e)
    BY <1>1, <1>4, <2>1, Released DEF Answer
  <2>2. CASE Goto(r, s)
    BY <1>1, <2>2 DEF Goto, locks, TypeOK, LocksOK
  <2>. QED
    BY <2>1, <2>2
<1>6. TypeOK'
  BY <1>1, <1>2, <1>3, <1>5 DEF TypeOK, TablesOK, RequestsOK
<1>7. ControlInv'
  BY <1>1, <1>2, <1>3 DEF TreeInv, ControlInv, Renames, Arrives, AllOperations, FirstStep
<1>8. WriterLocks' /\ LockedIsWritten'
  <2>1. WriterLocks'
    BY <1>1, <1>2, <1>3, <1>5 DEF TreeInv, ControlInv, WriterLocks, Written
  <2>2. LockedIsWritten'
    BY <1>1, <1>2, <1>3, <1>4, <1>5 DEF TreeInv, LockedIsWritten, Written, Live
  <2>. QED
    BY <2>1, <2>2
<1>9. SharedExists' /\ WritersShare'
  BY <1>1, <1>2, <1>3, <1>4, <1>5 DEF TreeInv, ControlInv, SharedExists, WritersShare, Live
<1>10. NewRows'
  BY <1>1, <1>2, <1>3 DEF TreeInv, NewRows, Running, Arrives
<1>11. NamesClaimed' /\ ClaimedIsFree'
  <2>1. ASSUME NEW d \in Requests, d # r, call[d].op # "none",
               call[d].op = "Create" \/ Renames(d, call[d].x)
        PROVE  entry[Parent(call[d].x)][call[d].n] = d
                 => entry'[Parent(call[d].x)][call[d].n] = d
    BY <1>1, <1>5, <2>1 DEF TreeInv, ControlInv, Renames, TypeOK, RequestsOK, Calls
  <2>2. NamesClaimed'
    BY <1>1, <1>2, <1>3, <2>1 DEF TreeInv, NamesClaimed, Renames
  <2>. QED
    BY <1>1, <1>5, <2>2 DEF TreeInv, ClaimedIsFree, Live
<1>12. CascadeIsComplete'
  BY <1>1, <1>2, <1>3, <1>5 DEF TreeInv, CascadeIsComplete, Cascaded, Live
<1>13. NoOrphanRows' /\ UniqueNames'
  BY <1>1 DEF TreeInv, NoOrphanRows, UniqueNames, Live
<1>. QED
  BY <1>6, <1>7, <1>8, <1>9, <1>10, <1>11, <1>12, <1>13 DEF TreeInv

-----------------------------------------------------------------------------
(* Statements *)

(* A statement that takes no lock. *)
LEMMA Going ==
    ASSUME TreeInv, NEW r \in Requests, NEW s, Goto(r, s), UNCHANGED <<tables, call>>,
           \/ pc[r] = "insert" /\ s = "claim"
           \/ pc[r] = "write" /\ s = "rowState"
           \/ /\ pc[r] = "cascade" /\ Cascaded(r) = {}
              /\ s = IF call[r].x = Project THEN "commit" ELSE "audit"
           \/ pc[r] = "audit" /\ s = "shareProject"
    PROVE  TreeInv'
<1>. USE Tree, RowsAssumption DEF tables, locks
<1>1. TypeOK
  BY DEF TreeInv
<1>2. /\ UNCHANGED locks /\ pc' \in [Requests -> Steps] /\ UNCHANGED code
      /\ pc'[r] = s /\ s \in {"claim", "rowState", "audit", "commit", "shareProject"}
      /\ \A d \in Requests : d # r => pc'[d] = pc[d]
  BY <1>1 DEF Goto, TypeOK, RequestsOK, Steps
<1>3. TypeOK'
  BY <1>1, <1>2 DEF TypeOK, TablesOK, RequestsOK, LocksOK
<1>4. ControlInv'
  BY <1>2 DEF TreeInv, ControlInv, Renames
<1>5. WriterLocks' /\ LockedIsWritten'
  <2>1. Written(r)' <=> Written(r)
    BY <1>2 DEF Written, TreeInv, ControlInv
  <2>2. ASSUME NEW d \in Requests PROVE Written(d)' <=> Written(d)
    BY <1>2, <2>1 DEF Written
  <2>. QED
    BY <1>2, <2>2 DEF TreeInv, WriterLocks, LockedIsWritten, Live
<1>6. SharedExists' /\ WritersShare'
  BY <1>2 DEF TreeInv, ControlInv, SharedExists, WritersShare, Live
<1>7. NewRows'
  BY <1>2 DEF TreeInv, NewRows, Running
<1>8. NamesClaimed' /\ ClaimedIsFree'
  BY <1>2 DEF TreeInv, ControlInv, NamesClaimed, ClaimedIsFree, Live, Renames
<1>9. CascadeIsComplete'
  BY <1>2 DEF TreeInv, ControlInv, CascadeIsComplete, Cascaded, Live
<1>10. NoOrphanRows' /\ UniqueNames'
  BY DEF TreeInv, NoOrphanRows, UniqueNames, Live
<1>. QED
  BY <1>3, <1>4, <1>5, <1>6, <1>7, <1>8, <1>9, <1>10 DEF TreeInv

(* The unique index takes the name of a new or renamed row.                  *)
LEMMA Claiming ==
    ASSUME TreeInv, NEW r \in Requests, Claim(r), ~Taken(call[r].x, call[r].n)
    PROVE  TreeInv'
<1>. USE Tree, RowsAssumption DEF tables, locks
<1>. DEFINE c == call[r]
            s == IF c.op = "Create" THEN "shareParent" ELSE "audit"
<1>1. TypeOK /\ pc[r] = "claim" /\ Blockers(r) = {} /\ UNCHANGED <<tables, call, lock, share>>
  BY DEF TreeInv, Claim, At
<1>2. /\ pc' \in [Requests -> Steps] /\ UNCHANGED code
      /\ pc'[r] = s /\ \A d \in Requests : d # r => pc'[d] = pc[d]
  BY <1>1 DEF Claim, Advance, TypeOK, RequestsOK, Steps
<1>3. /\ c.x \in Children /\ c.n \in Names /\ c.op \in {"Create", "Update"}
      /\ c.op = "Update" => name[c.x] # c.n
  BY <1>1 DEF TreeInv, ControlInv, Renames, Rows, TypeOK, RequestsOK, Calls
<1>4. /\ entry[Parent(c.x)][c.n] \in {None, r}
      /\ entry' = [entry EXCEPT ![Parent(c.x)][c.n] = r]
  BY <1>1, Unblocked DEF Claim
<1>5. /\ LocksOK' /\ entry'[Parent(c.x)][c.n] = r
      /\ \A p \in Rows, n \in Names :
            p # Parent(c.x) \/ n # c.n => entry'[p][n] = entry[p][n]
  BY <1>1, <1>3, <1>4 DEF TypeOK, LocksOK, Holder
<1>6. TypeOK'
  BY <1>1, <1>2, <1>5 DEF TypeOK, TablesOK, RequestsOK
<1>7. ControlInv'
  BY <1>1, <1>2, <1>3 DEF TreeInv, ControlInv, Renames
<1>8. WriterLocks' /\ LockedIsWritten'
  <2>1. ASSUME NEW d \in Requests PROVE Written(d)' <=> Written(d)
    BY <1>1, <1>2, <1>3 DEF Written
  <2>. QED
    BY <1>1, <2>1 DEF TreeInv, WriterLocks, LockedIsWritten, Live
<1>9. SharedExists' /\ WritersShare'
  BY <1>1, <1>2 DEF TreeInv, SharedExists, WritersShare, Live
<1>10. NewRows'
  BY <1>1, <1>2 DEF TreeInv, NewRows, Running
<1>11. NamesClaimed'
  BY <1>1, <1>2, <1>3, <1>4, <1>5 DEF TreeInv, ControlInv, NamesClaimed, Renames, TypeOK, RequestsOK, Calls
<1>12. ClaimedIsFree'
  <2>1. ASSUME NEW y \in Children \cap Live, Parent(y) = Parent(c.x) PROVE name[y] # c.n
    <3>1. CASE y = c.x
      BY <1>1, <1>3, <3>1 DEF TreeInv, NewRows, Running, Live
    <3>2. CASE y # c.x
      BY <1>3, <2>1, <3>2 DEF Taken, Siblings
    <3>. QED
      BY <3>1, <3>2
  <2>. QED
    BY <1>1, <1>5, <2>1 DEF TreeInv, ClaimedIsFree, Live
<1>13. CascadeIsComplete'
  BY <1>1, <1>2, <1>3 DEF TreeInv, CascadeIsComplete, Cascaded, Live
<1>14. NoOrphanRows' /\ UniqueNames'
  BY <1>1 DEF TreeInv, NoOrphanRows, UniqueNames, Live
<1>. QED
  BY <1>6, <1>7, <1>8, <1>9, <1>10, <1>11, <1>12, <1>13, <1>14 DEF TreeInv

(* A foreign key check that finds its row: of the parent of a new row, or of *)
(* the project of an audit event.                                            *)
LEMMA Sharing ==
    ASSUME TreeInv, NEW r \in Requests, NEW p \in Live, NEW s,
           share' = [share EXCEPT ![p] = @ \cup {r}],
           Advance(r, s), UNCHANGED <<lock, entry, tables, call>>,
           \A d \in Requests \ {r} : lock[p] = d => call[d].op # "Delete",
           \/ pc[r] = "shareParent" /\ p = Parent(call[r].x) /\ s = "audit"
           \/ pc[r] = "shareProject" /\ p = Project /\ s = "commit"
    PROVE  TreeInv'
<1>. USE Tree, RowsAssumption DEF tables, locks
<1>1. TypeOK /\ p \in Rows
  BY DEF TreeInv, Live
<1>2. /\ pc' \in [Requests -> Steps] /\ UNCHANGED code
      /\ pc'[r] = s /\ \A d \in Requests : d # r => pc'[d] = pc[d]
  BY <1>1 DEF Advance, TypeOK, RequestsOK, Steps
<1>3. /\ LocksOK' /\ share'[p] = share[p] \cup {r}
      /\ \A x \in Rows : x # p => share'[x] = share[x]
  BY <1>1 DEF TypeOK, LocksOK
<1>4. TypeOK'
  BY <1>1, <1>2, <1>3 DEF TypeOK, TablesOK, RequestsOK
<1>5. ControlInv'
  BY <1>2 DEF TreeInv, ControlInv, Renames
<1>6. WriterLocks' /\ LockedIsWritten'
  <2>1. ASSUME NEW d \in Requests PROVE Written(d)' <=> Written(d)
    BY <1>2 DEF Written, TreeInv, ControlInv
  <2>. QED
    BY <2>1 DEF TreeInv, WriterLocks, LockedIsWritten, Live
<1>7. SharedExists'
  BY <1>3 DEF TreeInv, SharedExists, Live
<1>8. WritersShare'
  BY <1>1, <1>2, <1>3 DEF TreeInv, ControlInv, WritersShare
<1>9. NewRows'
  BY <1>2 DEF TreeInv, NewRows, Running
<1>10. NamesClaimed' /\ ClaimedIsFree'
  BY <1>2 DEF TreeInv, ControlInv, NamesClaimed, ClaimedIsFree, Live, Renames
<1>11. CascadeIsComplete'
  BY <1>2 DEF TreeInv, ControlInv, CascadeIsComplete, Cascaded, Live
<1>12. NoOrphanRows' /\ UniqueNames'
  BY DEF TreeInv, NoOrphanRows, UniqueNames, Live
<1>. QED
  BY <1>4, <1>5, <1>6, <1>7, <1>8, <1>9, <1>10, <1>11, <1>12 DEF TreeInv

(* An UPDATE or a DELETE that finds its row. *)
LEMMA Writing ==
    ASSUME TreeInv, NEW r \in Requests, Write(r), Matches(r)
    PROVE  TreeInv'
<1>. USE Tree, RowsAssumption DEF tables, locks
<1>. DEFINE c == call[r]
            s == AfterWrite(r)
<1>1. /\ TypeOK /\ pc[r] = "write" /\ Blockers(r) = {}
      /\ UNCHANGED <<tables, call, share, entry>>
  BY DEF TreeInv, Write, At
<1>2. c.x \in Live /\ c.x \in Rows /\ version[c.x] = c.v /\ c.op \in {"Update", "Delete"}
  BY <1>1 DEF Matches, Live, TreeInv, ControlInv
<1>3. /\ pc' \in [Requests -> Steps] /\ UNCHANGED code
      /\ pc'[r] = s /\ s \in {"cascade", "claim", "audit"}
      /\ s = "cascade" <=> c.op = "Delete"
      /\ s = "claim" <=> c.op = "Update" /\ Renames(r, c.x)
      /\ \A d \in Requests : d # r => pc'[d] = pc[d]
  BY <1>1, <1>2 DEF Write, Advance, AfterWrite, TypeOK, RequestsOK, Steps
<1>4. /\ lock' = [lock EXCEPT ![c.x] = r] /\ lock[c.x] \in {None, r}
      /\ c.op = "Delete" => share[c.x] \subseteq {r}
  BY <1>1, Unblocked DEF Write
<1>5. ASSUME NEW x \in Rows PROVE lock[x] # r
  BY <1>1 DEF TreeInv, LockedIsWritten, Written
<1>6. /\ LocksOK' /\ lock'[c.x] = r /\ lock[c.x] = None
      /\ \A x \in Rows : x # c.x => lock'[x] = lock[x]
  BY <1>1, <1>2, <1>4, <1>5 DEF TypeOK, LocksOK, Holder
<1>7. TypeOK'
  BY <1>1, <1>3, <1>6 DEF TypeOK, TablesOK, RequestsOK
<1>8. ControlInv'
  BY <1>1, <1>2, <1>3 DEF TreeInv, ControlInv, Renames
<1>9. Written(r)' /\ \A d \in Requests \ {r} : Written(d)' <=> Written(d)
  BY <1>1, <1>2, <1>3 DEF Written
<1>10. WriterLocks'
  BY <1>1, <1>2, <1>6, <1>9 DEF TreeInv, ControlInv, WriterLocks, Written
<1>11. LockedIsWritten'
  <2>1. ASSUME NEW x \in Rows, NEW d \in Requests, lock'[x] = d
        PROVE  LockedIsWritten!(x, d)'
    <3>1. CASE x = c.x
      BY <1>1, <1>2, <1>6, <1>9, <2>1, <3>1 DEF Live
    <3>2. CASE x # c.x
      <4>1. lock[x] = d /\ d # r
        BY <1>5, <1>6, <2>1, <3>2
      <4>2. ASSUME NEW y \in Rows, lock[y] = d PROVE lock'[y] = d
        BY <1>6, <4>2
      <4>. QED
        BY <1>1, <1>9, <4>1, <4>2 DEF TreeInv, LockedIsWritten, Live
    <3>. QED
      BY <3>1, <3>2
  <2>. QED
    BY <2>1 DEF LockedIsWritten
<1>12. SharedExists'
  BY <1>1, <1>2, <1>4, <1>6 DEF TreeInv, SharedExists, Live
<1>13. WritersShare' /\ NewRows'
  BY <1>1, <1>2, <1>3 DEF TreeInv, WritersShare, NewRows, Running
<1>14. NamesClaimed' /\ ClaimedIsFree'
  BY <1>1, <1>2, <1>3 DEF TreeInv, NamesClaimed, ClaimedIsFree, Live, Renames
<1>15. CascadeIsComplete'
  <2>1. ASSUME NEW d \in Requests, d # r, NEW y \in Rows
        PROVE  lock[y] = d <=> lock'[y] = d
    BY <1>6, <2>1
  <2>. QED
    BY <1>1, <1>2, <1>3, <2>1 DEF TreeInv, CascadeIsComplete, Cascaded, Live
<1>16. NoOrphanRows' /\ UniqueNames'
  BY <1>1 DEF TreeInv, NoOrphanRows, UniqueNames, Live
<1>. QED
  BY <1>7, <1>8, <1>10, <1>11, <1>12, <1>13, <1>14, <1>15, <1>16 DEF TreeInv

(* ON DELETE CASCADE goes one level down. *)
LEMMA Cascading ==
    ASSUME TreeInv, NEW r \in Requests, Cascade(r), Cascaded(r) # {}
    PROVE  TreeInv'
<1>. USE Tree, RowsAssumption DEF tables, locks
<1>1. /\ TypeOK /\ pc[r] = "cascade" /\ Blockers(r) = {} /\ call[r].op = "Delete"
      /\ UNCHANGED <<tables, call, pc, code, share, entry>>
      /\ lock' = [y \in Rows |-> IF y \in Cascaded(r) THEN r ELSE lock[y]]
  BY DEF TreeInv, Cascade, At, ControlInv
<1>2. \A y \in Cascaded(r) : lock[y] = None /\ share[y] \subseteq {r}
  BY <1>1, Unblocked
<1>3. \A y \in Cascaded(r) : y \in Children /\ y \in Live /\ lock[Parent(y)] = r
  BY DEF Cascaded
<1>4. /\ LocksOK'
      /\ \A x \in Rows : /\ x \in Cascaded(r) => lock'[x] = r /\ lock[x] = None
                         /\ x \notin Cascaded(r) => lock'[x] = lock[x]
  BY <1>1, <1>2 DEF TypeOK, LocksOK, Holder
<1>5. \A x \in Rows, d \in Requests :
         /\ lock[x] = d => lock'[x] = d
         /\ lock'[x] = d /\ d # r => lock[x] = d
         /\ lock'[x] = r => lock[x] = r \/ x \in Cascaded(r)
  BY <1>4
<1>6. TypeOK' /\ ControlInv'
  BY <1>1, <1>4 DEF TreeInv, TypeOK, TablesOK, RequestsOK, ControlInv, Renames
<1>7. \A d \in Requests : Written(d)' <=> Written(d)
  BY <1>1 DEF Written
<1>8. WriterLocks'
  BY <1>1, <1>5, <1>7 DEF TreeInv, WriterLocks, Written, ControlInv
<1>9. LockedIsWritten'
  <2>1. ASSUME NEW x \in Rows, NEW d \in Requests, lock'[x] = d
        PROVE  LockedIsWritten!(x, d)'
    <3>1. CASE lock[x] = d
      BY <1>1, <1>5, <1>7, <3>1 DEF TreeInv, LockedIsWritten, Live
    <3>2. CASE lock[x] # d
      <4>1. d = r /\ x \in Cascaded(r)
        BY <1>5, <2>1, <3>2
      <4>2. x \in Children /\ x \in Live /\ lock'[Parent(x)] = r
        BY <1>3, <1>5, <4>1
      <4>. QED
        BY <1>1, <1>7, <4>1, <4>2 DEF Written, Live
    <3>. QED
      BY <3>1, <3>2
  <2>. QED
    BY <2>1 DEF LockedIsWritten
<1>10. SharedExists'
  BY <1>1, <1>2, <1>5 DEF TreeInv, SharedExists, Live
<1>11. WritersShare' /\ NewRows' /\ NamesClaimed' /\ ClaimedIsFree'
  BY <1>1 DEF TreeInv, WritersShare, NewRows, Running, NamesClaimed, ClaimedIsFree, Live, Renames
<1>12. CascadeIsComplete'
  <2>1. ASSUME NEW d \in Requests, d # r, NEW y \in Rows
        PROVE  lock[y] = d <=> lock'[y] = d
    BY <1>5, <2>1
  <2>. QED
    BY <1>1, <2>1 DEF TreeInv, CascadeIsComplete, Cascaded, Live
<1>13. NoOrphanRows' /\ UniqueNames'
  BY <1>1 DEF TreeInv, NoOrphanRows, UniqueNames, Live
<1>. QED
  BY <1>6, <1>8, <1>9, <1>10, <1>11, <1>12, <1>13 DEF TreeInv

-----------------------------------------------------------------------------
(* COMMIT *)

LEMMA Committing ==
    ASSUME TreeInv, NEW r \in Requests, Commit(r)
    PROVE  /\ pc[r] = "commit" /\ call' = call /\ call[r].x \in Rows
           /\ pc' \in [Requests -> Steps] /\ code' \in [Requests -> Codes]
           /\ pc'[r] = "done" /\ code'[r] \in {"ok", "internal"}
           /\ \A d \in Requests \ {r} : pc'[d] = pc[d] /\ code'[d] = code[d]
           /\ LocksOK'
           /\ \A x \in Rows : /\ share'[x] = share[x] \ {r}
                              /\ lock'[x] # r
                              /\ \A d \in Requests \ {r} : lock'[x] = d <=> lock[x] = d
           /\ \A x \in Rows, n \in Names :
                 /\ entry'[x][n] \in {None, entry[x][n]} /\ entry'[x][n] # r
                 /\ entry[x][n] # r => entry'[x][n] = entry[x][n]
<1>1. /\ TypeOK /\ pc[r] = "commit" /\ call' = call
      /\ (\E e \in {"ok", "internal"} : Answer(r, e)) /\ Release(r)
  BY DEF TreeInv, Commit, At, Answer
<1>2. call[r].x \in Rows
  BY <1>1 DEF TreeInv, ControlInv
<1>3. /\ pc' \in [Requests -> Steps] /\ code' \in [Requests -> Codes]
      /\ pc'[r] = "done" /\ code'[r] \in {"ok", "internal"}
      /\ \A d \in Requests \ {r} : pc'[d] = pc[d] /\ code'[d] = code[d]
  BY <1>1 DEF Answer, TypeOK, RequestsOK, Steps, Codes
<1>4. \A x \in Rows : \A d \in Requests \ {r} : lock'[x] = d <=> lock[x] = d
  BY <1>1, Released, RowsAssumption
<1>. QED
  BY <1>1, <1>2, <1>3, <1>4, Released

LEMMA CommittingCreate ==
    ASSUME TreeInv, NEW r \in Requests, Commit(r), CommitCreate(r)
    PROVE  TreeInv'
<1>. USE Tree, RowsAssumption
<1>. DEFINE c == call[r]
            p == Parent(c.x)
<1>1. /\ c.op = "Create" /\ c.x \in Children /\ c.x \in Rows /\ c.n \in Names
      /\ state[c.x] = "unused" /\ \A d \in Requests : call[d].x = c.x => d = r
      /\ pc[r] = "commit" /\ TypeOK
  BY Committing DEF CommitCreate, TreeInv, ControlInv, NewRows, Running
<1>2. /\ state' = [state EXCEPT ![c.x] = "live"] /\ version' = [version EXCEPT ![c.x] = 1]
      /\ name' = [name EXCEPT ![c.x] = c.n] /\ UNCHANGED members
      /\ log' = log \cup {[req |-> r, op |-> "Create", x |-> c.x, v |-> c.v]}
  BY <1>1 DEF CommitCreate, Record
<1>3. TypeOK'
  BY <1>1, <1>2, Committing DEF TypeOK, TablesOK, RequestsOK, Events, AllOperations, Calls
<1>4. /\ state'[c.x] = "live" /\ name'[c.x] = c.n
      /\ \A x \in Rows \ {c.x} : /\ state'[x] = state[x] /\ name'[x] = name[x]
                                 /\ version'[x] = version[x]
      /\ c.x \notin Live /\ Live' = Live \cup {c.x}
  BY <1>1, <1>2 DEF TypeOK, TablesOK, Live
<1>5. r \in share[p] /\ p \in Live /\ entry[p][c.n] = r
  BY <1>1 DEF TreeInv, WritersShare, SharedExists, NamesClaimed
<1>6. \A d \in Requests : Written(d)' => d # r /\ Written(d) /\ call[d].x \in Live
  BY <1>1, Committing DEF TreeInv, WriterLocks, LockedIsWritten, Written, ControlInv
<1>7. ControlInv'
  BY <1>1, <1>4, <1>6, Committing DEF TreeInv, ControlInv, Renames, Written
<1>8. WriterLocks'
  BY <1>4, <1>6, Committing DEF TreeInv, WriterLocks, Live
<1>9. LockedIsWritten'
  BY <1>4, Committing DEF TreeInv, LockedIsWritten, Written
<1>10. SharedExists' /\ WritersShare'
  BY <1>4, Committing DEF TreeInv, ControlInv, SharedExists, WritersShare
<1>11. NewRows'
  BY <1>1, <1>4, Committing DEF TreeInv, ControlInv, NewRows, Running
<1>12. NamesClaimed'
  <2>1. ASSUME NEW d \in Requests \ {r}, call[d].op # "none",
               call[d].op = "Create" \/ Renames(d, call[d].x)
        PROVE  entry[Parent(call[d].x)][call[d].n] = d
                 => entry'[Parent(call[d].x)][call[d].n] = d
    BY <1>1, <2>1, Committing DEF TreeInv, ControlInv, Renames, TypeOK, RequestsOK, Calls
  <2>2. ASSUME NEW d \in Requests \ {r}, Renames(d, call[d].x)',
               pc[d] \in {"audit", "shareProject", "commit"}
        PROVE  Renames(d, call[d].x)
    BY <1>1, <1>4, <2>2, Committing DEF Renames, TreeInv, ControlInv
  <2>. QED
    BY <2>1, <2>2, Committing DEF TreeInv, ControlInv, NamesClaimed
<1>13. ClaimedIsFree'
  BY <1>1, <1>4, <1>5, Committing DEF TreeInv, ClaimedIsFree
<1>14. CascadeIsComplete'
  <2>1. ASSUME NEW d \in Requests \ {r}, call[d].op = "Delete" PROVE lock[p] # d
    BY <1>5, <2>1 DEF TreeInv, SharedExists, Live
  <2>. QED
    BY <1>1, <1>4, <2>1, Committing DEF TreeInv, CascadeIsComplete, Cascaded
<1>15. NoOrphanRows'
  BY <1>4, <1>5 DEF TreeInv, NoOrphanRows
<1>16. UniqueNames'
  <2>1. \A y \in Siblings(c.x) \cap Live : name[y] # c.n
    BY <1>1, <1>5 DEF TreeInv, ClaimedIsFree, Siblings
  <2>2. ASSUME NEW x \in Live', NEW y \in Siblings(x) \cap Live' PROVE name'[x] # name'[y]
    <3>1. CASE x = c.x
      BY <1>1, <1>4, <2>1, <2>2, <3>1
    <3>2. CASE y = c.x
      BY <1>1, <1>4, <2>1, <2>2, <3>2 DEF Live
    <3>3. CASE x # c.x /\ y # c.x
      BY <1>4, <2>2, <3>3 DEF TreeInv, UniqueNames, Live
    <3>. QED
      BY <3>1, <3>2, <3>3
  <2>. QED
    BY <2>2 DEF UniqueNames, Siblings
<1>. QED
  BY <1>3, <1>7, <1>8, <1>9, <1>10, <1>11, <1>12, <1>13, <1>14, <1>15, <1>16 DEF TreeInv

LEMMA CommittingUpdate ==
    ASSUME TreeInv, NEW r \in Requests, Commit(r), CommitUpdate(r)
    PROVE  TreeInv'
<1>. USE Tree, RowsAssumption
<1>. DEFINE c == call[r]
            p == Parent(c.x)
<1>1. /\ c.op = "Update" /\ c.x \in Rows /\ c.x \in Live
      /\ lock[c.x] = r /\ version[c.x] = c.v /\ pc[r] = "commit" /\ TypeOK
  BY Committing DEF CommitUpdate, TreeInv, WriterLocks, LockedIsWritten, Written
<1>2. /\ UNCHANGED <<state, members>> /\ version' = [version EXCEPT ![c.x] = @ + 1]
      /\ name' = IF c.n = None THEN name ELSE [name EXCEPT ![c.x] = c.n]
      /\ log' = log \cup {[req |-> r, op |-> "Update", x |-> c.x, v |-> c.v]}
  BY <1>1 DEF CommitUpdate, Record
<1>3. c.n \in Names \cup {None} /\ c.v \in Nat /\ (c.n # None => c.x \in Children)
  BY <1>1 DEF TypeOK, RequestsOK, Calls, TreeInv, ControlInv, Rows
<1>4. TypeOK'
  BY <1>1, <1>2, <1>3, Committing DEF TypeOK, TablesOK, RequestsOK, Events, AllOperations
<1>5. /\ Live' = Live
      /\ \A x \in Rows \ {c.x} : version'[x] = version[x] /\ name'[x] = name[x]
      /\ name'[c.x] = IF c.n = None THEN name[c.x] ELSE c.n
  BY <1>1, <1>2, <1>3 DEF TypeOK, TablesOK, Live
<1>6. Renames(r, c.x) => c.x \in Children /\ c.n \in Names /\ entry[p][c.n] = r
  BY <1>1, <1>3 DEF TreeInv, NamesClaimed, Renames
<1>7. \A d \in Requests : Written(d)' => d # r /\ Written(d) /\ call[d].x # c.x
  BY <1>1, Committing DEF TreeInv, WriterLocks, Written, ControlInv
<1>8. ControlInv'
  BY <1>5, <1>7, Committing DEF TreeInv, ControlInv, Renames, Written
<1>9. WriterLocks'
  BY <1>5, <1>7, Committing DEF TreeInv, ControlInv, WriterLocks, Written
<1>10. LockedIsWritten' /\ SharedExists'
  BY <1>5, Committing DEF TreeInv, LockedIsWritten, SharedExists, Written
<1>11. WritersShare' /\ NewRows'
  BY <1>2, Committing DEF TreeInv, ControlInv, WritersShare, NewRows, Running
<1>12. NamesClaimed'
  <2>1. ASSUME NEW d \in Requests \ {r}, call[d].op # "none",
               call[d].op = "Create" \/ Renames(d, call[d].x)
        PROVE  entry[Parent(call[d].x)][call[d].n] = d
                 => entry'[Parent(call[d].x)][call[d].n] = d
    BY <1>1, <2>1, Committing DEF TreeInv, ControlInv, Renames, TypeOK, RequestsOK, Calls
  <2>2. ASSUME NEW d \in Requests \ {r}, Renames(d, call[d].x)',
               pc[d] \in {"audit", "shareProject", "commit"}
        PROVE  Renames(d, call[d].x)
    BY <1>5, <1>7, <2>2, Committing DEF Renames, TreeInv, ControlInv, Written
  <2>. QED
    BY <2>1, <2>2, Committing DEF TreeInv, ControlInv, NamesClaimed
<1>13. ClaimedIsFree'
  <2>1. ASSUME NEW q \in Rows, NEW n \in Names, entry'[q][n] # None,
               NEW y \in Children \cap Live, Parent(y) = q
        PROVE  name'[y] # n
    <3>1. entry[q][n] # None /\ entry[q][n] # r /\ name[y] # n
      BY <2>1, Committing DEF TreeInv, ClaimedIsFree
    <3>2. name'[y] = name[y] \/ (y = c.x /\ name'[y] = c.n /\ Renames(r, c.x))
      BY <1>1, <1>5 DEF Renames, Live
    <3>. QED
      BY <1>6, <2>1, <3>1, <3>2
  <2>. QED
    BY <1>5, <2>1 DEF ClaimedIsFree
<1>14. CascadeIsComplete'
  BY <1>5, Committing DEF TreeInv, CascadeIsComplete, Cascaded
<1>15. NoOrphanRows'
  BY <1>5 DEF TreeInv, NoOrphanRows
<1>16. UniqueNames'
  <2>1. Renames(r, c.x) => \A y \in Siblings(c.x) \cap Live : name[y] # c.n
    BY <1>1, <1>6 DEF TreeInv, ClaimedIsFree, Siblings
  <2>2. \A x \in Rows : x # c.x \/ ~Renames(r, c.x) => name'[x] = name[x]
    BY <1>1, <1>5 DEF Renames
  <2>3. Renames(r, c.x) => name'[c.x] = c.n
    BY <1>5 DEF Renames
  <2>4. ASSUME NEW x \in Live, NEW y \in Siblings(x) \cap Live PROVE name'[x] # name'[y]
    <3>. x \in Rows /\ y \in Rows /\ x \in Siblings(y) /\ x # y /\ name[x] # name[y]
      BY <2>4 DEF Live, TreeInv, UniqueNames
    <3>1. CASE Renames(r, c.x) /\ x = c.x
      BY <2>1, <2>2, <2>3, <3>1
    <3>2. CASE Renames(r, c.x) /\ y = c.x
      BY <2>1, <2>2, <2>3, <3>2
    <3>3. CASE ~Renames(r, c.x) \/ (x # c.x /\ y # c.x)
      BY <2>2, <3>3
    <3>. QED
      BY <3>1, <3>2, <3>3
  <2>. QED
    BY <1>5, <2>4 DEF UniqueNames, Siblings
<1>. QED
  BY <1>4, <1>8, <1>9, <1>10, <1>11, <1>12, <1>13, <1>14, <1>15, <1>16 DEF TreeInv

LEMMA CommittingDelete ==
    ASSUME TreeInv, NEW r \in Requests, Commit(r), CommitDelete(r)
    PROVE  TreeInv'
<1>. USE Tree, RowsAssumption
<1>. DEFINE c == call[r]
<1>1. c.op = "Delete" /\ c.x \in Rows /\ pc[r] = "commit" /\ TypeOK /\ Cascaded(r) = {}
  BY Committing DEF CommitDelete, TreeInv, CascadeIsComplete
<1>2. /\ state' = [x \in Rows |-> IF lock[x] = r THEN "deleted" ELSE state[x]]
      /\ UNCHANGED <<version, name>>
      /\ members' \in {members, {}}
      /\ log' \in {{}, log \cup {[req |-> r, op |-> "Delete", x |-> c.x, v |-> c.v]}}
  BY <1>1 DEF CommitDelete, Record
<1>3. TypeOK'
  BY <1>1, <1>2, Committing DEF TypeOK, TablesOK, RequestsOK, Events, AllOperations, Calls
<1>4. /\ Live' = { x \in Live : lock[x] # r }
      /\ \A x \in Rows : state[x] = "unused" => state'[x] = "unused"
  BY <1>1, <1>2 DEF Live, TreeInv, LockedIsWritten
<1>5. ControlInv'
  BY <1>2, Committing DEF TreeInv, ControlInv, Renames
<1>6. WriterLocks'
  BY <1>2, Committing DEF TreeInv, ControlInv, WriterLocks, Written
<1>7. LockedIsWritten'
  <2>1. ASSUME NEW x \in Rows, NEW d \in Requests, lock'[x] = d
        PROVE  LockedIsWritten!(x, d)'
    <3>1. d # r /\ lock[x] = d
      BY <2>1, Committing
    <3>2. x \in Live' /\ Written(d)'
      BY <1>4, <3>1, Committing DEF TreeInv, LockedIsWritten, Written
    <3>. QED
      BY <3>1, <3>2, Committing DEF TreeInv, LockedIsWritten
  <2>. QED
    BY <2>1 DEF LockedIsWritten
<1>8. SharedExists'
  <2>1. ASSUME NEW x \in Rows, share'[x] # {} PROVE x \in Live'
    <3>1. share[x] # {} /\ ~(share[x] \subseteq {r})
      BY <2>1, Committing
    <3>. QED
      BY <1>1, <1>4, <3>1 DEF TreeInv, SharedExists
  <2>. QED
    BY <2>1, Committing DEF TreeInv, SharedExists
<1>9. WritersShare' /\ NewRows'
  BY <1>4, Committing DEF TreeInv, ControlInv, WritersShare, NewRows, Running
<1>10. NamesClaimed'
  <2>1. ASSUME NEW d \in Requests \ {r}, call[d].op # "none",
               call[d].op = "Create" \/ Renames(d, call[d].x)
        PROVE  entry[Parent(call[d].x)][call[d].n] = d
                 => entry'[Parent(call[d].x)][call[d].n] = d
    BY <1>1, <2>1, Committing DEF TreeInv, ControlInv, Renames, TypeOK, RequestsOK, Calls
  <2>. QED
    BY <1>2, <2>1, Committing DEF TreeInv, ControlInv, NamesClaimed, Renames
<1>11. ClaimedIsFree'
  BY <1>2, <1>4, Committing DEF TreeInv, ClaimedIsFree
<1>12. CascadeIsComplete'
  BY <1>4, Committing DEF TreeInv, CascadeIsComplete, Cascaded
<1>13. NoOrphanRows'
  BY <1>1, <1>4 DEF TreeInv, NoOrphanRows, Cascaded
<1>14. UniqueNames'
  BY <1>2, <1>4 DEF TreeInv, UniqueNames, Siblings
<1>. QED
  BY <1>3, <1>5, <1>6, <1>7, <1>8, <1>9, <1>10, <1>11, <1>12, <1>13, <1>14 DEF TreeInv

-----------------------------------------------------------------------------
(* Every step *)

LEMMA Arrivals ==
    ASSUME TreeInv, NEW r \in Requests, Arrive(r)
    PROVE  TreeInv'
<1>. USE Tree
<1>1. ASSUME NEW u \in Users, NEW x \in Children, NEW n \in Names, Create(r, u, x, n)
      PROVE  TreeInv'
  <2>. DEFINE c == Call("Create", u, x, 0, n)
  <2>1. Arrives(c) /\ Serve(r, c)
    BY <1>1 DEF Create, Arrives, Call, Calls, AllOperations
  <2>2. (\E e \in Codes : Answer(r, e)) \/ (FirstStep(c, "insert") /\ Goto(r, "insert"))
    BY <1>1 DEF Create, Codes, FirstStep, Call
  <2>. QED
    BY <2>1, <2>2, Arriving
<1>2. ASSUME NEW u \in Users, NEW x \in Rows, NEW v \in 1..MaxVersion,
             NEW n \in Names \cup {None}, Update(r, u, x, v, n)
      PROVE  TreeInv'
  <2>. DEFINE c == Call("Update", u, x, v, n)
  <2>1. v \in Nat
    BY RequestsAssumption
  <2>2. Arrives(c) /\ Serve(r, c)
    BY <1>2, <2>1 DEF Update, Start, Arrives, Call, Calls, AllOperations
  <2>3. \E s \in {"write", "rowState"} : Goto(r, s) /\ FirstStep(c, s)
    BY <1>2 DEF Update, Start, FirstStep, Call
  <2>. QED
    BY <2>2, <2>3, Arriving
<1>3. ASSUME NEW u \in Users, NEW x \in Rows, NEW v \in 1..MaxVersion, Delete(r, u, x, v)
      PROVE  TreeInv'
  <2>. DEFINE c == Call("Delete", u, x, v, None)
  <2>1. v \in Nat
    BY RequestsAssumption
  <2>2. Arrives(c) /\ Serve(r, c)
    BY <1>3, <2>1 DEF Delete, Start, Arrives, Call, Calls, AllOperations
  <2>3. \E s \in {"write", "rowState"} : Goto(r, s) /\ FirstStep(c, s)
    BY <1>3 DEF Delete, Start, FirstStep, Call
  <2>. QED
    BY <2>2, <2>3, Arriving
<1>. QED
  BY <1>1, <1>2, <1>3 DEF Arrive

LEMMA Stepping ==
    ASSUME TreeInv, NEW r \in Requests, Step(r)
    PROVE  TreeInv'
<1>. USE DEF Codes
<1>1. CASE Insert(r)
  BY <1>1, Going, Answering DEF Insert, At
<1>2. CASE Claim(r)
  BY <1>2, Claiming, Answering DEF Claim, At
<1>3. CASE ShareParent(r)
  <2>1. CASE Parent(call[r].x) \in Live
    BY <1>3, <2>1, Sharing, Unblocked DEF ShareParent, At
  <2>2. CASE Parent(call[r].x) \notin Live
    BY <1>3, <2>2, Answering DEF ShareParent, At
  <2>. QED
    BY <2>1, <2>2
<1>4. CASE Write(r)
  BY <1>4, Writing, Going DEF Write, At
<1>5. CASE RowState(r)
  BY <1>5, Answering DEF RowState, StateError, At
<1>6. CASE Cascade(r)
  <2>1. CASE Cascaded(r) # {}
    BY <1>6, <2>1, Cascading
  <2>2. CASE Cascaded(r) = {}
    BY <1>6, <2>2, Going DEF Cascade, At
  <2>. QED
    BY <2>1, <2>2
<1>7. CASE Audit(r)
  BY <1>7, Going, Answering DEF Audit, At
<1>8. CASE ShareProject(r)
  <2>1. CASE Project \in Live
    BY <1>8, <2>1, Sharing, Unblocked DEF ShareProject, At
  <2>2. CASE Project \notin Live
    BY <1>8, <2>2, Answering DEF ShareProject, At
  <2>. QED
    BY <2>1, <2>2
<1>9. CASE Commit(r)
  BY <1>9, CommittingCreate, CommittingUpdate, CommittingDelete DEF Commit
<1>. QED
  BY <1>1, <1>2, <1>3, <1>4, <1>5, <1>6, <1>7, <1>8, <1>9 DEF Step

(* Members who come and go, and steps that change nothing, disturb no row.   *)
LEMMA Unchanged ==
    ASSUME TreeInv, UNCHANGED <<state, version, name, log, call, pc, code, locks>>,
           members' \in SUBSET Users
    PROVE  TreeInv'
<1>1. TypeOK' /\ ControlInv'
  BY DEF TreeInv, TypeOK, TablesOK, RequestsOK, LocksOK, locks, ControlInv, Renames
<1>2. WriterLocks' /\ LockedIsWritten' /\ SharedExists' /\ WritersShare'
  BY DEF TreeInv, WriterLocks, LockedIsWritten, SharedExists, WritersShare, Written, Live, locks
<1>3. NewRows' /\ NamesClaimed' /\ ClaimedIsFree'
  BY DEF TreeInv, NewRows, NamesClaimed, ClaimedIsFree, Running, Renames, Live, locks
<1>4. CascadeIsComplete' /\ NoOrphanRows' /\ UniqueNames'
  BY DEF TreeInv, CascadeIsComplete, NoOrphanRows, UniqueNames, Cascaded, Live, locks
<1>. QED
  BY <1>1, <1>2, <1>3, <1>4 DEF TreeInv

LEMMA RowsStep == TreeInv /\ [Next]_vars => TreeInv'
<1>. SUFFICES ASSUME TreeInv, [Next]_vars PROVE TreeInv'
  OBVIOUS
<1>1. ASSUME NEW r \in Requests, Arrive(r) \/ Step(r) PROVE TreeInv'
  BY <1>1, Arrivals, Stepping
<1>2. ASSUME NEW r \in Requests, DeadlockVictim(r) \/ Abort(r) PROVE TreeInv'
  BY <1>2, Answering DEF DeadlockVictim, Abort, Running, Codes
<1>3. ASSUME NEW u \in Users, Join(u) \/ Depart(u) PROVE TreeInv'
  BY <1>3, Unchanged DEF Join, Depart, TreeInv, TypeOK, TablesOK
<1>4. CASE UNCHANGED vars
  BY <1>4, Unchanged DEF vars, tables, TreeInv, TypeOK, TablesOK
<1>. QED
  BY <1>1, <1>2, <1>3, <1>4 DEF Next

LEMMA RowsStart == Init => TreeInv
<1>. SUFFICES ASSUME Init PROVE TreeInv
  OBVIOUS
<1>. USE Tree, RowsAssumption DEF Init, InitRows
<1>1. TypeOK
  BY DEF TypeOK, TablesOK, RequestsOK, LocksOK, Holder, NoCall, Call, Calls, Steps, Codes
<1>2. ControlInv /\ WriterLocks /\ LockedIsWritten
  BY DEF ControlInv, WriterLocks, LockedIsWritten, Written, NoCall, Call
<1>3. SharedExists /\ WritersShare /\ NewRows
  BY DEF SharedExists, WritersShare, NewRows, Running
<1>4. NamesClaimed /\ ClaimedIsFree /\ CascadeIsComplete
  BY DEF NamesClaimed, ClaimedIsFree, CascadeIsComplete
<1>5. NoOrphanRows /\ UniqueNames
  BY DEF NoOrphanRows, UniqueNames, Live
<1>. QED
  BY <1>1, <1>2, <1>3, <1>4, <1>5 DEF TreeInv

(* The transactions keep their invariant: a locked row exists, is locked by  *)
(* the request that wrote it, and keeps the version that the request named.  *)
LEMMA TreeInvariant == Spec => []TreeInv
  BY RowsStart, RowsStep, PTL DEF Spec

(* Every variable has its type, whatever the rows, names and requests.       *)
THEOREM RowsTypeCorrect == Spec => []TypeOK
  BY TreeInvariant, PTL DEF TreeInv

(* Two live services of a project never have one slug, nor two live          *)
(* resources of a service one key.                                           *)
THEOREM NamesStayUnique == Spec => []UniqueNames
  BY TreeInvariant, PTL DEF TreeInv

-----------------------------------------------------------------------------
(* The audit log *)

(* What a step that does not commit leaves alone.                            *)
LEMMA Quiet ==
    ASSUME TreeInv, NEW r \in Requests,
           Arrive(r) \/ Step(r) \/ DeadlockVictim(r) \/ Abort(r)
    PROVE  \/ Commit(r)
           \/ /\ UNCHANGED <<state, version, name, log>>
              /\ pc[r] # "done"
              /\ \A d \in Requests \ {r} :
                    pc'[d] = pc[d] /\ code'[d] = code[d] /\ call'[d] = call[d]
              /\ (code'[r] # "ok" \/ code'[r] = code[r])
              /\ (call'[r].op = "Create" /\ call'[r] # call[r] => call'[r].v = 0)
<1>. DEFINE Moves ==
          /\ pc[r] # "done"
          /\ \A d \in Requests \ {r} : pc'[d] = pc[d] /\ code'[d] = code[d]
          /\ (code'[r] # "ok" \/ code'[r] = code[r])
<1>1. TypeOK
  BY DEF TreeInv
<1>2. ASSUME NEW s, Goto(r, s) \/ Advance(r, s), pc[r] # "done" PROVE Moves
  BY <1>1, <1>2 DEF Goto, Advance, TypeOK, RequestsOK
<1>3. ASSUME NEW e, Answer(r, e), e # "ok", pc[r] # "done" PROVE Moves
  BY <1>1, <1>3 DEF Answer, TypeOK, RequestsOK
<1>4. CASE Arrive(r)
  <2>1. ASSUME NEW c, Serve(r, c), c.op = "Create" => c.v = 0, Moves
        PROVE  /\ UNCHANGED <<state, version, name, log>>
               /\ \A d \in Requests \ {r} : call'[d] = call[d]
               /\ call'[r].op = "Create" => call'[r].v = 0
    BY <1>1, <2>1 DEF Serve, tables, TypeOK, RequestsOK
  <2>2. ASSUME NEW u \in Users, NEW x \in Children, NEW n \in Names, Create(r, u, x, n)
        PROVE  Moves /\ Serve(r, Call("Create", u, x, 0, n))
    <3>1. Serve(r, Call("Create", u, x, 0, n)) /\ pc[r] # "done"
      BY <2>2 DEF Create, Serve
    <3>2. Goto(r, "insert") \/ Answer(r, "notFound")
      BY <2>2 DEF Create
    <3>. HIDE DEF Moves
    <3>3. CASE Goto(r, "insert")
      BY <1>2, <3>1, <3>3
    <3>4. CASE Answer(r, "notFound")
      BY <1>3, <3>1, <3>4
    <3>. QED
      BY <3>1, <3>2, <3>3, <3>4
  <2>3. ASSUME NEW u, NEW x, NEW v, NEW n, Update(r, u, x, v, n)
        PROVE  Moves /\ Serve(r, Call("Update", u, x, v, n))
    BY <1>2, <2>3 DEF Update, Start, Serve
  <2>4. ASSUME NEW u, NEW x, NEW v, Delete(r, u, x, v)
        PROVE  Moves /\ Serve(r, Call("Delete", u, x, v, None))
    BY <1>2, <2>4 DEF Delete, Start, Serve
  <2>. QED
    BY <1>4, <2>1, <2>2, <2>3, <2>4 DEF Arrive, Call
<1>5. CASE Step(r) /\ ~Commit(r)
  <2>1. UNCHANGED <<tables, call>>
    BY <1>5 DEF Step, Insert, Claim, ShareParent, Write, RowState, Cascade, Audit, ShareProject
  <2>2. Moves
    <3>1. CASE Insert(r) \/ Claim(r) \/ ShareParent(r)
      BY <1>2, <1>3, <3>1 DEF Insert, Claim, ShareParent, At
    <3>2. CASE Write(r) \/ Audit(r) \/ ShareProject(r)
      BY <1>2, <1>3, <3>2 DEF Write, Audit, ShareProject, At
    <3>3. CASE RowState(r)
      <4>. DEFINE e == StateError(call[r].u, call[r].x, call[r].v)
      <4>1. e # "ok"
        BY DEF StateError
      <4>2. Answer(r, e) /\ pc[r] # "done"
        BY <3>3 DEF RowState, At
      <4>. HIDE DEF Moves, e
      <4>. QED
        BY <1>3, <4>1, <4>2
    <3>4. CASE Cascade(r)
      <4>1. pc[r] = "cascade"
        BY <3>4 DEF Cascade, At
      <4>2. CASE UNCHANGED <<pc, code, share, entry>>
        BY <4>1, <4>2
      <4>3. CASE \E s \in Steps : Goto(r, s)
        BY <1>2, <4>1, <4>3
      <4>. QED
        BY <3>4, <4>2, <4>3 DEF Cascade, Steps
    <3>. QED
      BY <1>5, <3>1, <3>2, <3>3, <3>4 DEF Step
  <2>. QED
    BY <2>1, <2>2 DEF tables
<1>6. CASE DeadlockVictim(r) \/ Abort(r)
  BY <1>3, <1>6 DEF DeadlockVictim, Abort, Running, tables
<1>. QED
  BY <1>4, <1>5, <1>6

(* The rows that a deletion has locked when it commits. *)
LEMMA WholeSubtree ==
    ASSUME TreeInv, NEW r \in Requests, Commit(r), CommitDelete(r)
    PROVE  /\ call[r].x \in Live /\ version[call[r].x] = call[r].v
           /\ \A y \in Rows : lock[y] = r <=> y \in Contract!Subtree(call[r].x)
<1>. USE Tree, RowsAssumption
<1>. DEFINE x == call[r].x
<1>1. /\ call[r].op = "Delete" /\ x \in Rows /\ Cascaded(r) = {}
      /\ lock[x] = r /\ x \in Live /\ version[x] = call[r].v
  BY Committing DEF CommitDelete, TreeInv, CascadeIsComplete, WriterLocks, Written, LockedIsWritten
<1>2. ASSUME NEW y \in Rows
      PROVE  y \in Contract!Subtree(x)
               <=> y \in Live /\ (y = x \/ x = Project \/ (y \in Resources /\ Parent(y) = x))
  BY <1>2 DEF Contract!Subtree, Contract!Row, Contract!Child, Contract!IsLive, Live, Rows,
              Children, Parent
<1>3. ASSUME NEW y \in Rows, lock[y] = r PROVE y \in Contract!Subtree(x)
  <2>1. y \in Live /\ (y = x \/ (y \in Children /\ lock[Parent(y)] = r))
    BY <1>3 DEF TreeInv, LockedIsWritten
  <2>2. CASE y \in Services /\ y # x
    BY <1>2, <2>1, <2>2 DEF TreeInv, LockedIsWritten
  <2>3. CASE y \in Resources /\ y # x
    <3>1. Parent(y) \in Services /\ lock[Parent(y)] = r
      BY <2>1, <2>3
    <3>2. Parent(y) = x \/ lock[Project] = r
      BY <3>1 DEF TreeInv, LockedIsWritten
    <3>3. lock[Project] = r => x = Project
      BY DEF TreeInv, LockedIsWritten
    <3>. QED
      BY <1>2, <2>1, <2>3, <3>2, <3>3
  <2>. QED
    BY <1>2, <2>1, <2>2, <2>3 DEF Children
<1>4. ASSUME NEW y \in Rows, y \in Contract!Subtree(x) PROVE lock[y] = r
  <2>1. ASSUME NEW z \in Children, z \in Live, lock[Parent(z)] = r PROVE lock[z] = r
    BY <1>1, <2>1 DEF Cascaded
  <2>2. y \in Children => Parent(y) \in Live
    BY <1>2, <1>4 DEF TreeInv, NoOrphanRows
  <2>3. y \in Services /\ x = Project => lock[y] = r
    BY <1>1, <1>2, <1>4, <2>1 DEF Children
  <2>4. y \in Resources /\ x = Project => lock[y] = r
    <3>1. y \in Resources /\ x = Project => lock[Parent(y)] = r
      BY <1>1, <2>1, <2>2 DEF Children
    <3>. QED
      BY <1>2, <1>4, <2>1, <3>1 DEF Children
  <2>5. y \in Resources /\ Parent(y) = x => lock[y] = r
    BY <1>1, <1>2, <1>4, <2>1 DEF Children
  <2>. QED
    BY <1>1, <1>2, <1>4, <2>3, <2>4, <2>5 DEF Rows, Children
<1>. QED
  BY <1>1, <1>3, <1>4

(* With the project goes everything. *)
LEMMA NothingOutlivesTheProject ==
    ASSUME TreeInv, NEW r \in Requests, Commit(r), CommitDelete(r), call[r].x = Project
    PROVE  Live' = {}
<1>1. \A y \in Rows : y \in Live => lock[y] = r
  BY WholeSubtree
  DEF Contract!Subtree, Contract!Row, Contract!Child, Contract!IsLive, Live, Rows, Children
<1>. QED
  BY <1>1 DEF CommitDelete, Live

(* What a commit does to the rows and the log, by its operation. *)
LEMMA Logging ==
    ASSUME TreeInv, HistoryInv, NEW r \in Requests, Commit(r)
    PROVE  LET c == call[r]
               e == [req |-> r, op |-> c.op, x |-> c.x, v |-> c.v] IN
           /\ \A f \in log : f.req # r
           /\ \/ /\ c.op = "Create" /\ c.x \in Children /\ c.n \in Names /\ c.v = 0
                 /\ state[c.x] = "unused" /\ Parent(c.x) \in Live
                 /\ state' = [state EXCEPT ![c.x] = "live"]
                 /\ version' = [version EXCEPT ![c.x] = 1]
                 /\ name' = [name EXCEPT ![c.x] = c.n]
                 /\ log' = log \cup {e}
              \/ /\ c.op = "Update" /\ c.x \in Live /\ version[c.x] = c.v
                 /\ version' = [version EXCEPT ![c.x] = c.v + 1]
                 /\ name' = IF c.n = None THEN name ELSE [name EXCEPT ![c.x] = c.n]
                 /\ state' = state /\ log' = log \cup {e}
              \/ /\ c.op = "Delete" /\ c.x \in Live /\ version[c.x] = c.v
                 /\ CommitDelete(r) /\ version' = version /\ name' = name
                 /\ \A y \in Rows : state'[y] \in {state[y], "deleted"}
                 /\ IF c.x = Project THEN log' = {} /\ Live' = {} ELSE log' = log \cup {e}
<1>. DEFINE c == call[r]
<1>1. /\ pc[r] = "commit" /\ c.x \in Rows /\ TypeOK
      /\ CommitCreate(r) \/ CommitUpdate(r) \/ CommitDelete(r)
  BY Committing DEF TreeInv, Commit
<1>2. \A f \in log : f.req # r
  BY <1>1 DEF HistoryInv, LogInv
<1>3. CASE CommitCreate(r)
  <2>1. c.op = "Create" /\ c.x \in Children /\ c.n \in Names /\ c.v = 0 /\ state[c.x] = "unused"
    BY <1>1, <1>3
    DEF CommitCreate, TreeInv, ControlInv, NewRows, Running, HistoryInv, LogInv
  <2>2. Parent(c.x) \in Live
    BY <1>1, <2>1, Tree DEF TreeInv, WritersShare, SharedExists
  <2>. QED
    BY <1>2, <1>3, <2>1, <2>2 DEF CommitCreate, Record
<1>4. CASE CommitUpdate(r)
  <2>1. c.op = "Update" /\ c.x \in Live /\ version[c.x] = c.v
    BY <1>1, <1>4 DEF CommitUpdate, TreeInv, WriterLocks, Written, LockedIsWritten
  <2>. QED
    BY <1>2, <1>4, <2>1 DEF CommitUpdate, Record
<1>5. CASE CommitDelete(r)
  <2>1. c.op = "Delete" /\ c.x \in Live /\ version[c.x] = c.v
    BY <1>5, WholeSubtree DEF CommitDelete
  <2>2. c.x = Project => Live' = {}
    BY <1>5, NothingOutlivesTheProject
  <2>. QED
    BY <1>2, <1>5, <2>1, <2>2 DEF CommitDelete, Record
<1>. QED
  BY <1>1, <1>3, <1>4, <1>5

(* The versions of a chain with one more update. *)
LEMMA OneMore ==
    ASSUME NEW S, NEW e, NEW n \in Nat \ {0}, e.v = n, { f.v : f \in S } = 1..(n - 1)
    PROVE  { f.v : f \in S \cup {e} } = 1..((n + 1) - 1)
<1>1. { f.v : f \in S \cup {e} } = { f.v : f \in S } \cup {n}
  <2>1. ASSUME NEW k PROVE k \in { f.v : f \in S \cup {e} } <=> k \in { f.v : f \in S } \cup {n}
    OBVIOUS
  <2>. QED
    BY <2>1
<1>. QED
  BY <1>1

LEMMA HistoryStep == TreeInv /\ TreeInv' /\ HistoryInv /\ [Next]_vars => HistoryInv'
<1>. SUFFICES ASSUME TreeInv, TreeInv', HistoryInv, [Next]_vars PROVE HistoryInv'
  OBVIOUS
<1>. USE Tree, RowsAssumption
<1>1. TypeOK /\ TypeOK'
  BY DEF TreeInv
<1>2. ASSUME UNCHANGED <<state, version, log, call, pc, code>> PROVE HistoryInv'
  BY <1>2 DEF HistoryInv, LogInv, LogAgreesWithAnswers, UpdatesFormAChain, Updates, Live
<1>3. ASSUME NEW r \in Requests, Arrive(r) \/ Step(r) \/ DeadlockVictim(r) \/ Abort(r), ~Commit(r)
      PROVE  HistoryInv'
  <2>1. /\ UNCHANGED <<state, version, log>>
        /\ pc[r] # "done" /\ code[r] # "ok" /\ code'[r] # "ok"
        /\ \A d \in Requests \ {r} : pc'[d] = pc[d] /\ code'[d] = code[d] /\ call'[d] = call[d]
        /\ call'[r].op = "Create" => call'[r].v = 0
    BY <1>3, Quiet DEF HistoryInv, LogInv
  <2>2. \A e \in log : e.req \in Requests \ {r}
    BY <1>1, <2>1 DEF HistoryInv, LogInv, TypeOK, TablesOK, Events
  <2>3. LogInv'
    BY <2>1, <2>2 DEF HistoryInv, LogInv
  <2>4. LogAgreesWithAnswers'
    BY <2>1, <2>2 DEF HistoryInv, LogAgreesWithAnswers, Live
  <2>. QED
    BY <2>1, <2>3, <2>4 DEF HistoryInv, UpdatesFormAChain, Updates, Live
<1>4. ASSUME NEW r \in Requests, Commit(r) PROVE HistoryInv'
  <2>. DEFINE c == call[r]
              e == [req |-> r, op |-> c.op, x |-> c.x, v |-> c.v]
  <2>1. /\ call' = call /\ pc'[r] = "done" /\ code'[r] \in {"ok", "internal"} /\ c.x \in Rows
        /\ \A d \in Requests \ {r} : pc'[d] = pc[d] /\ code'[d] = code[d]
    BY <1>4, Committing
  <2>2. /\ \A f \in log : f.req \in Requests \ {r} /\ f.x \in Rows
        /\ \A x \in Rows : state[x] # "unused" => state'[x] # "unused"
        /\ Project \in Live' => Project \in Live /\ log' = log \cup {e} /\ state'[c.x] # "unused"
        /\ log' = {} \/ (log' = log \cup {e} /\ state'[c.x] # "unused")
    BY <1>1, <1>4, Logging DEF TypeOK, TablesOK, Events, Live
  <2>3. LogInv'
    BY <2>1, <2>2 DEF HistoryInv, LogInv
  <2>4. LogAgreesWithAnswers'
    <3>1. SUFFICES ASSUME Project \in Live', NEW d \in Requests
                   PROVE  /\ code'[d] = "ok" => \E f \in log' : f.req = d
                          /\ (\E f \in log' : f.req = d) => code'[d] \in {"ok", "internal"}
      BY DEF LogAgreesWithAnswers
    <3>2. log' = log \cup {e} /\ e.req = r
      BY <2>2, <3>1
    <3>3. /\ code[d] = "ok" => \E f \in log : f.req = d
          /\ (\E f \in log : f.req = d) => code[d] \in {"ok", "internal"}
      BY <2>2, <3>1 DEF HistoryInv, LogAgreesWithAnswers
    <3>. HIDE DEF e
    <3>4. CASE d = r
      BY <2>1, <3>2, <3>4
    <3>5. CASE d # r
      BY <2>1, <3>2, <3>3, <3>5
    <3>. QED
      BY <3>4, <3>5
  <2>5. UpdatesFormAChain' /\ (\A x \in Live : version[x] # 0)'
    <3>1. CASE c.op = "Create"
      BY <1>1, <1>4, <3>1, Logging
      DEF HistoryInv, LogInv, UpdatesFormAChain, Updates, Live, TypeOK, TablesOK
    <3>2. CASE c.op = "Update"
      <4>1. /\ c.x \in Live /\ version[c.x] = c.v /\ Live' = Live
            /\ version' = [version EXCEPT ![c.x] = c.v + 1] /\ log' = log \cup {e}
            /\ e.op = "Update" /\ e.x = c.x /\ e.v = c.v
        BY <1>4, <3>2, Logging DEF Live
      <4>2. c.v \in Nat /\ c.v # 0 /\ version \in [Rows -> Nat] /\ c.x \in Rows
        BY <1>1, <2>1, <4>1 DEF HistoryInv, TypeOK, TablesOK
      <4>. HIDE DEF e, c
      <4>3. ASSUME NEW x \in Live, x # c.x
            PROVE  Updates(x)' = Updates(x) /\ version'[x] = version[x]
        BY <4>1, <4>2, <4>3 DEF Updates, Live
      <4>4. ASSUME NEW x \in Live, x = c.x
            PROVE  Updates(x)' = Updates(x) \cup {e} /\ version'[x] = c.v + 1
        BY <4>1, <4>2, <4>4 DEF Updates, Live
      <4>5. ASSUME NEW x \in Live, x = c.x
            PROVE  /\ { f.v : f \in Updates(x)' } = 1..(version'[x] - 1)
                   /\ \A f, g \in Updates(x)' : f.v = g.v => f = g
                   /\ version'[x] # 0
        <5>1. /\ { f.v : f \in Updates(x) } = 1..(c.v - 1)
              /\ \A f, g \in Updates(x) : f.v = g.v => f = g
          BY <4>1, <4>5 DEF HistoryInv, UpdatesFormAChain
        <5>2. { f.v : f \in Updates(x)' } = 1..((c.v + 1) - 1)
          <6>1. c.v \in Nat \ {0} /\ e.v = c.v /\ { f.v : f \in Updates(x) } = 1..(c.v - 1)
            BY <4>1, <4>2, <5>1
          <6>2. { f.v : f \in Updates(x) \cup {e} } = 1..((c.v + 1) - 1)
            BY <6>1, OneMore
          <6>. QED
            BY <4>4, <4>5, <6>2
        <5>3. \A f \in Updates(x) : f.v # c.v
          BY <4>2, <5>1
        <5>4. \A f, g \in Updates(x)' : f.v = g.v => f = g
          BY <4>1, <4>4, <4>5, <5>1, <5>3
        <5>. QED
          BY <4>2, <4>4, <4>5, <5>2, <5>4
      <4>6. ASSUME NEW x \in Live, x # c.x
            PROVE  /\ { f.v : f \in Updates(x)' } = 1..(version'[x] - 1)
                   /\ \A f, g \in Updates(x)' : f.v = g.v => f = g
                   /\ version'[x] # 0
        BY <4>3, <4>6 DEF HistoryInv, UpdatesFormAChain
      <4>. QED
        BY <4>1, <4>5, <4>6 DEF UpdatesFormAChain
    <3>3. CASE c.op = "Delete"
      BY <1>1, <1>4, <3>3, Logging
      DEF HistoryInv, UpdatesFormAChain, Updates, Live, TypeOK, TablesOK
    <3>. QED
      BY <1>4, <3>1, <3>2, <3>3, Logging
  <2>. QED
    BY <2>3, <2>4, <2>5 DEF HistoryInv
<1>5. ASSUME NEW u \in Users, Join(u) \/ Depart(u) PROVE HistoryInv'
  BY <1>2, <1>5 DEF Join, Depart
<1>6. CASE UNCHANGED vars
  BY <1>2, <1>6 DEF vars, tables
<1>. QED
  BY <1>3, <1>4, <1>5, <1>6 DEF Next

LEMMA HistoryStart == Init => HistoryInv
<1>. SUFFICES ASSUME Init PROVE HistoryInv
  OBVIOUS
<1>1. log = {} /\ \A r \in Requests : code[r] = "none" /\ call[r] = NoCall
  BY DEF Init
<1>2. \A x \in Live : version[x] = 1
  BY DEF Init, Live
<1>3. LogInv /\ LogAgreesWithAnswers
  BY <1>1 DEF LogInv, LogAgreesWithAnswers, NoCall, Call
<1>4. UpdatesFormAChain
  BY <1>1, <1>2 DEF UpdatesFormAChain, Updates
<1>. QED
  BY <1>2, <1>3, <1>4 DEF HistoryInv

(* The log and the answers agree with the rows: with TreeInv, inductive.     *)
LEMMA HistoryInvariant == Spec => []HistoryInv
<1>1. TreeInv /\ HistoryInv /\ [Next]_vars => HistoryInv'
  BY RowsStep, HistoryStep
<1>. QED
  BY <1>1, HistoryStart, TreeInvariant, PTL DEF Spec

(* No update is lost, whatever interleaving of whatever requests: the logged *)
(* updates of a row named its versions one after the other.                  *)
THEOREM NoUpdateIsLost == Spec => []UpdatesFormAChain
  BY HistoryInvariant, PTL DEF HistoryInv

(* A request that was answered with success has its audit event, and one     *)
(* that was refused has none; only after "internal" is it open whether the   *)
(* transaction was committed.                                                *)
THEOREM AnswersAreLogged == Spec => []LogAgreesWithAnswers
  BY HistoryInvariant, PTL DEF HistoryInv

-----------------------------------------------------------------------------
(* Deletions *)

LEMMA DeletionStep == TreeInv /\ HistoryInv /\ DeletionInv /\ [Next]_vars => DeletionInv'
<1>. SUFFICES ASSUME TreeInv, HistoryInv, DeletionInv, [Next]_vars PROVE DeletionInv'
  OBVIOUS
<1>. USE Tree, RowsAssumption
<1>1. ASSUME UNCHANGED <<state, version, log>> PROVE DeletionInv'
  BY <1>1 DEF DeletionInv, DeletionIsAudited, Live
<1>2. ASSUME NEW r \in Requests, Commit(r) PROVE DeletionInv'
  <2>. DEFINE c == call[r]
              e == [req |-> r, op |-> c.op, x |-> c.x, v |-> c.v]
  <2>1. /\ c.x \in Rows /\ state \in [Rows -> {"unused", "live", "deleted"}]
        /\ version \in [Rows -> Nat] /\ \A f \in log : f.x \in Rows
        /\ state' \in [Rows -> {"unused", "live", "deleted"}]
    BY <1>2, RowsStep, Committing DEF TreeInv, TypeOK, TablesOK, Events
  <2>2. CASE c.op \in {"Create", "Update"}
    <3>1. /\ state[c.x] # "deleted" /\ log' = log \cup {e}
          /\ \A y \in Rows : y # c.x => state'[y] = state[y] /\ version'[y] = version[y]
          /\ state'[c.x] # "deleted" /\ (state'[Project] = "live" => state[Project] = "live")
      BY <1>2, <2>1, <2>2, Logging DEF Live
    <3>2. \A f \in log : f.op = "Delete" => /\ state'[f.x] = "deleted"
                                           /\ version'[f.x] = version[f.x]
      BY <2>1, <3>1 DEF DeletionInv
    <3>3. \A f \in log' : f.op = "Delete" => f \in log
      BY <2>2, <3>1
    <3>4. \A y \in Children : state'[y] = "deleted" => state[y] = "deleted"
      BY <3>1
    <3>. QED
      BY <3>1, <3>2, <3>3, <3>4 DEF DeletionInv, DeletionIsAudited, Live
  <2>3. CASE c.op = "Delete" /\ c.x = Project
    <3>1. log' = {} /\ Live' = {}
      BY <1>2, <2>3, Logging
    <3>. QED
      BY <3>1 DEF DeletionInv, DeletionIsAudited
  <2>4. CASE c.op = "Delete" /\ c.x # Project
    <3>1. /\ CommitDelete(r) /\ version[c.x] = c.v /\ version' = version
          /\ log' = log \cup {e} /\ \A y \in Rows : state'[y] \in {state[y], "deleted"}
      BY <1>2, <2>4, Logging
    <3>2. ASSUME NEW y \in Rows
          PROVE  state'[y] = IF lock[y] = r THEN "deleted" ELSE state[y]
      BY <3>1 DEF CommitDelete
    <3>3. ASSUME NEW y \in Children, lock[y] = r PROVE c.x \in {y, Parent(y)}
      <4>1. y \in Contract!Subtree(c.x)
        BY <1>2, <3>1, <3>3, WholeSubtree
      <4>. QED
        BY <2>4, <4>1
        DEF Contract!Subtree, Contract!Row, Contract!Child, Contract!IsLive, Rows, Children, Parent
    <3>4. lock[c.x] = r
      BY <1>2, <2>4 DEF Commit, At, TreeInv, WriterLocks, Written
    <3>5. e \in log' /\ e.op = "Delete" /\ e.x = c.x /\ e.v = version'[c.x]
      BY <2>4, <3>1
    <3>. HIDE DEF e
    <3>6. \A f \in log' : f.op = "Delete" => state'[f.x] = "deleted"
      BY <2>1, <3>1, <3>2, <3>4, <3>5 DEF DeletionInv
    <3>7. ASSUME state'[Project] = "live", NEW y \in Children, state'[y] = "deleted"
          PROVE  \E f \in log' : /\ f.op = "Delete" /\ f.v = version'[f.x]
                                /\ f.x \in {y, Parent(y)}
      <4>1. CASE lock[y] = r
        BY <3>3, <3>5, <4>1
      <4>2. CASE lock[y] # r
        BY <3>1, <3>2, <3>7, <4>2 DEF DeletionInv, DeletionIsAudited, Live
      <4>. QED
        BY <4>1, <4>2
    <3>. QED
      BY <3>6, <3>7 DEF DeletionInv, DeletionIsAudited, Live
  <2>. QED
    BY <1>2, <2>2, <2>3, <2>4, Logging
<1>3. ASSUME NEW u \in Users, Join(u) \/ Depart(u) PROVE UNCHANGED <<state, version, log>>
  BY <1>3 DEF Join, Depart
<1>. QED
  BY <1>1, <1>2, <1>3, Quiet DEF Next, vars, tables

(* In every reachable state, whatever requests interleave or abort: what is  *)
(* locked is as its transaction knows it, and the log agrees with the rows.  *)
THEOREM RowsInvariant == Spec => []RowsInv
<1>1. Init => DeletionInv
  BY Tree DEF Init, InitRows, DeletionInv, DeletionIsAudited
<1>2. TreeInv /\ HistoryInv /\ DeletionInv /\ [Next]_vars => DeletionInv'
  BY DeletionStep
<1>. QED
  BY <1>1, <1>2, TreeInvariant, HistoryInvariant, PTL DEF Spec, RowsInv

(* A service or resource that is gone while its project lives was deleted by *)
(* a logged request, at its last version: a member's deletion, or that of    *)
(* the service above, is never without its audit event.                      *)
THEOREM DeletionsAreLogged == Spec => []DeletionIsAudited
<1>1. RowsInv => DeletionIsAudited
  BY DEF RowsInv, DeletionInv
<1>. QED
  BY <1>1, RowsInvariant, PTL

-----------------------------------------------------------------------------
(* Refinement *)

LEMMA Vocabulary ==
    /\ Contract!Row = Rows /\ Contract!Child = Children
    /\ \A x : Contract!Above(x) = Parent(x) /\ Contract!IsLive(x) = (state[x] = "live")
  BY DEF Contract!Row, Contract!Child, Contract!Above, Contract!IsLive, Rows, Children, Parent

LEMMA FreeName ==
    ASSUME NEW x \in Children, NEW n, ~Taken(x, n)
    PROVE  Contract!NameIsFree(x, n)
  BY Tree, Vocabulary DEF Contract!NameIsFree, Taken, Siblings, Live, Rows, Children

LEMMA RefinementStep ==
    TreeInv /\ HistoryInv /\ [Next]_vars => [Contract!ContractNext]_(Contract!contractVars)
<1>. SUFFICES ASSUME TreeInv, HistoryInv, [Next]_vars
              PROVE  [Contract!ContractNext]_(Contract!contractVars)
  OBVIOUS
<1>. USE Tree, RowsAssumption, Vocabulary
<1>1. ASSUME UNCHANGED <<state, version, name, log>>
      PROVE  [Contract!ContractNext]_(Contract!contractVars)
  BY <1>1 DEF Contract!contractVars
<1>2. ASSUME NEW r \in Requests, Commit(r) PROVE Contract!ContractNext
  <2>. DEFINE c == call[r]
  <2>1. c.x \in Rows /\ TypeOK
    BY <1>2, Committing DEF TreeInv
  <2>2. CASE c.op = "Create"
    <3>1. ~Taken(c.x, c.n)
      BY <1>2, <2>2, Logging, Committing DEF TreeInv, NamesClaimed, ClaimedIsFree, Taken, Siblings
    <3>2. /\ c.x \in Children /\ c.n \in Names
          /\ state[c.x] = "unused" /\ Parent(c.x) \in Live
          /\ state' = [state EXCEPT ![c.x] = "live"]
          /\ version' = [version EXCEPT ![c.x] = 1]
          /\ name' = [name EXCEPT ![c.x] = c.n]
          /\ \A f \in log : f.req # r
          /\ log' = log \cup {[req |-> r, op |-> "Create", x |-> c.x, v |-> 0]}
      BY <1>2, <2>2, Logging
    <3>3. Contract!NameIsFree(c.x, c.n)
      BY <3>1, <3>2, FreeName
    <3>4. Contract!Insert(c.x, c.n) /\ c.x \in Contract!Child /\ c.n \in Names
      BY <3>2, <3>3 DEF Contract!Insert, Contract!Log, Live
    <3>. QED
      BY <2>1, <3>4 DEF Contract!ContractNext
  <2>3. CASE c.op = "Update"
    <3>. DEFINE n == IF c.n = None THEN name[c.x] ELSE c.n
    <3>1. c.x \in Children => ~Taken(c.x, n)
      <4>1. pc[r] = "commit" /\ c.x \in Live
        BY <1>2, <2>3, Logging, Committing
      <4>2. CASE Renames(r, c.x)
        <5>1. entry[Parent(c.x)][c.n] = r /\ n = c.n /\ c.n \in Names
          BY <2>1, <4>1, <4>2
          DEF TreeInv, NamesClaimed, Renames, TypeOK, RequestsOK, Calls
        <5>. QED
          BY <2>1, <5>1 DEF TreeInv, ClaimedIsFree, Taken, Siblings
      <4>3. CASE n = name[c.x]
        BY <4>1, <4>3 DEF TreeInv, UniqueNames, Taken
      <4>. QED
        BY <2>3, <4>2, <4>3 DEF Renames
    <3>2. n \in Names \cup {None} /\ name' = [name EXCEPT ![c.x] = n]
      BY <1>2, <2>1, <2>3, Logging DEF TypeOK, TablesOK, RequestsOK, Calls
    <3>3. /\ c.x \in Live /\ version[c.x] = c.v /\ state' = state
          /\ version' = [version EXCEPT ![c.x] = @ + 1]
          /\ \A f \in log : f.req # r
          /\ log' = log \cup {[req |-> r, op |-> "Update", x |-> c.x, v |-> c.v]}
      BY <1>2, <2>3, Logging
    <3>4. Contract!Swap(c.x, n)
      BY <3>1, <3>2, <3>3, FreeName DEF Contract!Swap, Contract!Log, Live
    <3>. QED
      BY <2>1, <3>2, <3>4 DEF Contract!ContractNext
  <2>4. CASE c.op = "Delete"
    <3>1. /\ c.x \in Live /\ version[c.x] = c.v /\ CommitDelete(r)
          /\ version' = version /\ name' = name /\ \A f \in log : f.req # r
          /\ IF c.x = Project THEN log' = {}
             ELSE log' = log \cup {[req |-> r, op |-> "Delete", x |-> c.x, v |-> c.v]}
      BY <1>2, <2>4, Logging
    <3>2. state' = [y \in Rows |-> IF y \in Contract!Subtree(c.x) THEN "deleted" ELSE state[y]]
      BY <1>2, <3>1, WholeSubtree DEF CommitDelete
    <3>3. Contract!Remove(c.x)
      BY <3>1, <3>2 DEF Contract!Remove, Contract!Log, Live
    <3>. QED
      BY <2>1, <3>3 DEF Contract!ContractNext
  <2>. QED
    BY <1>2, <2>2, <2>3, <2>4, Logging
<1>3. ASSUME NEW u \in Users, Join(u) \/ Depart(u) PROVE UNCHANGED <<state, version, name, log>>
  BY <1>3 DEF Join, Depart
<1>. QED
  BY <1>1, <1>2, <1>3, Quiet DEF Next, vars, tables

(* Every committed transaction is one atomic step of the contract, and no    *)
(* other step changes a row or the log.                                      *)
THEOREM RowsImplementContract == Spec => ImplementsContract
<1>1. Init => Contract!ContractInit
  <2>. SUFFICES ASSUME Init PROVE Contract!ContractInit
    OBVIOUS
  <2>1. \A x \in Children : state[x] = "live" => state[Parent(x)] = "live" /\ ~Taken(x, name[x])
    BY Tree DEF Init, InitRows, Taken, Siblings, Live, Rows
  <2>. QED
    BY <2>1, FreeName, Vocabulary DEF Init, InitRows, Contract!ContractInit, Live
<1>. QED
  BY <1>1, RefinementStep, TreeInvariant, HistoryInvariant, PTL
  DEF Spec, ImplementsContract, Contract!ContractSpec

=============================================================================
