-------------------------- MODULE ProjectListsProofs --------------------------
(***************************************************************************)
(* The lists of the tenancy API keep the promise of PagedListContract, for  *)
(* every set of ids, clock and limits: the inductive invariant ListsInv,    *)
(* the order of the pages and the refinement.                              *)
(***************************************************************************)
EXTENDS ProjectListsProperties, KeysetPagesProofs

-----------------------------------------------------------------------------
(* The invariant *)

LEMMA RowsAreKeyed == IsKeyed(Row)
  <1>1. Ids \subseteq Nat /\ 0..MaxTime \subseteq Nat
    BY ListsAssumption
  <1>2. \A r \in Row : r.id \in Ids /\ r.at \in 0..MaxTime
    BY DEF Row
  <1>3. \A r, q \in Row : r.id = q.id /\ r.at = q.at => r = q
    BY DEF Row
  <1>4. QED
    BY <1>1, <1>2, <1>3 DEF IsKeyed

LEMMA VisibleRows ==
    ASSUME TypeOK
    PROVE  Visible \subseteq rows /\ Visible \subseteq Row
  BY DEF TypeOK, Visible

(* What a page adds to the invariant's parts.                                *)
LEMMA SelectFacts ==
    ASSUME ListsInv, SelectPage, pc \in {"ask", "checked"}
    PROVE  /\ page' \subseteq Visible \ listed
           /\ listed' = listed \cup page'
           /\ page' \in SUBSET Row /\ listed' \in SUBSET Row
           /\ cursor' \subseteq page' /\ \A c, d \in cursor' : c = d
           /\ pc' = IF cursor' = {} THEN "done" ELSE "ask"
           /\ promised' = IF cursor = {} THEN Visible ELSE promised
           /\ promised' \subseteq Visible
           /\ cursor' = {} => promised' \subseteq listed'
           /\ \A c \in cursor' :
                /\ \A r \in listed' : r = c \/ Follows(Ascending, c, r)
                /\ \A r \in promised' : r \in listed' \/ Follows(Ascending, r, c)
           /\ \A new \in page', old \in listed : Follows(Ascending, new, old)
  <1> USE DEF ListsInv
  <1>1. PICK limit \in Limits :
          \E p \in Answers(limit) :
            /\ page' = p.items /\ listed' = listed \cup p.items /\ cursor' = p.next
            /\ pc' = IF p.next = {} THEN "done" ELSE "ask"
    BY DEF SelectPage
  <1>2. PICK p \in Answers(limit) :
            /\ page' = p.items /\ listed' = listed \cup p.items /\ cursor' = p.next
            /\ pc' = IF p.next = {} THEN "done" ELSE "ask"
    BY <1>1
  <1>3. promised' = Promise(Visible, promised, cursor)
    BY DEF SelectPage, Promise
  <1>5. Visible \subseteq Row
    BY VisibleRows
  <1>7. IsReader(Ascending, Row, Visible, listed, promised, cursor)
    BY <1>5, RowsAreKeyed
       DEF TypeOK, PromisedIsVisible, FreshStart, ReadUpToCursor, ReadUpTo, IsReader, Ascending
  <1>8. p \in PagesOf(Ascending, AfterCursor(Ascending, Visible, cursor), limit)
    BY <1>2 DEF Answers, Matches
  <1> HIDE DEF Ascending
  <1>9. IsNextPage(Ascending, Visible, listed, promised, cursor, p)
    BY <1>7, <1>8, NextPage
  <1>10. page' \in SUBSET Row /\ listed' \in SUBSET Row
    BY <1>2, <1>5, <1>9 DEF TypeOK, IsNextPage
  <1>11. QED
    BY <1>2, <1>3, <1>9, <1>10 DEF IsNextPage, ReadUpTo, ComeAfter, Promise

-----------------------------------------------------------------------------
(* Each way to change the tables keeps their types, and leaves what is       *)
(* promised visible.                                                         *)
LEMMA WriteFacts ==
    ASSUME ListsInv, Write
    PROVE  ListsInv'
  <1> USE DEF ListsInv
  <1>1. UNCHANGED <<list, client>> /\ promised' = promised \cap Visible'
    BY DEF Write
  <1>2. /\ now' \in 0..MaxTime /\ rows' \in SUBSET Row /\ open' \in SUBSET Row
        /\ hidden' \in SUBSET rows' /\ drawn' \in SUBSET Ids /\ access' \in BOOLEAN
    <2>1. CASE \E id \in Ids : Insert(id)
      BY <2>1 DEF Insert, TypeOK, Row
    <2>2. CASE \E r \in open : Commit(r) \/ Rollback(r)
      BY <2>2 DEF Commit, Rollback, TypeOK
    <2>3. CASE \E r \in rows : Delete(r) \/ Hide(r) \/ Show(r)
      BY <2>3 DEF Delete, Hide, Show, TypeOK
    <2>4. CASE LoseAccess \/ RegainAccess
      BY <2>4 DEF LoseAccess, RegainAccess, TypeOK
    <2>5. CASE Tick
      BY <2>5, ListsAssumption DEF Tick, TypeOK
    <2>6. QED
      BY <2>1, <2>2, <2>3, <2>4, <2>5 DEF Write
  <1>3. /\ list' = list /\ pc' = pc /\ cursor' = cursor /\ page' = page
        /\ listed' = listed /\ promised' \subseteq promised
    BY <1>1 DEF client
  <1>4. TypeOK'
    BY <1>2, <1>3 DEF TypeOK
  <1>5. ReadUpToCursor' /\ EndIsComplete' /\ FreshStart'
    BY <1>3 DEF ReadUpToCursor, EndIsComplete, FreshStart, Ascending
  <1>6. PromisedIsVisible'
    BY <1>1 DEF PromisedIsVisible
  <1>7. QED
    BY <1>4, <1>5, <1>6

LEMMA Requests ==
    ASSUME TypeOK, Read
    PROVE  \/ CheckAccess
           \/ SelectPage /\ pc \in {"ask", "checked"} /\ (list # "projects" /\ pc = "ask" => access)
           \/ Abort
           \/ StartOver
  BY DEF Read, EnsureOwner, EnsureMember, EnsureService, ListProjects, ListMembers,
         RefuseMembers, ListInvitations, ListServices, ListResources, ListAuditEvents

LEMMA ReadFacts ==
    ASSUME ListsInv, Read
    PROVE  ListsInv'
  <1> USE DEF ListsInv
  <1>1. UNCHANGED <<list, tables>>
    BY Requests DEF CheckAccess, SelectPage, Abort, StartOver
  <1>2. UNCHANGED <<list, now, rows, open, hidden, drawn, access>> /\ Visible' = Visible
    BY <1>1 DEF tables, Visible
  <1>3. CASE CheckAccess
    BY <1>2, <1>3 DEF CheckAccess, TypeOK, ReadUpToCursor, EndIsComplete, FreshStart,
                      PromisedIsVisible, Ascending
  <1>4. CASE SelectPage /\ pc \in {"ask", "checked"}
    <2>1. /\ page' \in SUBSET Row /\ listed' \in SUBSET Row
          /\ cursor' \subseteq page' /\ \A c, d \in cursor' : c = d
          /\ pc' = IF cursor' = {} THEN "done" ELSE "ask"
          /\ promised' \subseteq Visible
          /\ cursor' = {} => promised' \subseteq listed'
          /\ \A c \in cursor' :
               /\ \A r \in listed' : r = c \/ Follows(Ascending, c, r)
               /\ \A r \in promised' : r \in listed' \/ Follows(Ascending, r, c)
      BY <1>4, SelectFacts
    <2>2. TypeOK'
      <3>1. promised' \in SUBSET Row
        BY <2>1, VisibleRows
      <3>2. QED
        BY <1>2, <2>1, <3>1 DEF TypeOK
    <2>3. Ascending' = Ascending
      BY <1>2 DEF Ascending
    <2>4. ReadUpToCursor'
      BY <2>1, <2>3 DEF ReadUpToCursor
    <2>5. EndIsComplete' /\ FreshStart'
      BY <2>1 DEF EndIsComplete, FreshStart
    <2>6. PromisedIsVisible'
      BY <1>2, <2>1 DEF PromisedIsVisible
    <2>7. QED
      BY <2>2, <2>4, <2>5, <2>6
  <1>5. CASE Abort
    BY <1>2, <1>5 DEF Abort, TypeOK, ReadUpToCursor, EndIsComplete, FreshStart,
                      PromisedIsVisible, Ascending
  <1>6. CASE StartOver
    BY <1>2, <1>6 DEF StartOver, TypeOK, ReadUpToCursor, EndIsComplete, FreshStart,
                      PromisedIsVisible
  <1>7. QED
    BY <1>3, <1>4, <1>5, <1>6, Requests

LEMMA InitInv == Init => ListsInv
  BY ListsAssumption DEF Init, ListsInv, TypeOK, ReadUpToCursor, EndIsComplete, FreshStart,
                         PromisedIsVisible, AllLists

(* A client between two pages has lost nothing, and one at the end has every *)
(* row that was there throughout: the inductive invariant of the lists.      *)
THEOREM ListsInvariant == Spec => []ListsInv
  <1>1. ListsInv /\ [Next]_vars => ListsInv'
    <2>1. SUFFICES ASSUME ListsInv, [Next]_vars PROVE ListsInv'
      OBVIOUS
    <2>2. CASE Write
      BY <2>1, <2>2, WriteFacts
    <2>3. CASE Read
      BY <2>1, <2>3, ReadFacts
    <2>4. CASE UNCHANGED vars
      BY <2>1, <2>4 DEF vars, tables, client, ListsInv, TypeOK, ReadUpToCursor, EndIsComplete,
                        FreshStart, PromisedIsVisible, Ascending, Visible
    <2>5. QED
      BY <2>1, <2>2, <2>3, <2>4 DEF Next
  <1>2. QED
    BY InitInv, <1>1, PTL DEF Spec

(* Each page comes after everything listed before it.                        *)
THEOREM PagesComeInOrder == Spec => PagesAreOrdered
  <1>1. ListsInv /\ [Next]_vars =>
          [ \A new \in listed' \ listed, old \in listed : Follows(Ascending, new, old) ]_vars
    <2>1. SUFFICES ASSUME ListsInv, Next, NEW new \in listed' \ listed, NEW old \in listed
                   PROVE  Follows(Ascending, new, old)
      BY DEF vars
    <2>2. CASE Write
      BY <2>1, <2>2 DEF Write, client
    <2>3. CASE CheckAccess \/ Abort \/ StartOver
      BY <2>1, <2>3 DEF CheckAccess, Abort, StartOver
    <2>4. CASE SelectPage /\ pc \in {"ask", "checked"}
      BY <2>1, <2>4, SelectFacts
    <2>5. QED
      BY <2>1, <2>2, <2>3, <2>4, Requests DEF Next, ListsInv
  <1>2. QED
    BY ListsInvariant, <1>1, PTL DEF Spec, PagesAreOrdered

(* No row is shown without access, whatever the access check saw.            *)
THEOREM AccessIsChecked == Spec => NoRowWithoutAccess
  <1>1. ListsInv /\ [Next]_vars =>
          [ listed' \ listed # {} => list = "projects" \/ access ]_vars
    <2>1. SUFFICES ASSUME ListsInv, Next, NEW new \in listed' \ listed
                   PROVE  list = "projects" \/ access
      BY DEF vars
    <2>2. CASE Write
      BY <2>1, <2>2 DEF Write, client
    <2>3. CASE CheckAccess \/ Abort \/ StartOver
      BY <2>1, <2>3 DEF CheckAccess, Abort, StartOver
    <2>4. CASE SelectPage /\ pc \in {"ask", "checked"}
      BY <2>1, <2>4, SelectFacts DEF Visible
    <2>5. QED
      BY <2>1, <2>2, <2>3, <2>4, Requests DEF Next, ListsInv
  <1>2. QED
    BY ListsInvariant, <1>1, PTL DEF Spec, NoRowWithoutAccess

-----------------------------------------------------------------------------
(* The refinement *)

LEMMA StepImplementsContract ==
    ASSUME ListsInv, [Next]_vars
    PROVE  [Contract!ContractNext]_(Contract!contractVars)
  <1> USE DEF ListsInv, Contract!ContractNext, Contract!contractVars
  <1>1. CASE Write
    <2>1. /\ promised' = promised \cap Visible' /\ UNCHANGED <<page, listed>>
          /\ pc' = pc /\ cursor' = cursor
      BY <1>1 DEF Write, client
    <2>2. ContractState' = ContractState
      BY <2>1 DEF ContractState
    <2>3. Visible' \in SUBSET Row
      BY <1>1, WriteFacts DEF TypeOK, Visible
    <2>4. Contract!Change
      BY <2>1, <2>2, <2>3 DEF Contract!Change
    <2>5. QED
      BY <2>4
  <1>2. ASSUME Read PROVE Visible' = Visible
    BY <1>2, Requests DEF CheckAccess, SelectPage, Abort, StartOver, tables, Visible
  <1>3. CASE Read /\ CheckAccess
    <2>1. /\ UNCHANGED <<page, listed, promised>> /\ Visible' = Visible
          /\ pc = "ask" /\ pc' \in {"checked", "refused"} /\ cursor' = cursor
      BY <1>2, <1>3 DEF CheckAccess
    <2>2. CASE pc' = "checked"
      <3>1. ContractState' = ContractState
        BY <2>1, <2>2 DEF ContractState
      <3>2. QED
        BY <2>1, <3>1
    <2>3. CASE pc' = "refused"
      <3>1. ContractState' = "refused" /\ ContractState \in {"new", "open"}
        BY <2>1, <2>3 DEF ContractState
      <3>2. QED
        BY <2>1, <3>1 DEF Contract!Refuse
    <2>4. QED
      BY <2>1, <2>2, <2>3
  <1>4. CASE Read /\ SelectPage /\ pc \in {"ask", "checked"}
    <2>1. /\ page' \subseteq Visible \ listed /\ listed' = listed \cup page'
          /\ cursor' \subseteq page'
          /\ pc' = IF cursor' = {} THEN "done" ELSE "ask"
          /\ promised' = IF cursor = {} THEN Visible ELSE promised
          /\ cursor' = {} => promised' \subseteq listed'
      BY <1>4, SelectFacts
    <2>2. /\ ContractState \in {"new", "open"}
          /\ ContractState = "new" <=> cursor = {}
      BY <1>4 DEF ContractState
    <2>3. ContractState' = IF cursor' = {} THEN "ended" ELSE "open"
      BY <2>1 DEF ContractState
    <2>4. Contract!Deliver
      BY <1>2, <1>4, <2>1, <2>2, <2>3 DEF Contract!Deliver
    <2>5. QED
      BY <2>4
  <1>5. CASE Read /\ Abort
    <2>1. ContractState' = ContractState
      BY <1>5 DEF Abort, ContractState
    <2>2. QED
      BY <1>2, <1>5, <2>1 DEF Abort
  <1>6. CASE Read /\ StartOver
    <2>1. ContractState' = "new"
      BY <1>6 DEF StartOver, ContractState
    <2>2. QED
      BY <1>2, <1>6, <2>1 DEF StartOver, Contract!StartOver
  <1>7. CASE UNCHANGED vars
    BY <1>7 DEF vars, tables, client, Visible, ContractState
  <1>8. QED
    BY <1>1, <1>3, <1>4, <1>5, <1>6, <1>7, Requests DEF Next

(* Every list of the tenancy API is a paged list that changes between its    *)
(* answers: no row twice, and at the end every row that was there throughout.*)
THEOREM ListsImplementContract == Spec => ImplementsContract
  <1>1. Init => Contract!ContractInit
    BY VisibleRows, InitInv DEF Init, Contract!ContractInit, ContractState, ListsInv
  <1>2. QED
    BY ListsInvariant, <1>1, StepImplementsContract, PTL
       DEF Spec, ImplementsContract, Contract!ContractSpec

=============================================================================
