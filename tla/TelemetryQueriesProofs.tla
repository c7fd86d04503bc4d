------------------------ MODULE TelemetryQueriesProofs ------------------------
(***************************************************************************)
(* The lists of the telemetry API keep the promise of PagedListContract,    *)
(* and its summaries count what was accepted before them, for any sets of   *)
(* collectors, batches and queries: the inductive invariant QueriesInv, the *)
(* order of the pages, the columns of a summary and the refinement.         *)
(***************************************************************************)
EXTENDS TelemetryQueriesProperties, TelemetryProofs, KeysetPagesProofs

(* What a list shows was posted, and its rows differ in their time and id.   *)
LEMMA VisibleRows ==
    ASSUME QueriesInv
    PROVE  /\ Visible \subseteq store /\ Visible \subseteq Row /\ Visible \subseteq Posted
           /\ Posted \subseteq Row /\ IsKeyed(Posted)
  <1> USE DEF QueriesInv, IngestInv
  <1>1. Posted \subseteq Row /\ \A r, s \in Posted : r.id = s.id => r = s
    BY PostedFacts
  <1>2. \A r \in Row : r.id \in Nat /\ r.at \in Nat
    BY DEF Row
  <1>3. IsKeyed(Posted)
    BY <1>1, <1>2 DEF IsKeyed
  <1>4. Visible \subseteq store
    BY DEF Visible, Matching
  <1>5. store \subseteq Posted /\ store \subseteq Row
    BY DEF RowsArePosted, Posted, TypeOK, Row
  <1>6. QED
    BY <1>1, <1>3, <1>4, <1>5

LEMMA IngestUnchanged ==
    ASSUME UNCHANGED ingestVars
    PROVE  /\ IngestInv => IngestInv'
           /\ Posted' = Posted /\ store' = store /\ now' = now /\ kind' = kind
           /\ \A t : Expired(t)' = Expired(t)
  BY IngestInvStep DEF ingestVars, given, Posted, RowsOf, Expired

-----------------------------------------------------------------------------
(* The invariant *)

LEMMA InitQueriesInv == QueriesInit => QueriesInv
  <1>1. SUFFICES ASSUME QueriesInit PROVE QueriesInv
    OBVIOUS
  <1>2. IngestInv
    BY <1>1, InitIngestInv DEF QueriesInit
  <1>3. QueriesTypeOK
    <2>1. DOMAIN [column \in {} |-> {}] = {}
      OBVIOUS
    <2>2. QED
      BY <1>1, <2>1 DEF QueriesInit, QueriesTypeOK
  <1>4. QED
    BY <1>1, <1>2, <1>3
       DEF QueriesInit, QueriesInv, ReadUpToCursor, EndIsComplete, FreshStart, ListedArePosted,
           PromisedIsVisible, CountedWhenAsked, AckedIsStored

(* Collectors, ClickHouse and time.                                          *)
LEMMA WriteStep ==
    ASSUME QueriesInv, Write
    PROVE  QueriesInv' /\ Visible' \subseteq Row
  <1> USE DEF QueriesInv
  <1>1. /\ UNCHANGED <<readVars, acked>> /\ promised' = promised \cap Visible'
        /\ IngestInv' /\ UNCHANGED given
        /\ \A r \in store : r \in store' \/ Expired(r.at)
        /\ \A t \in Nat : Expired(t) => Expired(t)'
    BY IngestInvStep, TablesOnlyExpire DEF Write
  <1>2. /\ reader' = reader /\ query' = query /\ qpc' = qpc /\ window' = window
        /\ cursor' = cursor /\ page' = page /\ listed' = listed /\ counted' = counted
        /\ acked' = acked /\ promised' \subseteq promised
    BY <1>1 DEF readVars, request
  <1>3. QueriesTypeOK'
    BY <1>2 DEF QueriesTypeOK
  <1>4. ReadUpToCursor' /\ EndIsComplete' /\ FreshStart' /\ CountedWhenAsked'
    BY <1>2 DEF ReadUpToCursor, EndIsComplete, FreshStart, CountedWhenAsked
  <1>5. Posted' = Posted
    BY <1>1 DEF given, Posted, RowsOf
  <1>6. ListedArePosted'
    BY <1>2, <1>5 DEF ListedArePosted
  <1>7. PromisedIsVisible'
    BY <1>1 DEF PromisedIsVisible
  <1>8. AckedIsStored'
    <2>1. SUFFICES ASSUME NEW r \in acked PROVE r \in store' \/ Expired(r.at)'
      BY <1>2 DEF AckedIsStored
    <2>2. r.at \in Nat
      BY <2>1 DEF QueriesTypeOK, Row
    <2>3. QED
      BY <2>1, <2>2, <1>1 DEF AckedIsStored
  <1>9. Visible' \subseteq Row
    BY <1>1 DEF IngestInv, TypeOK, Visible, Matching
  <1>10. QED
    BY <1>1, <1>3, <1>4, <1>6, <1>7, <1>8, <1>9

(* The window of a request.                                                  *)
LEMMA WindowIsNat ==
    ASSUME QueriesInv
    PROVE  From \in Nat /\ To \in Nat
  <1>1. now \in Nat /\ Hour \in Nat
    BY Times, QueriesAssumption DEF QueriesInv, IngestInv, TypeOK
  <1>2. query.from \in Nat \cup {Absent} /\ query.to \in Nat \cup {Absent}
    BY QueriesAssumption DEF QueriesInv, QueriesTypeOK
  <1>3. To \in Nat
    BY <1>1, <1>2 DEF To
  <1>4. QED
    BY <1>1, <1>2, <1>3 DEF From

LEMMA AskStep ==
    ASSUME QueriesInv, Ask
    PROVE  QueriesInv' /\ Visible' \subseteq Row
  <1> USE DEF QueriesInv
  <1>1. /\ UNCHANGED ingestVars /\ reader' = reader /\ query' = query
        /\ cursor' = cursor /\ page' = page /\ listed' = listed /\ counted' = counted
        /\ promised' = promised \cap Visible'
        /\ qpc = "ask" /\ qpc' \in {"asked", "refused"}
        /\ window' \in {window, [from |-> From, to |-> To]}
        /\ acked' \in {AcceptedRows, acked}
    BY DEF Ask, request
  <1>2. window' \in [from : Nat, to : Nat]
    BY <1>1, WindowIsNat DEF QueriesTypeOK
  <1>3. AcceptedRows \subseteq store /\ store \subseteq Row
    BY DEF AcceptedRows, IngestInv, TypeOK
  <1>4. QueriesTypeOK'
    BY <1>1, <1>2, <1>3 DEF QueriesTypeOK
  <1>5. IngestInv' /\ Posted' = Posted /\ store' = store
        /\ \A t : Expired(t)' = Expired(t)
    BY <1>1, IngestUnchanged
  <1>6. ReadUpToCursor' /\ EndIsComplete' /\ FreshStart'
    BY <1>1 DEF ReadUpToCursor, EndIsComplete, FreshStart
  <1>7. ListedArePosted' /\ PromisedIsVisible' /\ CountedWhenAsked'
    BY <1>1, <1>5 DEF ListedArePosted, PromisedIsVisible, CountedWhenAsked
  <1>8. AckedIsStored'
    BY <1>1, <1>3, <1>5 DEF AckedIsStored
  <1>9. Visible' \subseteq Row
    BY <1>5 DEF IngestInv, TypeOK, Visible, Matching
  <1>10. QED
    BY <1>4, <1>5, <1>6, <1>7, <1>8, <1>9

(* What a page adds.                                                         *)
LEMMA SelectFacts ==
    ASSUME QueriesInv, NEW k \in Kinds, SelectPage(k)
    PROVE  /\ page' \subseteq Visible \ listed
           /\ listed' = listed \cup page'
           /\ cursor' \subseteq page' /\ \A c, d \in cursor' : c = d
           /\ qpc' = IF cursor' = {} THEN "done" ELSE "ask"
           /\ promised' = IF cursor = {} THEN Visible ELSE promised
           /\ promised' \subseteq Visible
           /\ cursor' = {} => promised' \subseteq listed'
           /\ ReadUpTo(FALSE, listed', promised', cursor')
           /\ ComeAfter(FALSE, page', listed)
  <1> USE DEF QueriesInv
  <1>1. PICK limit \in Limits :
          \E p \in PagesOf(FALSE, Matches, limit) :
            /\ page' = p.items /\ listed' = listed \cup p.items /\ cursor' = p.next
            /\ qpc' = IF p.next = {} THEN "done" ELSE "ask"
    BY DEF SelectPage
  <1>2. PICK p \in PagesOf(FALSE, Matches, limit) :
            /\ page' = p.items /\ listed' = listed \cup p.items /\ cursor' = p.next
            /\ qpc' = IF p.next = {} THEN "done" ELSE "ask"
    BY <1>1
  <1>3. promised' = Promise(Visible, promised, cursor)
    BY DEF SelectPage, Promise
  <1>4. qpc = "asked"
    BY DEF SelectPage
  <1>5. IsReader(FALSE, Posted, Visible, listed, promised, cursor)
    BY <1>4, VisibleRows
       DEF ListedArePosted, PromisedIsVisible, FreshStart, ReadUpToCursor, ReadUpTo, IsReader
  <1>6. p \in PagesOf(FALSE, AfterCursor(FALSE, Visible, cursor), limit)
    BY <1>2 DEF Matches
  <1>7. IsNextPage(FALSE, Visible, listed, promised, cursor, p)
    BY <1>5, <1>6, NextPage
  <1>8. QED
    BY <1>2, <1>3, <1>7 DEF IsNextPage, Promise

LEMMA SelectStep ==
    ASSUME QueriesInv, NEW k \in Kinds, SelectPage(k)
    PROVE  QueriesInv' /\ Visible' = Visible
  <1> USE DEF QueriesInv
  <1>1. /\ UNCHANGED ingestVars /\ reader' = reader /\ query' = query /\ window' = window
        /\ counted' = counted /\ acked' = acked
        /\ reader = k /\ qpc = "asked"
    BY DEF SelectPage, request
  <1>2. /\ page' \subseteq Visible \ listed /\ listed' = listed \cup page'
        /\ cursor' \subseteq page' /\ \A c, d \in cursor' : c = d
        /\ qpc' = IF cursor' = {} THEN "done" ELSE "ask"
        /\ promised' \subseteq Visible
        /\ cursor' = {} => promised' \subseteq listed'
        /\ ReadUpTo(FALSE, listed', promised', cursor')
    BY SelectFacts
  <1>3. IngestInv' /\ Posted' = Posted /\ store' = store
        /\ (\A t : Expired(t)' = Expired(t))
    BY <1>1, IngestUnchanged
  <1>4. Visible' = Visible
    BY <1>1 DEF Visible, Matching, InWindow, ingestVars, given
  <1>5. Visible \subseteq Row /\ Visible \subseteq Posted
    BY VisibleRows
  <1>6. QueriesTypeOK'
    BY <1>1, <1>2, <1>5 DEF QueriesTypeOK
  <1>7. ReadUpToCursor' /\ EndIsComplete'
    BY <1>2 DEF ReadUpToCursor, ReadUpTo, EndIsComplete
  <1>8. reader # "summary"
    BY <1>1 DEF Kinds
  <1>9. FreshStart' /\ CountedWhenAsked'
    BY <1>1, <1>2, <1>8 DEF FreshStart, CountedWhenAsked
  <1>10. ListedArePosted' /\ PromisedIsVisible' /\ AckedIsStored'
    BY <1>1, <1>2, <1>3, <1>4, <1>5 DEF ListedArePosted, PromisedIsVisible, AckedIsStored
  <1>11. QED
    BY <1>3, <1>4, <1>6, <1>7, <1>9, <1>10

(* The summary, failures and new starts.                                     *)
LEMMA OtherReads ==
    ASSUME QueriesInv,
           (\E column \in Columns : Aggregate(column)) \/ GetSummary \/ QueryFails \/ StartOver
    PROVE  QueriesInv' /\ Visible' = Visible
  <1> USE DEF QueriesInv
  <1>1. /\ UNCHANGED ingestVars /\ reader' = reader /\ query' = query /\ window' = window
        /\ qpc' \in {"ask", "asked", "done"}
        /\ \/ /\ cursor' = cursor /\ page' = page /\ listed' = listed
              /\ promised' = promised /\ acked' = acked
           \/ /\ cursor' = {} /\ page' = {} /\ listed' = {}
              /\ promised' = {} /\ acked' = {}
    BY DEF Aggregate, GetSummary, QueryFails, StartOver, request
  <1>2. IngestInv' /\ Posted' = Posted /\ store' = store
        /\ (\A t : Expired(t)' = Expired(t))
    BY <1>1, IngestUnchanged
  <1>3. Visible' = Visible
    BY <1>1 DEF Visible, Matching, InWindow, ingestVars, given
  <1>4. DOMAIN counted' \subseteq Columns
        /\ (qpc' \in {"ask", "refused"} \/ reader # "summary" => DOMAIN counted' = {})
    BY DEF Aggregate, GetSummary, QueryFails, StartOver, QueriesTypeOK, CountedWhenAsked
  <1>5. QueriesTypeOK' /\ CountedWhenAsked'
    BY <1>1, <1>4 DEF QueriesTypeOK, CountedWhenAsked
  <1>6. ReadUpToCursor'
    BY <1>1 DEF ReadUpToCursor
  <1>7. EndIsComplete' /\ FreshStart'
    BY DEF Aggregate, GetSummary, QueryFails, StartOver, EndIsComplete, FreshStart, request
  <1>8. ListedArePosted' /\ PromisedIsVisible' /\ AckedIsStored'
    BY <1>1, <1>2, <1>3 DEF ListedArePosted, PromisedIsVisible, AckedIsStored
  <1>9. QED
    BY <1>2, <1>3, <1>5, <1>6, <1>7, <1>8

LEMMA Steps ==
    ASSUME QueriesNext
    PROVE  \/ Write
           \/ Ask
           \/ \E k \in Kinds : SelectPage(k)
           \/ (\E column \in Columns : Aggregate(column)) \/ GetSummary \/ QueryFails \/ StartOver
  BY DEF QueriesNext, Read, ListMetrics, ListLogs, ListSpans, Kinds

LEMMA QueriesInvStep == QueriesInv /\ [QueriesNext]_vars => QueriesInv'
  <1>1. SUFFICES ASSUME QueriesInv, [QueriesNext]_vars PROVE QueriesInv'
    OBVIOUS
  <1>2. CASE QueriesNext
    BY <1>1, <1>2, Steps, WriteStep, AskStep, SelectStep, OtherReads
  <1>3. CASE UNCHANGED vars
    <2>1. IngestInv' /\ Posted' = Posted /\ store' = store
          /\ (\A t : Expired(t)' = Expired(t))
      BY <1>1, <1>3, IngestUnchanged DEF vars, QueriesInv
    <2>2. Visible' = Visible
      BY <1>3 DEF vars, readVars, request, ingestVars, given, Visible, Matching, InWindow
    <2>3. QED
      BY <1>1, <1>3, <2>1, <2>2
         DEF vars, readVars, request, QueriesInv, QueriesTypeOK, ReadUpToCursor, EndIsComplete,
             FreshStart, ListedArePosted, PromisedIsVisible, CountedWhenAsked, AckedIsStored
  <1>4. QED
    BY <1>1, <1>2, <1>3

(* A reader between two pages has lost nothing, one at the end has every row *)
(* that was in each of its windows: the inductive invariant of the queries.  *)
THEOREM QueriesInvariant == QueriesSpec => []QueriesInv
  BY InitQueriesInv, QueriesInvStep, PTL DEF QueriesSpec

(* Each page comes after everything listed before it.                        *)
THEOREM PagesComeInOrder == QueriesSpec => PagesAreOrdered
  <1>1. QueriesInv /\ [QueriesNext]_vars =>
          [ \A new \in listed' \ listed, old \in listed : Follows(FALSE, new, old) ]_vars
    <2>1. SUFFICES ASSUME QueriesInv, QueriesNext, NEW new \in listed' \ listed, NEW old \in listed
                   PROVE  Follows(FALSE, new, old)
      BY DEF vars
    <2>2. PICK k \in Kinds : SelectPage(k)
      BY <2>1, Steps
         DEF Write, readVars, Ask, Aggregate, GetSummary, QueryFails, StartOver
    <2>3. QED
      BY <2>1, <2>2, SelectFacts DEF ComeAfter
  <1>2. QED
    BY QueriesInvariant, <1>1, PTL DEF QueriesSpec, PagesAreOrdered

-----------------------------------------------------------------------------
(* The summary *)

LEMMA AcknowledgedStep ==
    ASSUME QueriesInv, AcknowledgedIsCounted, QueriesNext
    PROVE  AcknowledgedIsCounted'
  <1> USE DEF QueriesInv
  <1>1. SUFFICES ASSUME NEW column \in DOMAIN counted', NEW r \in acked',
                        kind'[r.from] = KindOf(column), InWindow(r)',
                        OnlyErrors(column) => r.event \in ErrorEvents
                 PROVE  r \in counted'[column] \/ Expired(r.at)'
    BY DEF AcknowledgedIsCounted, KindOf, OnlyErrors
  <1>2. CASE Write
    <2>1. /\ UNCHANGED <<readVars, acked>> /\ UNCHANGED given
          /\ \A t \in Nat : Expired(t) => Expired(t)'
      BY <1>2, TablesOnlyExpire DEF Write
    <2>2. /\ counted' = counted /\ acked' = acked /\ kind' = kind /\ InWindow(r)' = InWindow(r)
      BY <2>1 DEF readVars, given, InWindow
    <2>3. r.at \in Nat
      BY <1>1, <2>2 DEF QueriesTypeOK, Row
    <2>4. r \in counted[column] \/ Expired(r.at)
      BY <1>1, <2>2 DEF AcknowledgedIsCounted
    <2>5. QED
      BY <2>1, <2>2, <2>3, <2>4
  <1>3. CASE Ask
    BY <1>1, <1>3 DEF Ask, CountedWhenAsked
  <1>4. CASE \E k \in Kinds : SelectPage(k)
    <2>1. /\ UNCHANGED ingestVars /\ window' = window /\ counted' = counted /\ acked' = acked
      BY <1>4 DEF SelectPage
    <2>2. kind' = kind /\ InWindow(r)' = InWindow(r) /\ Expired(r.at)' = Expired(r.at)
      BY <2>1, IngestUnchanged DEF InWindow
    <2>3. QED
      BY <1>1, <2>1, <2>2 DEF AcknowledgedIsCounted
  <1>5. CASE \E c \in Columns : Aggregate(c)
    <2>1. PICK c \in Columns : Aggregate(c)
      BY <1>5
    <2>2. /\ UNCHANGED ingestVars /\ window' = window /\ acked' = acked
          /\ DOMAIN counted' = DOMAIN counted \cup {c}
          /\ \A k \in DOMAIN counted' :
               counted'[k] = IF k = c THEN Aggregated(c) ELSE counted[k]
      BY <2>1 DEF Aggregate
    <2>3. kind' = kind /\ InWindow(r)' = InWindow(r) /\ Expired(r.at)' = Expired(r.at)
      BY <2>2, IngestUnchanged DEF InWindow
    <2>4. CASE column = c
      <3>1. r \in store \/ Expired(r.at)
        BY <1>1, <2>2 DEF AckedIsStored
      <3>2. r \in store => r \in Aggregated(column)
        BY <1>1, <2>3 DEF Aggregated, Matching
      <3>3. QED
        BY <1>1, <2>2, <2>3, <2>4, <3>1, <3>2
    <2>5. CASE column # c
      BY <1>1, <2>2, <2>3, <2>5 DEF AcknowledgedIsCounted
    <2>6. QED
      BY <2>4, <2>5
  <1>6. CASE GetSummary
    <2>1. /\ UNCHANGED ingestVars /\ window' = window /\ counted' = counted /\ acked' = acked
      BY <1>6 DEF GetSummary
    <2>2. kind' = kind /\ InWindow(r)' = InWindow(r) /\ Expired(r.at)' = Expired(r.at)
      BY <2>1, IngestUnchanged DEF InWindow
    <2>3. QED
      BY <1>1, <2>1, <2>2 DEF AcknowledgedIsCounted
  <1>7. CASE QueryFails \/ StartOver
    BY <1>1, <1>7 DEF QueryFails, StartOver
  <1>8. QED
    BY <1>2, <1>3, <1>4, <1>5, <1>6, <1>7, Steps

(* What was accepted before a summary was asked for is in its columns.       *)
THEOREM SummariesAreComplete == QueriesSpec => []AcknowledgedIsCounted
  <1>1. QueriesInit => AcknowledgedIsCounted
    BY DEF QueriesInit, AcknowledgedIsCounted
  <1>2. QueriesInv /\ AcknowledgedIsCounted /\ [QueriesNext]_vars => AcknowledgedIsCounted'
    <2>1. SUFFICES ASSUME QueriesInv, AcknowledgedIsCounted, UNCHANGED vars
                   PROVE  AcknowledgedIsCounted'
      BY AcknowledgedStep
    <2>2. QED
      BY <2>1 DEF vars, readVars, ingestVars, given, AcknowledgedIsCounted, InWindow, Expired
  <1>3. QED
    BY QueriesInvariant, <1>1, <1>2, PTL DEF QueriesSpec

-----------------------------------------------------------------------------
(* The refinement *)

LEMMA StepImplementsContract ==
    ASSUME QueriesInv, [QueriesNext]_vars
    PROVE  [Contract!ContractNext]_(Contract!contractVars)
  <1> USE DEF QueriesInv, Contract!ContractNext, Contract!contractVars
  <1>1. CASE Write
    <2>1. /\ promised' = promised \cap Visible' /\ page' = page /\ listed' = listed
          /\ ContractState' = ContractState
      BY <1>1 DEF Write, readVars, request, ContractState
    <2>2. Visible' \in SUBSET Row
      BY <1>1, WriteStep
    <2>3. QED
      BY <2>1, <2>2 DEF Contract!Change
  <1>2. CASE Ask
    <2>1. /\ promised' = promised \cap Visible' /\ page' = page /\ listed' = listed
          /\ cursor' = cursor /\ reader' = reader /\ qpc = "ask"
      BY <1>2 DEF Ask, request
    <2>2. Visible' \in SUBSET Row
      BY <1>2, AskStep
    <2>3. CASE qpc' = "asked" \/ reader = "summary"
      <3>1. ContractState' = ContractState
        BY <2>1, <2>3 DEF ContractState
      <3>2. QED
        BY <2>1, <2>2, <3>1 DEF Contract!Change
    <2>4. CASE qpc' = "refused" /\ reader # "summary"
      <3>1. ContractState' = "refused" /\ ContractState \in {"new", "open"}
        BY <2>1, <2>4 DEF ContractState
      <3>2. UNCHANGED ingestVars /\ window' = window
        BY <1>2, <2>4 DEF Ask
      <3>3. Visible' = Visible
        BY <2>1, <3>2 DEF Visible, Matching, InWindow, ingestVars, given
      <3>4. promised' = promised
        BY <2>1, <3>3 DEF PromisedIsVisible
      <3>5. QED
        BY <2>1, <3>1, <3>3, <3>4 DEF Contract!Refuse
    <2>5. QED
      BY <1>2, <2>3, <2>4 DEF Ask
  <1>3. CASE \E k \in Kinds : SelectPage(k)
    <2>1. PICK k \in Kinds : SelectPage(k)
      BY <1>3
    <2>2. reader = k /\ reader' = reader /\ reader # "summary" /\ qpc = "asked"
      BY <2>1 DEF SelectPage, request, Kinds
    <2>3. /\ page' \subseteq Visible \ listed /\ listed' = listed \cup page'
          /\ cursor' \subseteq page'
          /\ qpc' = IF cursor' = {} THEN "done" ELSE "ask"
          /\ promised' = IF cursor = {} THEN Visible ELSE promised
          /\ cursor' = {} => promised' \subseteq listed'
      BY <2>1, SelectFacts
    <2>4. /\ ContractState \in {"new", "open"}
          /\ ContractState = "new" <=> cursor = {}
      BY <2>2 DEF ContractState
    <2>5. ContractState' = IF cursor' = {} THEN "ended" ELSE "open"
      BY <2>2, <2>3 DEF ContractState
    <2>6. Visible' = Visible
      BY <2>1, SelectStep
    <2>7. QED
      BY <2>3, <2>4, <2>5, <2>6 DEF Contract!Deliver
  <1>4. CASE (\E column \in Columns : Aggregate(column)) \/ GetSummary \/ QueryFails
    <2>1. /\ page' = page /\ listed' = listed /\ promised' = promised
          /\ cursor' = cursor /\ reader' = reader
          /\ reader = "summary" \/ (qpc = "asked" /\ qpc' = "ask")
      BY <1>4 DEF Aggregate, GetSummary, QueryFails, request
    <2>2. ContractState' = ContractState
      <3>1. CASE reader = "summary"
        BY <2>1, <3>1 DEF ContractState
      <3>2. CASE reader # "summary"
        BY <2>1, <3>2 DEF ContractState
      <3>3. QED
        BY <3>1, <3>2
    <2>3. QED
      BY <1>4, <2>1, <2>2, OtherReads
  <1>5. CASE StartOver
    <2>1. /\ page' = {} /\ listed' = {} /\ promised' = {} /\ ContractState' = "new"
      BY <1>5 DEF StartOver, request, ContractState
    <2>2. QED
      BY <1>5, <2>1, OtherReads DEF Contract!StartOver
  <1>6. CASE UNCHANGED vars
    BY <1>6 DEF vars, readVars, request, ingestVars, given, Visible, Matching, InWindow,
                ContractState
  <1>7. QED
    BY <1>1, <1>2, <1>3, <1>4, <1>5, <1>6, Steps

(* Every list of telemetry is a paged list that changes between its answers: *)
(* no row twice, and at the end every row that was in each window.           *)
THEOREM QueriesImplementContract == QueriesSpec => ImplementsContract
  <1>1. QueriesInit => Contract!ContractInit
    <2>1. SUFFICES ASSUME QueriesInit PROVE Contract!ContractInit
      OBVIOUS
    <2>2. Visible \subseteq Row
      BY <2>1, VisibleRows, InitQueriesInv
    <2>3. ContractState = "new"
      BY <2>1 DEF QueriesInit, ContractState
    <2>4. QED
      BY <2>1, <2>2, <2>3 DEF QueriesInit, Contract!ContractInit
  <1>2. QED
    BY QueriesInvariant, <1>1, StepImplementsContract, PTL
       DEF QueriesSpec, ImplementsContract, Contract!ContractSpec

=============================================================================
