--------------------------- MODULE TelemetryQueries ---------------------------
(***************************************************************************)
(* The queries of the telemetry API (internal/httpapi/query.go, the lists   *)
(* and GetSummary of internal/clickhouse/client.go) while collectors post   *)
(* and parts are written, merged and dropped.  A reader follows one list to *)
(* its end, or asks for the summary; each of its requests has a window of   *)
(* time, by default the hour before the request.                           *)
(***************************************************************************)
EXTENDS Telemetry, KeysetPages

CONSTANTS
    Limits,         \* values of the parameter limit
    Queries,        \* values of the parameters from and to
    Absent,         \* a parameter that is not given
    Hour,           \* length of the default window
    MaxRange,       \* maximumQueryRange
    ErrorEvents     \* logs of severity error or fatal, spans of status error

ASSUME QueriesAssumption ==
    /\ IsFiniteSet(Events) /\ Absent \notin Nat
    /\ Limits \subseteq Nat \ {0}
    /\ Queries \subseteq [from : Nat \cup {Absent}, to : Nat \cup {Absent}]
    /\ Hour \in Nat /\ MaxRange \in Nat

(* The columns of the summary.                                               *)
Columns == { "metric_points", "log_entries", "spans", "error_logs",
             "error_spans", "average_span_duration_ms" }

VARIABLES
    reader,     \* the kind that it lists, or "summary"
    query,      \* its from and to
    qpc,        \* "ask", "asked", "done" or "refused"
    window,     \* the window of the last request
    cursor,     \* that of the last answer
    page,       \* its items
    listed,     \* the items of all answers
    counted,    \* by column, the rows that its subquery has aggregated
    promised,   \* history: the rows visible since the first page
    acked       \* history: the rows accepted before the summary was asked for

request  == <<reader, query>>
readVars == <<request, qpc, window, cursor, page, listed, counted>>
vars     == <<ingestVars, readVars, promised, acked>>

-----------------------------------------------------------------------------

(* The WHERE of every query, from inclusive and to exclusive; project_id and *)
(* service_id are those of the modelled service.                             *)
InWindow(r) == window.from <= r.at /\ r.at < window.to

Matching(k) == { r \in store : kind[r.from] = k /\ InWindow(r) }

(* What the reader's list has; nothing for a summary.                         *)
Visible == Matching(reader)

AcceptedRows == { r \in store : answer[r.from][r.try] = "accepted" }

KindOf(column) ==
    CASE column = "metric_points" -> "metrics"
      [] column \in {"log_entries", "error_logs"} -> "logs"
      [] OTHER -> "spans"

OnlyErrors(column) == column \in {"error_logs", "error_spans"}

(* The rows that a subquery of the summary aggregates.                       *)
\* A bug: the subquery leaves out the first instant of the window.
AggregatedAfterFrom(column) ==
    { r \in Matching(KindOf(column)) :
        r.at > window.from /\ (OnlyErrors(column) => r.event \in ErrorEvents) }

Aggregated(column) ==
    { r \in Matching(KindOf(column)) : OnlyErrors(column) => r.event \in ErrorEvents }

-----------------------------------------------------------------------------
(* parseWindow *)

To == IF query.to = Absent THEN now ELSE query.to

(* Times before the first one are left out.                                  *)
From ==
    IF query.from # Absent THEN query.from ELSE IF To < Hour THEN 0 ELSE To - Hour

IsValidWindow ==
    query.from = Absent \/ (query.from < To /\ To - query.from <= MaxRange)

QueriesInit ==
    /\ Init
    /\ reader \in Kinds \cup {"summary"} /\ query \in Queries
    /\ qpc = "ask"
    /\ window = [from |-> 0, to |-> 0]
    /\ cursor = {} /\ page = {} /\ listed = {}
    /\ counted = [column \in {} |-> {}]
    /\ promised = {} /\ acked = {}

(* The handler computes the window, for every page again.                    *)
Ask ==
    /\ qpc = "ask"
    /\ IF IsValidWindow
       THEN /\ qpc' = "asked"
            /\ window' = [from |-> From, to |-> To]
       ELSE qpc' = "refused" /\ window' = window
    /\ UNCHANGED <<ingestVars, request, cursor, page, listed, counted>>
    /\ promised' = promised \cap Visible'
    /\ acked' = IF reader = "summary" THEN AcceptedRows ELSE acked

-----------------------------------------------------------------------------
(* Lists *)

\* A bug: the cursor is compared by time only.
MatchesByTime == { r \in Visible : \A c \in cursor : r.at < c.at }

\* A bug: the comparison lets the row of the cursor through.
MatchesInclusive == { r \in Visible : \A c \in cursor : r = c \/ Follows(FALSE, r, c) }

\* A bug: the cursor is compared by id only.
MatchesById == { r \in Visible : \A c \in cursor : r.id < c.id }

Matches == AfterCursor(FALSE, Visible, cursor)

SelectPage(k) ==
    /\ reader = k /\ qpc = "asked"
    /\ \E limit \in Limits : \E p \in PagesOf(FALSE, Matches, limit) :
         /\ page' = p.items
         /\ listed' = listed \cup p.items
         /\ cursor' = p.next
         /\ qpc' = IF p.next = {} THEN "done" ELSE "ask"
    /\ promised' = IF cursor = {} THEN Visible ELSE promised
    /\ UNCHANGED <<ingestVars, request, window, counted, acked>>

ListMetrics == SelectPage("metrics")

ListLogs == SelectPage("logs")

ListSpans == SelectPage("spans")

-----------------------------------------------------------------------------
(* The summary: its subqueries read one after the other, each what is in the *)
(* tables by then.                                                           *)

Aggregate(column) ==
    /\ reader = "summary" /\ qpc = "asked"
    /\ column \notin DOMAIN counted
    /\ counted' = [k \in DOMAIN counted \cup {column} |->
                     IF k = column THEN Aggregated(column) ELSE counted[k]]
    /\ UNCHANGED <<ingestVars, request, qpc, window, cursor, page, listed, promised, acked>>

GetSummary ==
    /\ reader = "summary" /\ qpc = "asked" /\ DOMAIN counted = Columns
    /\ qpc' = "done"
    /\ UNCHANGED <<ingestVars, request, window, cursor, page, listed, counted, promised, acked>>

-----------------------------------------------------------------------------

(* 502, or no answer: the reader asks again, for the same page.              *)
QueryFails ==
    /\ qpc = "asked"
    /\ qpc' = "ask"
    /\ counted' = [column \in {} |-> {}]
    /\ UNCHANGED <<ingestVars, request, window, cursor, page, listed, promised, acked>>

StartOver ==
    /\ qpc \in {"done", "refused"}
    /\ qpc' = "ask" /\ cursor' = {} /\ page' = {} /\ listed' = {}
    /\ counted' = [column \in {} |-> {}]
    /\ promised' = {} /\ acked' = {}
    /\ UNCHANGED <<ingestVars, request, window>>

Read ==
    \/ Ask
    \/ ListMetrics \/ ListLogs \/ ListSpans
    \/ \E column \in Columns : Aggregate(column)
    \/ GetSummary
    \/ QueryFails \/ StartOver

Write ==
    /\ UNCHANGED <<readVars, acked>>
    /\ IngestNext
    /\ promised' = promised \cap Visible'

QueriesNext == Write \/ Read

QueriesSpec == QueriesInit /\ [][QueriesNext]_vars

=============================================================================
