---------------------- MODULE TelemetryQueriesProperties ----------------------
(* What the queries of the telemetry API promise to their readers.           *)
EXTENDS TelemetryQueries, TelemetryProperties

(* Every variable of the reader has the values that the code can give it.    *)
QueriesTypeOK ==
    /\ reader \in Kinds \cup {"summary"} /\ query \in Queries
    /\ qpc \in {"ask", "asked", "done", "refused"}
    /\ window \in [from : Nat, to : Nat]
    /\ cursor \in SUBSET Row /\ \A c, d \in cursor : c = d
    /\ page \in SUBSET Row /\ listed \in SUBSET Row
    /\ promised \in SUBSET Row /\ acked \in SUBSET Row
    /\ DOMAIN counted \subseteq Columns

(* The rows listed so far are those up to the cursor, and a row promised but *)
(* not listed yet is after it.                                               *)
ReadUpToCursor ==
    \A c \in cursor :
      /\ \A r \in listed : r = c \/ Follows(FALSE, c, r)
      /\ \A r \in promised : r \in listed \/ Follows(FALSE, r, c)

(* A reader that was answered without next_cursor has every row that was in  *)
(* the table and in the window of each of its requests.                      *)
EndIsComplete == reader # "summary" /\ qpc = "done" => promised \subseteq listed

(* Nothing is kept for a reader that has not been answered.                  *)
FreshStart ==
    /\ qpc \in {"ask", "asked"} /\ cursor = {} => page = {} /\ listed = {} /\ promised = {}
    /\ qpc = "done" => cursor = {}
    /\ reader = "summary" => cursor = {} /\ listed = {} /\ promised = {}

(* What was listed is what collectors posted.                                *)
ListedArePosted == listed \subseteq Posted /\ cursor \subseteq listed

(* What is promised is still there.                                          *)
PromisedIsVisible == promised \subseteq Visible

(* The subqueries of a summary run after it was asked for, and what was      *)
(* accepted before that stays in the tables until its TTL.                   *)
CountedWhenAsked ==
    qpc \in {"ask", "refused"} \/ reader # "summary" => DOMAIN counted = {}

AckedIsStored == \A r \in acked : r \in store \/ Expired(r.at)

QueriesInv ==
    /\ IngestInv
    /\ QueriesTypeOK
    /\ ReadUpToCursor
    /\ EndIsComplete
    /\ FreshStart
    /\ ListedArePosted
    /\ PromisedIsVisible
    /\ CountedWhenAsked
    /\ AckedIsStored

(* A page comes after every row of the pages before it, although events      *)
(* arrive late, with old times, and the default window moves.                *)
PagesAreOrdered ==
    [][ \A new \in listed' \ listed, old \in listed :
          Follows(FALSE, new, old) ]_vars

(* A summary has, in each of its columns, every event that was accepted      *)
(* before it was asked for, is in its window and has not reached its TTL,    *)
(* whatever arrives between its subqueries.                                  *)
AcknowledgedIsCounted ==
    \A column \in DOMAIN counted : \A r \in acked :
      /\ kind[r.from] = KindOf(column)
      /\ InWindow(r)
      /\ OnlyErrors(column) => r.event \in ErrorEvents
      => r \in counted[column] \/ Expired(r.at)

(* The promise of a paged list, kept by each list of telemetry: what the     *)
(* reader sees is a list that changes between answers, also because each     *)
(* request has a window of its own.  A summary has no pages.                 *)
ContractState ==
    CASE reader = "summary" -> "new"
      [] qpc = "done" -> "ended"
      [] qpc = "refused" -> "refused"
      [] OTHER -> IF cursor = {} THEN "new" ELSE "open"

Contract == INSTANCE PagedListContract WITH
    Rows <- Row, visible <- Visible, page <- page, listed <- listed,
    promised <- promised, state <- ContractState

ImplementsContract == Contract!ContractSpec

=============================================================================
