----------------------------- MODULE KeysetPages -----------------------------
(***************************************************************************)
(* Pages of a list that is ordered by a time and an id.  A request asks for *)
(* the rows that follow its cursor, one more than its limit; when it gets   *)
(* that one it drops it and answers a cursor, the key of the last row that  *)
(* it keeps.  The lists of the tenancy API and of the telemetry API are     *)
(* all of this form.                                                       *)
(***************************************************************************)
EXTENDS Naturals, FiniteSets

(* The comparison of rows (time, id) in SQL.                                 *)
Less(a, b) == a.at < b.at \/ (a.at = b.at /\ a.id < b.id)

(* a comes after b in the list.                                              *)
Follows(ascending, a, b) == IF ascending THEN Less(b, a) ELSE Less(a, b)

(* The rows that a page is cut from.  A cursor is a set: empty, or one row.  *)
AfterCursor(ascending, rows, cursor) ==
    { r \in rows : \A c \in cursor : Follows(ascending, r, c) }

Before(ascending, rows, r) == { q \in rows : Follows(ascending, r, q) }

(* ORDER BY ... LIMIT limit + 1, and what is made of it: everything when     *)
(* there are at most limit rows, else the first limit and the key of the     *)
(* last of these.                                                            *)
PagesOf(ascending, rows, limit) ==
    IF Cardinality(rows) <= limit
    THEN { [items |-> rows, next |-> {}] }
    ELSE { [items |-> Before(ascending, rows, last) \cup {last}, next |-> {last}] :
             last \in { r \in rows :
                          Cardinality(Before(ascending, rows, r)) + 1 = limit } }

=============================================================================
