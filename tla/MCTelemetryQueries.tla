-------------------------- MODULE MCTelemetryQueries --------------------------
(* A small instance of TelemetryQueries: one batch of two events, in two     *)
(* months, that may be posted twice, the second time with other ids: its two *)
(* copies of an event have the same time.                                    *)
EXTENDS TelemetryQueriesProperties, TLC

CONSTANTS c1, e1, e2

MCBatchOf == c1 :> {e1, e2}
MCKindings == { c1 :> k : k \in Kinds }

MCStamps == { (e1 :> 0) @@ (e2 :> 1) }

MCDraws ==
    { [e \in Events |-> [n \in Tries |-> IF n = 1 THEN (IF e = e1 THEN 3 ELSE 2)
                                                   ELSE (IF e = e1 THEN 0 ELSE 1)]] }

(* The last hour, explicit windows, one that is too long, and one that is    *)
(* refused until its end, which is the time of the request, has come, and    *)
(* that grows to two instants.                                               *)
MCQueries ==
    { [from |-> Absent, to |-> Absent], [from |-> 1, to |-> 2],
      [from |-> 0, to |-> 3], [from |-> 0, to |-> Absent] }

=============================================================================
