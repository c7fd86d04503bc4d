------------------------------ MODULE MCTelemetry ------------------------------
(* A small instance of Telemetry: the logs of one batch fall into two months *)
(* and may be ahead of the clock, a metric may be posted with an invalid one. *)
EXTENDS TelemetryProperties, TLC

CONSTANTS c1, c2, e1, e2, e3

MCBatchOf == (c1 :> {e1, e2}) @@ (c2 :> {e3})
MCKindings == { (c1 :> k) @@ (c2 :> "metrics") : k \in {"logs", "spans"} }

MCStamps == { s \in [Events -> 0..2] : s[e1] <= s[e2] /\ s[e3] \in {0, 1} }

Place(e) == CASE e = e1 -> 0 [] e = e2 -> 1 [] OTHER -> 2

MCDraws == { [e \in Events |-> [n \in Tries |-> 3 * n + Place(e)]] }

=============================================================================
