------------------------------ MODULE Telemetry ------------------------------
(***************************************************************************)
(* Ingest of the telemetry API (internal/httpapi/ingest.go and the inserts  *)
(* of internal/clickhouse/client.go).  A collector posts a batch; it is     *)
(* validated as a whole, its events get new ids, and one INSERT carries     *)
(* them to ClickHouse.  ClickHouse writes a part per month; it may give up  *)
(* between two, and it may go on after the API's client has timed out.  A   *)
(* collector that got an error or no answer posts its batch again.          *)
(***************************************************************************)
EXTENDS Naturals, FiniteSets

CONSTANTS
    Collectors,     \* each has one batch to deliver
    Events,
    BatchOf,        \* the events of a collector's batch
    Kindings,       \* the choices of the batches' kinds
    Malformed,      \* events that fail a check other than that of the time
    Stamps,         \* the choices of the events' times, at the collectors
    Draws,          \* the choices of newUUID, by event and attempt
    MaxTries,       \* bounds the attempts of a collector
    MaxTime,        \* bounds the clock
    Skew,           \* maximumClockSkew
    Retention,      \* the tables' TTL
    MonthLength     \* of PARTITION BY toYYYYMM

Kinds == {"metrics", "logs", "spans"}
Tries == 1..MaxTries
Answers == {"none", "invalid", "failed", "accepted"}

ASSUME TelemetryAssumption ==
    /\ BatchOf \in [Collectors -> SUBSET Events]
    /\ \A c, d \in Collectors : c # d => BatchOf[c] \cap BatchOf[d] = {}
    /\ Kindings \subseteq [Collectors -> Kinds]
    /\ Stamps \subseteq [Events -> Nat]
    /\ Draws \subseteq [Events -> [Tries -> Nat]]
    /\ MaxTries \in Nat /\ MaxTime \in Nat /\ Skew \in Nat /\ Retention \in Nat
    /\ MonthLength \in Nat \ {0}

(* Two draws of newUUID are never the same.                                  *)
ASSUME UuidAssumption ==
    \A d \in Draws, e, f \in Events, m, n \in Tries :
      d[e][m] = d[f][n] => e = f /\ m = n

VARIABLES
    now,
    kind,       \* the batches' tables: "metrics", "logs" or "spans"
    stamp,      \* the events' times
    uuid,       \* what newUUID will draw
    store,      \* the rows of the tables
    pending,    \* the rows that ClickHouse has received and not written
    broken,     \* the attempts whose INSERT it gave up
    tries,      \* attempts so far, by collector
    answer      \* what each was answered

given == <<kind, stamp, uuid>>
ingestVars == <<now, given, store, pending, broken, tries, answer>>

-----------------------------------------------------------------------------

Row == [ from : Collectors, event : Events, try : Tries, at : Nat, id : Nat ]

RowsOf(c, n) ==
    { [from |-> c, event |-> e, try |-> n, at |-> stamp[e], id |-> uuid[e][n]] :
        e \in BatchOf[c] }

InAttempt(r, c, n) == r.from = c /\ r.try = n

Month(r) == r.at \div MonthLength

Expired(t) == t + Retention <= now

IsWaiting(c) == tries[c] > 0 /\ answer[c][tries[c]] = "none"

IsAccepted(c) == \E n \in Tries : answer[c][n] = "accepted"

Init ==
    /\ now = 0
    /\ kind \in Kindings /\ stamp \in Stamps /\ uuid \in Draws
    /\ store = {} /\ pending = {} /\ broken = {}
    /\ tries = [c \in Collectors |-> 0]
    /\ answer = [c \in Collectors |-> [n \in Tries |-> "none"]]

-----------------------------------------------------------------------------
(* The handlers *)

(* validTelemetryTime, and the checks of the other fields.                   *)
ItemIsValid(e) == e \notin Malformed /\ stamp[e] <= now + Skew

BatchIsValid(c) == BatchOf[c] # {} /\ \A e \in BatchOf[c] : ItemIsValid(e)

(* One INSERT of the whole batch, after its last item was validated.         *)
\* A bug: items are inserted as they are validated.
RowsToInsertOneByOne(c, n) == { r \in RowsOf(c, n) : ItemIsValid(r.event) }

RowsToInsert(c, n) == IF BatchIsValid(c) THEN RowsOf(c, n) ELSE {}

(* A batch is posted, or posted again until it is accepted.                  *)
Ingest(c) ==
    /\ tries[c] < MaxTries /\ ~ IsWaiting(c) /\ ~ IsAccepted(c)
    /\ LET n == tries[c] + 1 IN
       /\ tries' = [tries EXCEPT ![c] = n]
       /\ pending' = pending \cup RowsToInsert(c, n)
       /\ answer' = IF BatchIsValid(c) THEN answer
                    ELSE [answer EXCEPT ![c][n] = "invalid"]
    /\ UNCHANGED <<now, given, store, broken>>

IngestMetrics(c) == kind[c] = "metrics" /\ Ingest(c)

IngestLogs(c) == kind[c] = "logs" /\ Ingest(c)

IngestSpans(c) == kind[c] = "spans" /\ Ingest(c)

(* ClickHouse answered 2xx, after its last part.                             *)
\* A bug: 200 is answered without waiting for ClickHouse.
IsWrittenUnchecked(c, n) == TRUE

IsWritten(c, n) ==
    <<c, n>> \notin broken /\ ~ \E r \in pending : InAttempt(r, c, n)

AnswerAccepted(c) ==
    /\ IsWaiting(c) /\ IsWritten(c, tries[c])
    /\ answer' = [answer EXCEPT ![c][tries[c]] = "accepted"]
    /\ UNCHANGED <<now, given, store, pending, broken, tries>>

(* 502: ClickHouse gave up, or its answer did not come in time.  Or the      *)
(* collector gets no answer at all, because its connection or the API's      *)
(* process ended.                                                            *)
\* A bug: an error of the store is answered like one of the request.
FailureAsInvalid == "invalid"

Failure == "failed"

\* A bug: without a timeout, only an error of ClickHouse ends the wait.
MayFailOnError(c) == <<c, tries[c]>> \in broken

MayFail(c) == IsWaiting(c)

AnswerFailed(c) ==
    /\ IsWaiting(c) /\ MayFail(c)
    /\ answer' = [answer EXCEPT ![c][tries[c]] = Failure]
    /\ UNCHANGED <<now, given, store, pending, broken, tries>>

-----------------------------------------------------------------------------
(* ClickHouse *)

(* The part of an INSERT that goes to one month is written at once.          *)
WritePart(r) ==
    LET part == { q \in pending : InAttempt(q, r.from, r.try) /\ Month(q) = Month(r) } IN
    /\ store' = store \cup part
    /\ pending' = pending \ part
    /\ UNCHANGED <<now, given, broken, tries, answer>>

(* It fails; the parts already written stay.                                 *)
GiveUp(r) ==
    /\ pending' = { q \in pending : ~ InAttempt(q, r.from, r.try) }
    /\ broken' = broken \cup {<<r.from, r.try>>}
    /\ UNCHANGED <<now, given, store, tries, answer>>

(* A merge drops rows that are past their TTL, some time after it.           *)
\* A bug: it drops rows that are not.
IsPastTTLEarly(r) == r.at <= now

IsPastTTL(r) == Expired(r.at)

Expire(r) ==
    /\ IsPastTTL(r)
    /\ store' = store \ {r}
    /\ UNCHANGED <<now, given, pending, broken, tries, answer>>

Tick ==
    /\ now < MaxTime
    /\ now' = now + 1
    /\ UNCHANGED <<given, store, pending, broken, tries, answer>>

Answer(c) == AnswerAccepted(c) \/ AnswerFailed(c)

IngestNext ==
    \/ \E c \in Collectors :
         IngestMetrics(c) \/ IngestLogs(c) \/ IngestSpans(c) \/ Answer(c)
    \/ \E r \in pending : WritePart(r) \/ GiveUp(r)
    \/ \E r \in store : Expire(r)
    \/ Tick

Spec == Init /\ [][IngestNext]_ingestVars

(* The API goes on with a request that it has: its client for ClickHouse has *)
(* a timeout.  Nothing is assumed of ClickHouse or of collectors.            *)
FairSpec == Spec /\ \A c \in Collectors : WF_ingestVars(Answer(c))

=============================================================================
