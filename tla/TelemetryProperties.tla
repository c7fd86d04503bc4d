-------------------------- MODULE TelemetryProperties --------------------------
(* What a collector can rely on.                                             *)
EXTENDS Telemetry

(* Every variable has the values that the code can give it.                  *)
TypeOK ==
    /\ now \in 0..MaxTime
    /\ kind \in Kindings /\ stamp \in Stamps /\ uuid \in Draws
    /\ store \in SUBSET Row /\ pending \in SUBSET Row
    /\ broken \in SUBSET (Collectors \X Tries)
    /\ tries \in [Collectors -> 0..MaxTries]
    /\ answer \in [Collectors -> [Tries -> Answers]]

(* A batch that was answered 200 is in the store, every event of it, until   *)
(* its TTL, whatever its earlier attempts have left behind.                  *)
AcceptedIsStored ==
    \A c \in Collectors, n \in Tries : answer[c][n] = "accepted" =>
      \A e \in BatchOf[c] :
        Expired(stamp[e]) \/ \E r \in store : InAttempt(r, c, n) /\ r.event = e

(* A batch that was answered 422 has left nothing, and will not.             *)
RejectedIsNotStored ==
    \A r \in store \cup pending : answer[r.from][r.try] # "invalid"

(* An event is stored twice only if it was posted again after an answer that *)
(* told its collector nothing: a row is known by its event and attempt, and  *)
(* all but the last of its attempts ended in an error or without an answer.  *)
DuplicatesAreResubmissions ==
    \A r, s \in store : r.event = s.event /\ r # s =>
      /\ r.try # s.try
      /\ r.try < s.try => answer[r.from][r.try] = "failed"

(* The rows that a collector may ever post.                                  *)
Posted == UNION { RowsOf(c, n) : c \in Collectors, n \in Tries }

(* A row is one that its collector posted, in an attempt that was made.      *)
RowsArePosted ==
    \A r \in store \cup pending : r \in RowsOf(r.from, r.try) /\ r.try <= tries[r.from]

(* The attempts before the last were answered, and none of them accepted;    *)
(* those after it were not made.                                             *)
AnswersInOrder ==
    \A c \in Collectors, n \in Tries :
      /\ n > tries[c] => answer[c][n] = "none"
      /\ n < tries[c] => answer[c][n] \in {"invalid", "failed"}

(* What an attempt that waits for its answer has posted is on its way, is    *)
(* stored, has expired, or is given up.                                      *)
NothingVanishes ==
    \A c \in Collectors : IsWaiting(c) /\ <<c, tries[c]>> \notin broken =>
      \A r \in RowsOf(c, tries[c]) : r \in store \cup pending \/ Expired(r.at)

IngestInv ==
    /\ TypeOK
    /\ RowsArePosted
    /\ AnswersInOrder
    /\ NothingVanishes
    /\ RejectedIsNotStored
    /\ AcceptedIsStored

(* A collector that has posted a batch gets an answer, or the end of its     *)
(* connection, even if ClickHouse never answers.                             *)
EveryBatchIsAnswered == \A c \in Collectors : IsWaiting(c) ~> ~ IsWaiting(c)

=============================================================================
