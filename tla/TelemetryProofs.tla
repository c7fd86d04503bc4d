---------------------------- MODULE TelemetryProofs ----------------------------
(***************************************************************************)
(* What collectors can rely on, for every set of collectors and batches and *)
(* any number of attempts: IngestInv is inductive, and what is stored twice *)
(* was posted again after an answer that told nothing.                      *)
(***************************************************************************)
EXTENDS TelemetryProperties, TLAPS

LEMMA Times ==
    /\ Tries \subseteq Nat /\ 0..MaxTime \subseteq Nat
    /\ MaxTries \in Nat /\ MaxTime \in Nat /\ Retention \in Nat
  BY TelemetryAssumption DEF Tries

(* An event's rows, by attempt.                                              *)
LEMMA RowsOfFacts ==
    ASSUME TypeOK, NEW c \in Collectors, NEW n \in Tries
    PROVE  /\ RowsOf(c, n) \subseteq Row
           /\ \A r \in RowsOf(c, n) :
                /\ InAttempt(r, c, n)
                /\ r.event \in BatchOf[c] /\ r.at = stamp[r.event] /\ r.id = uuid[r.event][n]
                /\ r = [from |-> c, event |-> r.event, try |-> n, at |-> stamp[r.event],
                        id |-> uuid[r.event][n]]
           /\ \A e \in BatchOf[c] : \E r \in RowsOf(c, n) : r.event = e
  <1>1. BatchOf[c] \subseteq Events
    BY TelemetryAssumption
  <1>2. \A e \in Events : stamp[e] \in Nat /\ uuid[e][n] \in Nat
    BY TelemetryAssumption DEF TypeOK
  <1>3. ASSUME NEW e \in BatchOf[c]
        PROVE  [from |-> c, event |-> e, try |-> n, at |-> stamp[e], id |-> uuid[e][n]] \in Row
    BY <1>1, <1>2, <1>3 DEF Row
  <1>4. RowsOf(c, n) \subseteq Row
    BY <1>3 DEF RowsOf
  <1>5. ASSUME NEW r \in RowsOf(c, n)
        PROVE  /\ InAttempt(r, c, n)
               /\ r.event \in BatchOf[c] /\ r.at = stamp[r.event] /\ r.id = uuid[r.event][n]
               /\ r = [from |-> c, event |-> r.event, try |-> n, at |-> stamp[r.event],
                       id |-> uuid[r.event][n]]
    <2>1. PICK e \in BatchOf[c] :
            r = [from |-> c, event |-> e, try |-> n, at |-> stamp[e], id |-> uuid[e][n]]
      BY DEF RowsOf
    <2>2. r.event = e
      BY <2>1
    <2>3. QED
      BY <2>1, <2>2 DEF InAttempt
  <1>6. ASSUME NEW e \in BatchOf[c] PROVE \E r \in RowsOf(c, n) : r.event = e
    <2> DEFINE r == [from |-> c, event |-> e, try |-> n, at |-> stamp[e], id |-> uuid[e][n]]
    <2>1. r \in RowsOf(c, n)
      BY DEF RowsOf
    <2>2. r.event = e
      OBVIOUS
    <2>3. QED
      BY <2>1, <2>2
  <1>7. \A r \in RowsOf(c, n) :
          /\ InAttempt(r, c, n)
          /\ r.event \in BatchOf[c] /\ r.at = stamp[r.event] /\ r.id = uuid[r.event][n]
          /\ r = [from |-> c, event |-> r.event, try |-> n, at |-> stamp[r.event],
                  id |-> uuid[r.event][n]]
    BY <1>5
  <1>8. \A e \in BatchOf[c] : \E r \in RowsOf(c, n) : r.event = e
    BY <1>6
  <1>9. QED
    BY <1>4, <1>7, <1>8

(* No two rows that are ever posted have the same id.                        *)
LEMMA PostedFacts ==
    ASSUME TypeOK
    PROVE  /\ Posted \subseteq Row
           /\ \A r, s \in Posted : r.id = s.id => r = s
  <1>1. Posted \subseteq Row
    BY RowsOfFacts DEF Posted
  <1>2. ASSUME NEW r \in Posted, NEW s \in Posted, r.id = s.id
        PROVE  r = s
    <2>1. PICK c \in Collectors, n \in Tries : r \in RowsOf(c, n)
      BY DEF Posted
    <2>2. PICK d \in Collectors, m \in Tries : s \in RowsOf(d, m)
      BY DEF Posted
    <2>3. /\ r.event \in BatchOf[c] /\ r.id = uuid[r.event][n]
          /\ r = [from |-> c, event |-> r.event, try |-> n, at |-> stamp[r.event],
                  id |-> uuid[r.event][n]]
      BY <2>1, RowsOfFacts
    <2>4. /\ s.event \in BatchOf[d] /\ s.id = uuid[s.event][m]
          /\ s = [from |-> d, event |-> s.event, try |-> m, at |-> stamp[s.event],
                  id |-> uuid[s.event][m]]
      BY <2>2, RowsOfFacts
    <2>5. r.event = s.event /\ n = m
      <3>1. r.event \in Events /\ s.event \in Events /\ uuid \in Draws
        BY <2>3, <2>4, TelemetryAssumption DEF TypeOK
      <3>2. uuid[r.event][n] = uuid[s.event][m]
        <4>1. r.id = uuid[r.event][n] /\ s.id = uuid[s.event][m]
          BY <2>3, <2>4
        <4>2. QED
          BY <4>1, <1>2
      <3>3. QED
        BY <3>1, <3>2, UuidAssumption
    <2>6. c = d
      BY <2>3, <2>4, <2>5, TelemetryAssumption
    <2>7. QED
      BY <2>3, <2>4, <2>5, <2>6
  <1>3. QED
    BY <1>1, <1>2

-----------------------------------------------------------------------------
(* The invariant *)

LEMMA InitIngestInv == Init => IngestInv
  <1>1. SUFFICES ASSUME Init PROVE IngestInv
    OBVIOUS
  <1>2. TypeOK
    <2>1. 0 \in 0..MaxTime /\ 0 \in 0..MaxTries
      BY Times
    <2>2. tries \in [Collectors -> 0..MaxTries]
      BY <1>1, <2>1 DEF Init
    <2>3. answer \in [Collectors -> [Tries -> Answers]]
      BY <1>1 DEF Init, Answers
    <2>4. QED
      BY <1>1, <2>1, <2>2, <2>3 DEF Init, TypeOK
  <1>3. RowsArePosted /\ RejectedIsNotStored
    BY <1>1 DEF Init, RowsArePosted, RejectedIsNotStored
  <1>4. AnswersInOrder /\ NothingVanishes /\ AcceptedIsStored
    <2>1. \A c \in Collectors : tries[c] = 0 /\ ~ IsWaiting(c)
      BY <1>1 DEF Init, IsWaiting
    <2>2. \A c \in Collectors, n \in Tries : answer[c][n] = "none" /\ ~ n < 0
      BY <1>1 DEF Init, Tries
    <2>3. QED
      BY <2>1, <2>2 DEF AnswersInOrder, NothingVanishes, AcceptedIsStored
  <1>5. QED
    BY <1>2, <1>3, <1>4 DEF IngestInv

(* A batch is posted.                                                        *)
LEMMA IngestStep ==
    ASSUME IngestInv, NEW c \in Collectors, Ingest(c)
    PROVE  IngestInv'
  <1> USE DEF IngestInv
  <1> DEFINE n == tries[c] + 1
  <1>1. n \in Tries /\ tries[c] \in 0..MaxTries /\ answer[c][n] = "none"
    BY Times DEF Ingest, TypeOK, Tries, AnswersInOrder
  <1>2. /\ UNCHANGED <<now, given, store, broken>>
        /\ tries' = [tries EXCEPT ![c] = n]
        /\ pending' = pending \cup RowsToInsert(c, n)
        /\ answer' = IF BatchIsValid(c) THEN answer ELSE [answer EXCEPT ![c][n] = "invalid"]
    BY DEF Ingest
  <1>3. now' = now /\ kind' = kind /\ stamp' = stamp /\ uuid' = uuid
        /\ \A d, m : RowsOf(d, m)' = RowsOf(d, m)
    BY <1>2 DEF given, RowsOf
  <1> HIDE DEF n
  <1>4. RowsToInsert(c, n) \subseteq RowsOf(c, n)
        /\ (BatchIsValid(c) => RowsToInsert(c, n) = RowsOf(c, n))
        /\ (~ BatchIsValid(c) => RowsToInsert(c, n) = {})
    BY DEF RowsToInsert
  <1>5. \A r \in RowsOf(c, n) : InAttempt(r, c, n) /\ r \in Row
    BY <1>1, RowsOfFacts
  <1>6. tries' \in [Collectors -> 0..MaxTries] /\ tries'[c] = n
        /\ (\A d \in Collectors : d # c => tries'[d] = tries[d])
    BY <1>1, <1>2, Times DEF TypeOK, Tries
  <1>7. answer' \in [Collectors -> [Tries -> Answers]]
        /\ (\A d \in Collectors, m \in Tries : d # c \/ m # n => answer'[d][m] = answer[d][m])
        /\ answer'[c][n] = IF BatchIsValid(c) THEN "none" ELSE "invalid"
    BY <1>1, <1>2 DEF TypeOK, Answers
  <1>8. TypeOK'
    BY <1>2, <1>3, <1>4, <1>5, <1>6, <1>7 DEF TypeOK
  <1>9. RowsArePosted'
    <2>1. SUFFICES ASSUME NEW r \in store \cup pending'
                   PROVE  r \in RowsOf(r.from, r.try) /\ r.try <= tries'[r.from]
      BY <1>2, <1>3 DEF RowsArePosted
    <2>2. CASE r \in store \cup pending
      <3>1. r \in RowsOf(r.from, r.try) /\ r.try <= tries[r.from] /\ r \in Row
        BY <2>2 DEF RowsArePosted, TypeOK
      <3>2. r.from \in Collectors /\ r.try \in Nat /\ tries[r.from] \in 0..MaxTries
        BY <3>1, Times DEF Row, TypeOK
      <3>3. tries'[r.from] = tries[r.from] \/ tries'[r.from] = tries[r.from] + 1
        BY <1>6, <3>2 DEF n
      <3>4. QED
        BY <3>1, <3>2, <3>3, Times
    <2>3. CASE r \in RowsOf(c, n)
      BY <2>3, <1>1, <1>5, <1>6, Times DEF InAttempt
    <2>4. QED
      BY <2>1, <2>2, <2>3, <1>2, <1>4
  <1>10. AnswersInOrder'
    <2>1. SUFFICES ASSUME NEW d \in Collectors, NEW m \in Tries
                   PROVE  /\ m > tries'[d] => answer'[d][m] = "none"
                          /\ m < tries'[d] => answer'[d][m] \in {"invalid", "failed"}
      BY DEF AnswersInOrder
    <2>2. CASE d # c
      BY <2>2, <1>6, <1>7 DEF AnswersInOrder
    <2>3. CASE d = c /\ m > n
      BY <2>3, <1>1, <1>6, <1>7, Times DEF AnswersInOrder, n
    <2>4. CASE d = c /\ m = n
      BY <2>4, <1>1, <1>6, Times
    <2>5. CASE d = c /\ m < n
      <3>1. answer'[c][m] = answer[c][m] /\ answer[c][m] \in Answers /\ tries'[c] = n
        BY <2>5, <1>1, <1>6, <1>7, Times DEF TypeOK
      <3>2. CASE m < tries[c]
        BY <2>5, <3>1, <3>2, <1>1, Times DEF AnswersInOrder, n
      <3>3. CASE m = tries[c]
        <4>1. answer[c][m] # "none" /\ answer[c][m] # "accepted"
          BY <3>3, Times DEF Ingest, IsWaiting, IsAccepted, Tries
        <4>2. QED
          BY <2>5, <3>1, <4>1, <1>1, Times DEF Answers, n
      <3>4. QED
        BY <2>5, <3>2, <3>3, <1>1, Times DEF n
    <2>6. QED
      BY <2>2, <2>3, <2>4, <2>5, <1>1, Times
  <1>11. NothingVanishes'
    <2>1. SUFFICES ASSUME NEW d \in Collectors, IsWaiting(d)', <<d, tries'[d]>> \notin broken,
                          NEW r \in RowsOf(d, tries'[d])
                   PROVE  r \in store \cup pending' \/ Expired(r.at)
      BY <1>2, <1>3 DEF NothingVanishes, Expired
    <2>2. CASE d = c
      BY <2>1, <2>2, <1>1, <1>2, <1>4, <1>6, <1>7 DEF IsWaiting
    <2>3. CASE d # c
      <3>1. tries'[d] = tries[d] /\ tries[d] \in 0..MaxTries
        BY <2>3, <1>6 DEF TypeOK
      <3>2. IsWaiting(d)
        BY <2>1, <2>3, <3>1, <1>7, Times DEF IsWaiting, Tries
      <3>3. QED
        BY <2>1, <3>1, <3>2, <1>2 DEF NothingVanishes
    <2>4. QED
      BY <2>2, <2>3
  <1>12. RejectedIsNotStored'
    <2>1. SUFFICES ASSUME NEW r \in store \cup pending'
                   PROVE  answer'[r.from][r.try] # "invalid"
      BY <1>2 DEF RejectedIsNotStored
    <2>2. CASE r \in store \cup pending
      <3>1. r \in Row /\ r.try <= tries[r.from] /\ answer[r.from][r.try] # "invalid"
        BY <2>2 DEF TypeOK, RowsArePosted, RejectedIsNotStored
      <3>2. r.from \in Collectors /\ r.try \in Tries
        BY <3>1 DEF Row
      <3>3. r.from # c \/ r.try # n
        BY <3>1, <3>2, <1>1, Times DEF n
      <3>4. QED
        BY <3>1, <3>2, <3>3, <1>7
    <2>3. CASE r \in RowsToInsert(c, n)
      BY <2>3, <1>4, <1>5, <1>7 DEF InAttempt
    <2>4. QED
      BY <2>1, <2>2, <2>3, <1>2
  <1>13. AcceptedIsStored'
    BY <1>1, <1>2, <1>3, <1>7 DEF AcceptedIsStored, Expired
  <1>14. QED
    BY <1>8, <1>9, <1>10, <1>11, <1>12, <1>13

(* A collector gets an answer, or the end of its connection.                 *)
LEMMA AnswerStep ==
    ASSUME IngestInv, NEW c \in Collectors, Answer(c)
    PROVE  IngestInv'
  <1> USE DEF IngestInv
  <1> DEFINE n == tries[c]
  <1>1. PICK a \in {"accepted", "failed"} :
          /\ answer' = [answer EXCEPT ![c][n] = a]
          /\ a = "accepted" => IsWritten(c, n)
    BY DEF Answer, AnswerAccepted, AnswerFailed, Failure
  <1>2. /\ UNCHANGED <<now, given, store, pending, broken, tries>>
        /\ IsWaiting(c)
    BY DEF Answer, AnswerAccepted, AnswerFailed
  <1>3. now' = now /\ kind' = kind /\ stamp' = stamp /\ uuid' = uuid
        /\ \A d, m : RowsOf(d, m)' = RowsOf(d, m)
    BY <1>2 DEF given, RowsOf
  <1>4. n \in Tries /\ answer[c][n] = "none"
    BY <1>2, Times DEF IsWaiting, TypeOK, Tries
  <1> HIDE DEF n
  <1>5. answer' \in [Collectors -> [Tries -> Answers]]
        /\ (\A d \in Collectors, m \in Tries : d # c \/ m # n => answer'[d][m] = answer[d][m])
        /\ answer'[c][n] = a
    BY <1>1, <1>4 DEF TypeOK, Answers
  <1>6. TypeOK'
    BY <1>2, <1>3, <1>5 DEF TypeOK
  <1>7. RowsArePosted'
    BY <1>2, <1>3 DEF RowsArePosted
  <1>8. AnswersInOrder'
    <2>1. SUFFICES ASSUME NEW d \in Collectors, NEW m \in Tries
                   PROVE  /\ m > tries[d] => answer'[d][m] = "none"
                          /\ m < tries[d] => answer'[d][m] \in {"invalid", "failed"}
      BY <1>2 DEF AnswersInOrder
    <2>2. CASE d # c \/ m # n
      BY <2>2, <1>5 DEF AnswersInOrder
    <2>3. CASE d = c /\ m = n
      BY <2>3, <1>4, Times DEF n
    <2>4. QED
      BY <2>2, <2>3
  <1>9. NothingVanishes'
    <2>1. SUFFICES ASSUME NEW d \in Collectors, IsWaiting(d)', <<d, tries[d]>> \notin broken,
                          NEW r \in RowsOf(d, tries[d])
                   PROVE  r \in store \cup pending \/ Expired(r.at)
      BY <1>2, <1>3 DEF NothingVanishes, Expired
    <2>2. d # c
      BY <2>1, <1>2, <1>5 DEF IsWaiting, n
    <2>3. IsWaiting(d)
      BY <2>1, <2>2, <1>2, <1>5, Times DEF IsWaiting, TypeOK, Tries
    <2>4. QED
      BY <2>1, <2>3 DEF NothingVanishes
  <1>10. RejectedIsNotStored'
    <2>1. SUFFICES ASSUME NEW r \in store \cup pending
                   PROVE  answer'[r.from][r.try] # "invalid"
      BY <1>2 DEF RejectedIsNotStored
    <2>2. r.from \in Collectors /\ r.try \in Tries /\ answer[r.from][r.try] # "invalid"
      BY <2>1 DEF RejectedIsNotStored, TypeOK, Row
    <2>3. CASE r.from = c /\ r.try = n
      BY <2>3, <1>5
    <2>4. CASE r.from # c \/ r.try # n
      BY <2>2, <2>4, <1>5
    <2>5. QED
      BY <2>3, <2>4
  <1>11. AcceptedIsStored'
    <2>1. SUFFICES ASSUME NEW d \in Collectors, NEW m \in Tries, answer'[d][m] = "accepted",
                          NEW e \in BatchOf[d], ~ Expired(stamp[e])
                   PROVE  \E r \in store : InAttempt(r, d, m) /\ r.event = e
      BY <1>2, <1>3 DEF AcceptedIsStored, Expired, InAttempt
    <2>2. CASE d # c \/ m # n
      BY <2>1, <2>2, <1>5 DEF AcceptedIsStored
    <2>3. CASE d = c /\ m = n
      <3>1. IsWritten(c, n)
        BY <2>1, <2>3, <1>1, <1>5
      <3>2. PICK r \in RowsOf(c, n) : r.event = e
        BY <2>1, <2>3, <1>4, RowsOfFacts
      <3>3. InAttempt(r, c, n) /\ r.at = stamp[e]
        BY <3>2, <1>4, RowsOfFacts
      <3>4. r \in store \cup pending
        BY <2>1, <3>1, <3>2, <3>3, <1>2 DEF NothingVanishes, IsWritten, n
      <3>5. QED
        BY <2>3, <3>1, <3>2, <3>3, <3>4 DEF IsWritten
    <2>4. QED
      BY <2>2, <2>3
  <1>12. QED
    BY <1>6, <1>7, <1>8, <1>9, <1>10, <1>11

(* ClickHouse writes a part, gives an INSERT up or drops a row, or time      *)
(* passes.                                                                   *)
LEMMA StoreStep ==
    ASSUME IngestInv,
           \/ \E r \in pending : WritePart(r) \/ GiveUp(r)
           \/ \E r \in store : Expire(r)
           \/ Tick
    PROVE  IngestInv'
  <1> USE DEF IngestInv
  <1>1. UNCHANGED <<given, tries, answer>>
    BY DEF WritePart, GiveUp, Expire, Tick
  <1>2. kind' = kind /\ stamp' = stamp /\ uuid' = uuid /\ tries' = tries /\ answer' = answer
        /\ \A d, m : RowsOf(d, m)' = RowsOf(d, m)
    BY <1>1 DEF given, RowsOf
  <1>3. /\ now' \in 0..MaxTime /\ now' >= now
        /\ store' \cup pending' \subseteq store \cup pending
        /\ broken' \in SUBSET (Collectors \X Tries) /\ broken \subseteq broken'
        /\ \A r \in store : r \in store' \/ Expired(r.at)
        /\ \A r \in pending : r \in store' \cup pending' \/ <<r.from, r.try>> \in broken'
    <2>0. now \in 0..MaxTime /\ MaxTime \in Nat
      BY Times DEF TypeOK
    <2>1. CASE \E r \in pending : WritePart(r)
      BY <2>0, <2>1 DEF WritePart, TypeOK
    <2>2. ASSUME NEW r \in pending, GiveUp(r)
          PROVE  /\ now' = now /\ store' = store /\ pending' \subseteq pending
                 /\ broken' \in SUBSET (Collectors \X Tries) /\ broken \subseteq broken'
                 /\ \A q \in pending : q \in pending' \/ <<q.from, q.try>> \in broken'
      <3>1. r.from \in Collectors /\ r.try \in Tries
        BY DEF TypeOK, Row
      <3>2. QED
        BY <2>2, <3>1 DEF GiveUp, TypeOK, InAttempt
    <2>3. CASE \E r \in store : Expire(r)
      BY <2>0, <2>3 DEF Expire, IsPastTTL, TypeOK
    <2>4. CASE Tick
      BY <2>0, <2>4 DEF Tick, TypeOK
    <2>5. QED
      BY <2>0, <2>1, <2>2, <2>3, <2>4
  <1>4. \A t \in Nat : Expired(t) => Expired(t)'
    BY <1>3, Times DEF Expired, TypeOK
  <1>5. \A e \in Events : stamp[e] \in Nat
    BY TelemetryAssumption DEF TypeOK
  <1>6. TypeOK'
    BY <1>2, <1>3 DEF TypeOK
  <1>7. RowsArePosted' /\ RejectedIsNotStored'
    BY <1>2, <1>3 DEF RowsArePosted, RejectedIsNotStored
  <1>8. AnswersInOrder'
    BY <1>2 DEF AnswersInOrder
  <1>9. NothingVanishes'
    <2>1. SUFFICES ASSUME NEW d \in Collectors, IsWaiting(d), <<d, tries[d]>> \notin broken',
                          NEW r \in RowsOf(d, tries[d])
                   PROVE  r \in store' \cup pending' \/ Expired(r.at)'
      BY <1>2 DEF NothingVanishes, IsWaiting
    <2>2. tries[d] \in Tries
      BY <2>1, Times DEF IsWaiting, TypeOK, Tries
    <2>3. r.from = d /\ r.try = tries[d] /\ r.at \in Nat
      BY <2>2, RowsOfFacts DEF InAttempt, Row
    <2>4. r \in store \cup pending \/ Expired(r.at)
      BY <2>1, <1>3 DEF NothingVanishes
    <2>5. QED
      BY <2>1, <2>3, <2>4, <1>3, <1>4
  <1>10. AcceptedIsStored'
    <2>1. SUFFICES ASSUME NEW d \in Collectors, NEW m \in Tries, answer[d][m] = "accepted",
                          NEW e \in BatchOf[d], ~ Expired(stamp[e])'
                   PROVE  \E r \in store' : InAttempt(r, d, m) /\ r.event = e
      BY <1>2 DEF AcceptedIsStored, InAttempt
    <2>2. e \in Events /\ stamp[e] \in Nat /\ stamp' = stamp
      BY <1>2, <1>5, TelemetryAssumption
    <2>3. ~ Expired(stamp[e])
      BY <2>1, <2>2, <1>4
    <2>4. PICK r \in store : InAttempt(r, d, m) /\ r.event = e
      BY <2>1, <2>3 DEF AcceptedIsStored
    <2>5. r.at = stamp[e]
      BY <2>4, RowsOfFacts DEF RowsArePosted, InAttempt
    <2>6. QED
      BY <2>3, <2>4, <2>5, <1>3
  <1>11. QED
    BY <1>6, <1>7, <1>8, <1>9, <1>10

LEMMA IngestInvStep == IngestInv /\ [IngestNext]_ingestVars => IngestInv'
  <1>1. SUFFICES ASSUME IngestInv, [IngestNext]_ingestVars PROVE IngestInv'
    OBVIOUS
  <1>2. CASE \E c \in Collectors : Ingest(c) \/ Answer(c)
    BY <1>1, <1>2, IngestStep, AnswerStep
  <1>3. CASE \/ \E r \in pending : WritePart(r) \/ GiveUp(r)
             \/ \E r \in store : Expire(r)
             \/ Tick
    BY <1>1, <1>3, StoreStep
  <1>4. CASE UNCHANGED ingestVars
    BY <1>1, <1>4
       DEF ingestVars, given, IngestInv, TypeOK, RowsArePosted, AnswersInOrder, NothingVanishes,
           RejectedIsNotStored, AcceptedIsStored, RowsOf, IsWaiting, Expired, InAttempt
  <1>5. QED
    BY <1>1, <1>2, <1>3, <1>4 DEF IngestNext, IngestMetrics, IngestLogs, IngestSpans

(* Time goes on, and rows leave the tables by their TTL only.                *)
LEMMA TablesOnlyExpire ==
    ASSUME IngestInv, [IngestNext]_ingestVars
    PROVE  /\ UNCHANGED given
           /\ now \in Nat /\ now' \in Nat /\ now <= now'
           /\ \A r \in store : r \in store' \/ Expired(r.at)
           /\ \A t \in Nat : Expired(t) => Expired(t)'
  <1> USE DEF IngestInv
  <1>1. now \in Nat /\ MaxTime \in Nat
    BY Times DEF TypeOK
  <1>2. CASE \E c \in Collectors : Ingest(c) \/ Answer(c)
    BY <1>1, <1>2 DEF Ingest, Answer, AnswerAccepted, AnswerFailed, Expired
  <1>3. CASE \E r \in pending : WritePart(r) \/ GiveUp(r)
    BY <1>1, <1>3 DEF WritePart, GiveUp, Expired
  <1>4. CASE \E r \in store : Expire(r)
    BY <1>1, <1>4 DEF Expire, IsPastTTL, Expired
  <1>5. CASE Tick
    BY <1>1, <1>5, Times DEF Tick, Expired
  <1>6. CASE UNCHANGED ingestVars
    BY <1>1, <1>6 DEF ingestVars, Expired
  <1>7. QED
    BY <1>2, <1>3, <1>4, <1>5, <1>6 DEF IngestNext, IngestMetrics, IngestLogs, IngestSpans

(* What ingest keeps, of which the three promises below are consequences.    *)
THEOREM IngestInvariant == Spec => []IngestInv
  BY InitIngestInv, IngestInvStep, PTL DEF Spec

(* A batch that was answered 200 is stored as a whole, until its TTL.        *)
THEOREM AcceptedStays == Spec => []AcceptedIsStored
  <1>1. IngestInv => AcceptedIsStored
    BY DEF IngestInv
  <1>2. QED
    BY IngestInvariant, <1>1, PTL

(* A batch that was answered 422 leaves nothing behind.                      *)
THEOREM RejectedLeavesNothing == Spec => []RejectedIsNotStored
  <1>1. IngestInv => RejectedIsNotStored
    BY DEF IngestInv
  <1>2. QED
    BY IngestInvariant, <1>1, PTL

(* An event is stored twice only if it was posted again after an error or    *)
(* without an answer.                                                        *)
THEOREM DuplicatesAreExplained == Spec => []DuplicatesAreResubmissions
  <1>1. ASSUME IngestInv PROVE DuplicatesAreResubmissions
    <2> USE <1>1 DEF IngestInv
    <2>1. SUFFICES ASSUME NEW r \in store, NEW s \in store, r.event = s.event, r # s
                   PROVE  /\ r.try # s.try
                          /\ r.try < s.try => answer[r.from][r.try] = "failed"
      BY DEF DuplicatesAreResubmissions
    <2>2. /\ r.from \in Collectors /\ r.try \in Tries /\ s.from \in Collectors /\ s.try \in Tries
          /\ r \in RowsOf(r.from, r.try) /\ s \in RowsOf(s.from, s.try) /\ s.try <= tries[s.from]
      BY DEF TypeOK, Row, RowsArePosted
    <2>3. /\ r.event \in BatchOf[r.from] /\ s.event \in BatchOf[s.from]
          /\ r = [from |-> r.from, event |-> r.event, try |-> r.try, at |-> stamp[r.event],
                  id |-> uuid[r.event][r.try]]
          /\ s = [from |-> s.from, event |-> s.event, try |-> s.try, at |-> stamp[s.event],
                  id |-> uuid[s.event][s.try]]
      BY <2>2, RowsOfFacts
    <2>4. r.from = s.from
      BY <2>1, <2>2, <2>3, TelemetryAssumption
    <2>5. r.try # s.try
      BY <2>1, <2>3, <2>4
    <2>6. ASSUME r.try < s.try PROVE answer[r.from][r.try] = "failed"
      <3>1. r.try < tries[r.from]
        <4>1. s.try <= tries[r.from]
          BY <2>2, <2>4
        <4>2. r.try \in Nat /\ s.try \in Nat
          BY <2>2, Times
        <4>3. tries[r.from] \in 0..MaxTries
          BY <2>2 DEF TypeOK
        <4>4. QED
          BY <4>1, <4>2, <4>3, <2>6, Times
      <3>2. answer[r.from][r.try] \in {"invalid", "failed"}
        BY <2>2, <3>1 DEF AnswersInOrder
      <3>3. QED
        BY <3>2 DEF RejectedIsNotStored
    <2>7. QED
      BY <2>5, <2>6
  <1>2. QED
    BY IngestInvariant, <1>1, PTL

=============================================================================
