--------------------------- MODULE IdentityProofs ---------------------------
(***************************************************************************)
(* Proofs about Identity for every set of identities, emails, accounts and *)
(* concurrent requests.                                                    *)
(***************************************************************************)
EXTENDS IdentityProperties, FiniteSetTheorems, TLAPS

(* What a statement that runs has waited for. *)
LEMMA Unblocked ==
    ASSUME LoginsInv, NEW r \in Requests, NEW s, At(r, s)
    PROVE  /\ pc[r] = s
           /\ s = "lookup" => loginLock[call[r].id] \in {None, r}
           /\ s = "claim" => claim[call[r].e] \in {None, r}
           /\ RowIsMatched(r) => rowLock[user[r]] \in {None, r}
<1>1. pc[r] = s /\ \A d \in Requests : ~Waits(r, d)
  BY DEF At
<1>2. s = "lookup" => loginLock[call[r].id] \in Requests \cup {None}
  BY <1>1 DEF LoginsInv, TypeOK, LocksOK, Holder, ControlInv, Running
<1>3. s = "claim" => claim[call[r].e] \in Requests \cup {None}
  BY <1>1 DEF LoginsInv, TypeOK, LocksOK, RequestsOK, Calls, Holder, ControlInv
<1>4. RowIsMatched(r) => rowLock[user[r]] \in Requests \cup {None}
  BY <1>1 DEF LoginsInv, TypeOK, LocksOK, Holder, ControlInv, RowIsMatched, LoggingIn, Used
<1>. QED
  BY <1>1, <1>2, <1>3, <1>4 DEF Waits, EmailBlockers, Others

(* The end of a transaction releases the locks of its request and no others. *)
LEMMA Released ==
    ASSUME TypeOK, NEW r \in Requests, Release(r)
    PROVE  /\ LocksOK'
           /\ \A i \in Identities, d \in Requests :
                 loginLock'[i] = d <=> loginLock[i] = d /\ d # r
           /\ \A a \in Accounts, d \in Requests :
                 rowLock'[a] = d <=> rowLock[a] = d /\ d # r
           /\ \A e \in Emails :
                 /\ \A d \in Requests : claim'[e] = d <=> claim[e] = d /\ d # r
                 /\ claim'[e] \in {None, claim[e]}
<1>1. r # None /\ \A d \in Requests : d # None
  BY IdentityAssumption
<1>. QED
  BY <1>1 DEF TypeOK, LocksOK, Release, Holder, Free

(* A request that ends without having changed a table; a conflict has its    *)
(* reason.                                                                   *)
LEMMA Answering ==
    ASSUME LoginsInv, NEW r \in Requests, NEW c \in Codes, Answer(r, c),
           UNCHANGED <<tables, call>>, pc[r] # "idle",
           c = "ok" => user[r] \in Used,
           c = "conflict" => \E a \in Used : /\ email[a] # None /\ email[a] = call[r].e
                                             /\ account[call[r].id] # a
    PROVE  LoginsInv'
<1>. USE IdentityAssumption DEF tables
<1>1. TypeOK /\ Release(r)
  BY DEF LoginsInv, Answer
<1>2. /\ pc' \in [Requests -> Steps] /\ code' \in [Requests -> Codes]
      /\ user' \in [Requests -> Accounts \cup {None}]
      /\ pc'[r] = "done" /\ code'[r] = c /\ user'[r] \in {user[r], None}
      /\ user'[r] # None => user[r] \in Used
      /\ \A d \in Requests \ {r} :
            pc'[d] = pc[d] /\ code'[d] = code[d] /\ user'[d] = user[d]
  BY <1>1 DEF Answer, TypeOK, RequestsOK, Steps
<1>3. TypeOK'
  BY <1>1, <1>2, Released DEF TypeOK, TablesOK, RequestsOK
<1>4. /\ Used' = Used
      /\ \A d \in Requests \ {r} : /\ LoggingIn(d)' = LoggingIn(d) /\ New(d)' = New(d)
                                   /\ Known(d)' = Known(d) /\ Current(d)' = Current(d)
      /\ ~LoggingIn(r)'
  BY <1>2 DEF Used, LoggingIn, New, Known, Current
<1>5. ControlInv'
  BY <1>2, <1>4 DEF LoginsInv, ControlInv, Running, LoggingIn, New
<1>6. LookupHolds'
  BY <1>1, <1>2, <1>4, Released DEF LoginsInv, LookupHolds, ControlInv, LoggingIn, Running
<1>7. DrawnOnce'
  BY <1>2, <1>4 DEF LoginsInv, DrawnOnce
<1>8. LockedRows'
  <2>1. ASSUME NEW a \in Accounts, NEW d \in Requests, rowLock'[a] = d
        PROVE  d # r /\ rowLock[a] = d
    BY <1>1, <2>1, Released
  <2>2. ASSUME NEW d \in Requests \ {r}, user[d] \in Accounts, rowLock[user[d]] = d
        PROVE  rowLock'[user[d]] = d
    BY <1>1, <2>2, Released
  <2>3. \A d \in Requests : (LoggingIn(d) \/ pc[d] = "commit") => user[d] \in Accounts
    BY DEF LoginsInv, ControlInv, Used
  <2>. QED
    BY <1>2, <1>4, <2>1, <2>2, <2>3 DEF LoginsInv, LockedRows, LoggingIn
<1>9. ClaimedEmails'
  <2>1. ASSUME NEW d \in Requests,
               \/ New(d)' /\ pc'[d] # "claim" /\ call[d].e # None
               \/ pc'[d] = "resolved" /\ rowLock'[user'[d]] = d
        PROVE  call[d].e \in Emails /\ claim'[call[d].e] = d
    <3>1. d # r /\ LoggingIn(d)
      BY <1>2, <1>4, <2>1 DEF New, LoggingIn
    <3>2. user[d] \in Accounts
      BY <3>1 DEF LoginsInv, ControlInv
    <3>3. call[d].e \in Emails /\ claim[call[d].e] = d
      BY <1>1, <1>2, <1>4, <2>1, <3>1, <3>2, Released DEF LoginsInv, ClaimedEmails
    <3>. QED
      BY <1>1, <3>1, <3>3, Released
  <2>. QED
    BY <1>1, <1>4, <2>1, Released DEF LoginsInv, ClaimedEmails, Taken
<1>10. EmailsAreUnique' /\ ConflictsAreAboutEmail'
  BY <1>2, <1>4 DEF LoginsInv, EmailsAreUnique, ConflictsAreAboutEmail
<1>. QED
  BY <1>3, <1>5, <1>6, <1>7, <1>8, <1>9, <1>10 DEF LoginsInv

-----------------------------------------------------------------------------
(* A request arrives, and is authenticated *)

(* What the locks and claims of the others say is not about an idle request. *)
LEMMA Arriving ==
    ASSUME LoginsInv, NEW r \in Requests, Arrive(r)
    PROVE  LoginsInv'
<1>. USE IdentityAssumption DEF tables
<1>1. PICK op \in Operations, id \in Identities \cup {None}, e \in Emails \cup {None},
           v \in 0..MaxVersion :
        /\ pc[r] = "idle"
        /\ call' = [call EXCEPT ![r] = Call(op, id, e, v)]
        /\ IF id = None THEN Answer(r, "unauthorized") ELSE Goto(r, "lookup")
        /\ UNCHANGED tables
  BY DEF Arrive
<1>2. TypeOK /\ user[r] = None /\ ~LoggingIn(r) /\ code[r] = "none"
  BY <1>1 DEF LoginsInv, ControlInv, LoggingIn
<1>3. /\ call' \in [Requests -> Calls] /\ \A d \in Requests \ {r} : call'[d] = call[d]
      /\ call'[r].id = id
  <2>1. MaxVersion \in Nat
    BY RequestsAssumption, FS_CardinalityType DEF MaxVersion
  <2>2. Call(op, id, e, v) \in Calls /\ Call(op, id, e, v).id = id
    BY <2>1 DEF Call, Calls, AllOperations
  <2>. QED
    BY <1>1, <1>2, <2>2 DEF TypeOK, RequestsOK
<1>4. /\ pc' \in [Requests -> Steps] /\ code' \in [Requests -> Codes]
      /\ user' \in [Requests -> Accounts \cup {None}]
      /\ user'[r] = None /\ code'[r] # "conflict"
      /\ \/ pc'[r] = "done"
         \/ pc'[r] = "lookup" /\ id # None /\ code'[r] = "none"
      /\ \A d \in Requests \ {r} :
            pc'[d] = pc[d] /\ code'[d] = code[d] /\ user'[d] = user[d]
  BY <1>1, <1>2 DEF Answer, Goto, Advance, TypeOK, RequestsOK, Steps, Codes
<1>5. /\ LocksOK'
      /\ \A i \in Identities, d \in Requests \ {r} : loginLock'[i] = d <=> loginLock[i] = d
      /\ \A a \in Accounts, d \in Requests : rowLock'[a] = d <=> rowLock[a] = d /\ d # r
      /\ \A f \in Emails : /\ \A d \in Requests \ {r} : claim'[f] = d <=> claim[f] = d
                           /\ claim'[f] \in {None, claim[f]}
  <2>1. \A a \in Accounts : rowLock[a] # r
    BY <1>1 DEF LoginsInv, LockedRows
  <2>2. CASE Release(r)
    BY <1>2, <2>1, <2>2, Released
  <2>3. CASE UNCHANGED locks
    BY <1>2, <2>1, <2>3 DEF locks, TypeOK, LocksOK
  <2>. QED
    BY <1>1, <2>2, <2>3 DEF Answer, Goto
<1>6. TypeOK'
  BY <1>1, <1>2, <1>3, <1>4, <1>5 DEF TypeOK, TablesOK, RequestsOK
<1>7. /\ UNCHANGED tables /\ Used' = Used
      /\ \A d \in Requests \ {r} : /\ LoggingIn(d)' = LoggingIn(d) /\ New(d)' = New(d)
                                   /\ Known(d)' = Known(d) /\ Current(d)' = Current(d)
      /\ ~LoggingIn(r)'
  BY <1>1, <1>3, <1>4 DEF Used, LoggingIn, New, Known, Current
<1>8. ControlInv'
  BY <1>3, <1>4, <1>7 DEF LoginsInv, ControlInv, Running, LoggingIn, New
<1>9. LookupHolds' /\ DrawnOnce'
  BY <1>3, <1>4, <1>5, <1>7
  DEF LoginsInv, LookupHolds, DrawnOnce, ControlInv, LoggingIn, Running
<1>10. LockedRows'
  <2>1. \A d \in Requests : (LoggingIn(d) \/ pc[d] = "commit") => user[d] \in Accounts
    BY DEF LoginsInv, ControlInv, Used
  <2>. QED
    BY <1>3, <1>4, <1>5, <1>7, <2>1 DEF LoginsInv, LockedRows, LoggingIn
<1>11. ClaimedEmails'
  <2>1. ASSUME NEW d \in Requests,
               \/ New(d)' /\ pc'[d] # "claim" /\ call'[d].e # None
               \/ pc'[d] = "resolved" /\ rowLock'[user'[d]] = d
        PROVE  call'[d].e \in Emails /\ claim'[call'[d].e] = d
    <3>1. d # r /\ LoggingIn(d) /\ call'[d] = call[d]
      BY <1>3, <1>4, <1>7, <2>1 DEF New, LoggingIn
    <3>2. user[d] \in Accounts
      BY <3>1 DEF LoginsInv, ControlInv
    <3>3. call[d].e \in Emails /\ claim[call[d].e] = d
      BY <1>4, <1>5, <1>7, <2>1, <3>1, <3>2 DEF LoginsInv, ClaimedEmails
    <3>. QED
      BY <1>5, <3>1, <3>3
  <2>. QED
    BY <1>5, <1>7, <2>1 DEF LoginsInv, ClaimedEmails, Taken
<1>12. EmailsAreUnique' /\ ConflictsAreAboutEmail'
  BY <1>3, <1>4, <1>7 DEF LoginsInv, EmailsAreUnique, ConflictsAreAboutEmail
<1>. QED
  BY <1>6, <1>8, <1>9, <1>10, <1>11, <1>12 DEF LoginsInv

-----------------------------------------------------------------------------
(* The statements within a transaction *)

(* A step that leaves the tables, and what the others have drawn and locked. *)
KeepsOthers(r) ==
    /\ UNCHANGED <<tables, call, code>>
    /\ user' \in [Requests -> Accounts \cup {None}]
    /\ \A d \in Requests \ {r} : user'[d] = user[d]
    /\ LocksOK'
    /\ \A i \in Identities, d \in Requests \ {r} : loginLock'[i] = d <=> loginLock[i] = d
    /\ \A a \in Accounts, d \in Requests \ {r} : rowLock'[a] = d <=> rowLock[a] = d
    /\ \A f \in Emails, d \in Requests \ {r} : claim'[f] = d <=> claim[f] = d
    /\ \A f \in Emails : claim'[f] # None => ~Taken(f)

(* It finds its account, or draws one, with its identity locked.             *)
HasAccount(r, s) ==
    /\ user'[r] \in Accounts
    /\ user'[r] \notin Used => \A d \in Requests \ {r} : user[d] # user'[r]
    /\ s \in {"fill", "commit"} => user'[r] \in Used
    /\ s = "identity" => user'[r] \notin Used
    /\ s # "commit" =>
          /\ loginLock'[call[r].id] = r
          /\ IF user'[r] \in Used THEN account[call[r].id] = user'[r] ELSE ~Known(r)

(* It locks the row, and claims the email, that it is about to write.        *)
HasLocks(r, s) ==
    /\ s \in {"fill", "claim"} => call[r].e # None
    /\ \A a \in Accounts : rowLock'[a] = r =>
          /\ user'[r] = a /\ a \in Used
          /\ \/ s \in {"claim", "resolved"} /\ email[a] = None
             \/ s = "commit" /\ version[a] = call[r].v
    /\ s = "commit" \/ (s = "claim" /\ user'[r] \in Used) => rowLock'[user'[r]] = r
    /\ \/ s \in {"identity", "resolved"} /\ user'[r] \notin Used /\ call[r].e # None
       \/ s = "resolved" /\ rowLock'[user'[r]] = r
       => call[r].e \in Emails /\ claim'[call[r].e] = r

(* A request that goes on, with what it has locked and looked up.            *)
LEMMA Continuing ==
    ASSUME LoginsInv, NEW r \in Requests, Running(r),
           NEW s \in {"fill", "claim", "identity", "resolved", "commit"},
           pc' = [pc EXCEPT ![r] = s], KeepsOthers(r), HasAccount(r, s), HasLocks(r, s)
    PROVE  LoginsInv'
<1>. USE IdentityAssumption DEF tables, KeepsOthers, HasAccount, HasLocks
<1>1. TypeOK /\ code[r] = "none" /\ call[r].id \in Identities
  BY DEF LoginsInv, ControlInv, Running
<1>2. /\ pc' \in [Requests -> Steps] /\ pc'[r] = s
      /\ \A d \in Requests \ {r} : pc'[d] = pc[d] /\ user'[d] = user[d]
  BY <1>1 DEF TypeOK, RequestsOK, Steps
<1>3. TypeOK'
  BY <1>1, <1>2 DEF TypeOK, TablesOK, RequestsOK
<1>4. /\ Used' = Used
      /\ \A d \in Requests : Known(d)' = Known(d)
      /\ \A d \in Requests \ {r} : /\ LoggingIn(d)' = LoggingIn(d) /\ New(d)' = New(d)
                                   /\ Current(d)' = Current(d)
      /\ LoggingIn(r)' <=> s # "commit"
      /\ New(r)' <=> s # "commit" /\ user'[r] \notin Used
      /\ Current(r)' <=> version[user'[r]] = call[r].v
  BY <1>2 DEF Used, LoggingIn, New, Known, Current
<1>5. ControlInv'
  BY <1>1, <1>2, <1>4 DEF LoginsInv, ControlInv, Running, LoggingIn, New
<1>6. LookupHolds'
  <2>1. \A d \in Requests : LoggingIn(d) => call[d].id \in Identities
    BY DEF LoginsInv, ControlInv, LoggingIn, Running
  <2>. QED
    BY <1>2, <1>4, <2>1 DEF LoginsInv, LookupHolds, New
<1>7. DrawnOnce'
  BY <1>2, <1>4 DEF LoginsInv, DrawnOnce
<1>8. LockedRows'
  <2>1. \A d \in Requests : (LoggingIn(d) \/ pc[d] = "commit") => user[d] \in Accounts
    BY DEF LoginsInv, ControlInv, Used
  <2>. QED
    BY <1>2, <1>4, <2>1 DEF LoginsInv, LockedRows, LoggingIn
<1>9. ClaimedEmails'
  <2>1. ASSUME NEW d \in Requests,
               \/ New(d)' /\ pc'[d] # "claim" /\ call[d].e # None
               \/ pc'[d] = "resolved" /\ rowLock'[user'[d]] = d
        PROVE  call[d].e \in Emails /\ claim'[call[d].e] = d
    <3>1. CASE d = r
      BY <1>2, <1>4, <2>1, <3>1
    <3>2. CASE d # r
      <4>1. LoggingIn(d) /\ user[d] \in Accounts
        BY <1>2, <1>4, <2>1, <3>2 DEF LoginsInv, ControlInv, LoggingIn, New
      <4>. QED
        BY <1>2, <1>4, <2>1, <3>2, <4>1 DEF LoginsInv, ClaimedEmails
    <3>. QED
      BY <3>1, <3>2
  <2>. QED
    BY <1>4, <2>1 DEF ClaimedEmails, Taken
<1>10. EmailsAreUnique' /\ ConflictsAreAboutEmail'
  BY <1>4 DEF LoginsInv, EmailsAreUnique, ConflictsAreAboutEmail
<1>. QED
  BY <1>3, <1>5, <1>6, <1>7, <1>8, <1>9, <1>10 DEF LoginsInv

LEMMA Lookups ==
    ASSUME LoginsInv, NEW r \in Requests, Lookup(r)
    PROVE  LoginsInv'
<1>. USE IdentityAssumption
<1>1. /\ pc[r] = "lookup" /\ loginLock[call[r].id] \in {None, r}
      /\ UNCHANGED <<tables, call>>
  BY Unblocked DEF Lookup
<1>2. /\ TypeOK /\ Running(r) /\ call[r] \in Calls /\ call[r].id \in Identities
      /\ call[r].e \in Emails \cup {None}
      /\ \A a \in Accounts : rowLock[a] # r
  BY <1>1 DEF LoginsInv, TypeOK, RequestsOK, ControlInv, LockedRows, Running, Calls
<1>3. CASE Refuses(r) /\ Answer(r, "forbidden")
  BY <1>1, <1>2, <1>3, Answering DEF Codes
<1>4. CASE NeedsLinking(r) /\ Answer(r, "conflict")
  <2>1. PICK a \in Used : email[a] # None /\ email[a] = call[r].e /\ account[call[r].id] # a
    BY <1>4 DEF NeedsLinking, Taken, Known, Used
  <2>. QED
    BY <1>1, <1>4, <2>1, Answering DEF Codes
<1>5. ASSUME Find(r) \/ InsertAccount(r),
             loginLock' = [loginLock EXCEPT ![call[r].id] = r], UNCHANGED <<rowLock, claim>>
      PROVE  LoginsInv'
  <2>1. PICK s \in {"fill", "claim", "identity", "resolved"} :
            pc' = [pc EXCEPT ![r] = s] /\ UNCHANGED code
            /\ (s \in {"fill", "claim"} <=> call[r].e # None)
            /\ (s = "fill" => Find(r)) /\ (s = "identity" => InsertAccount(r))
            /\ (s = "claim" => InsertAccount(r)) /\ (s = "resolved" => Find(r))
    BY <1>5 DEF Find, InsertAccount, Advance
  <2>2. /\ user' \in [Requests -> Accounts \cup {None}] /\ user'[r] \in Accounts
        /\ \A d \in Requests \ {r} : user'[d] = user[d]
        /\ IF Find(r) THEN user'[r] = account[call[r].id] /\ user'[r] \in Used
           ELSE user'[r] \notin Used /\ ~Known(r) /\ \A d \in Requests : user[d] # user'[r]
    BY <1>2, <1>5
    DEF Find, InsertAccount, Drawn, Known, LoginsInv, TypeOK, RequestsOK, DrawnOnce, Used
  <2>3. /\ LocksOK' /\ loginLock'[call[r].id] = r
        /\ \A i \in Identities, d \in Requests \ {r} : loginLock'[i] = d <=> loginLock[i] = d
    BY <1>1, <1>2, <1>5 DEF TypeOK, LocksOK, Holder
  <2>4. \A f \in Emails : claim'[f] # None => ~Taken(f)
    BY <1>5 DEF LoginsInv, ClaimedEmails
  <2>5. Find(r) => ~InsertAccount(r)
    BY DEF Find, InsertAccount
  <2>6. KeepsOthers(r)
    BY <1>1, <1>5, <2>1, <2>2, <2>3, <2>4 DEF KeepsOthers
  <2>7. HasAccount(r, s)
    BY <1>1, <1>2, <2>1, <2>2, <2>3, <2>5 DEF HasAccount, Find
  <2>8. HasLocks(r, s)
    BY <1>1, <1>2, <1>5, <2>1, <2>2, <2>5 DEF HasLocks
  <2>. QED
    BY <1>2, <2>1, <2>6, <2>7, <2>8, Continuing
<1>. QED
  BY <1>3, <1>4, <1>5 DEF Lookup

LEMMA Fills ==
    ASSUME LoginsInv, NEW r \in Requests, Fill(r)
    PROVE  LoginsInv'
<1>. USE IdentityAssumption
<1>1. /\ pc[r] = "fill" /\ UNCHANGED <<tables, call, code, user>>
      /\ email[user[r]] = None => rowLock[user[r]] \in {None, r}
  BY Unblocked DEF Fill, RowIsMatched, Goto, Advance
<1>2. /\ TypeOK /\ Running(r) /\ user[r] \in Used /\ call[r].e # None
      /\ account[call[r].id] = user[r] /\ loginLock[call[r].id] = r
      /\ \A a \in Accounts : rowLock[a] # r
  BY <1>1 DEF LoginsInv, ControlInv, LookupHolds, LockedRows, Running, LoggingIn, New
<1>3. /\ user \in [Requests -> Accounts \cup {None}] /\ user[r] \in Accounts
      /\ \A f \in Emails : claim[f] # None => ~Taken(f)
      /\ LocksOK
  BY <1>2 DEF LoginsInv, TypeOK, RequestsOK, ClaimedEmails, Used
<1>4. CASE email[user[r]] = None
  <2>1. /\ rowLock' = [rowLock EXCEPT ![user[r]] = r] /\ pc' = [pc EXCEPT ![r] = "claim"]
        /\ UNCHANGED <<loginLock, claim>>
    BY <1>4 DEF Fill, Advance
  <2>2. /\ LocksOK' /\ rowLock'[user[r]] = r
        /\ \A a \in Accounts : rowLock'[a] = r => a = user[r]
        /\ \A a \in Accounts, d \in Requests \ {r} : rowLock'[a] = d <=> rowLock[a] = d
    BY <1>1, <1>2, <1>3, <1>4, <2>1 DEF LocksOK, Holder
  <2>3. KeepsOthers(r)
    BY <1>1, <1>3, <2>1, <2>2 DEF KeepsOthers
  <2>4. HasAccount(r, "claim") /\ HasLocks(r, "claim")
    BY <1>1, <1>2, <1>3, <1>4, <2>1, <2>2 DEF HasAccount, HasLocks
  <2>. QED
    BY <1>2, <2>1, <2>3, <2>4, Continuing
<1>5. CASE email[user[r]] # None
  <2>1. pc' = [pc EXCEPT ![r] = "resolved"] /\ UNCHANGED locks
    BY <1>5 DEF Fill, Goto, Advance
  <2>2. LocksOK' /\ UNCHANGED <<rowLock, loginLock, claim>>
    BY <1>3, <2>1 DEF locks, LocksOK
  <2>3. KeepsOthers(r)
    BY <1>1, <1>3, <2>1, <2>2 DEF KeepsOthers
  <2>4. HasAccount(r, "resolved") /\ HasLocks(r, "resolved")
    BY <1>1, <1>2, <1>3, <2>1, <2>2 DEF HasAccount, HasLocks
  <2>. QED
    BY <1>2, <2>1, <2>3, <2>4, Continuing
<1>. QED
  BY <1>4, <1>5

LEMMA Claims ==
    ASSUME LoginsInv, NEW r \in Requests, Claim(r)
    PROVE  LoginsInv'
<1>. USE IdentityAssumption
<1>. DEFINE e == call[r].e
<1>1. pc[r] = "claim" /\ UNCHANGED <<tables, call>> /\ claim[e] \in {None, r}
  BY Unblocked DEF Claim
<1>2. /\ TypeOK /\ Running(r) /\ user[r] \in Accounts /\ e \in Emails
      /\ LoggingIn(r) /\ loginLock[call[r].id] = r
      /\ IF user[r] \in Used THEN account[call[r].id] = user[r] ELSE ~Known(r)
      /\ user[r] \in Used => rowLock[user[r]] = r
      /\ \A a \in Accounts : rowLock[a] = r => user[r] = a /\ a \in Used /\ email[a] = None
  BY <1>1 DEF LoginsInv, TypeOK, RequestsOK, Calls, ControlInv, LookupHolds, LockedRows,
              Running, LoggingIn, New
<1>3. CASE Taken(e)
  <2>1. PICK a \in Used : email[a] = e
    BY <1>3 DEF Taken
  <2>2. account[call[r].id] # a
    BY <1>2, <2>1 DEF Known, Used
  <2>. QED
    BY <1>1, <1>2, <1>3, <2>1, <2>2, Answering DEF Claim, Codes
<1>4. CASE ~Taken(e)
  <2>1. PICK s \in {"identity", "resolved"} :
            /\ pc' = [pc EXCEPT ![r] = s] /\ UNCHANGED <<code, user, loginLock, rowLock>>
            /\ s = "identity" <=> user[r] \notin Used
            /\ claim' = [claim EXCEPT ![e] = r]
    BY <1>4 DEF Claim, Advance
  <2>2. user \in [Requests -> Accounts \cup {None}]
        /\ \A d \in Requests \ {r} : user[d] = user[r] => user[r] \in Used
    BY <1>2 DEF TypeOK, RequestsOK, LoginsInv, DrawnOnce
  <2>3. /\ LocksOK' /\ claim'[e] = r
        /\ \A f \in Emails, d \in Requests \ {r} : claim'[f] = d <=> claim[f] = d
        /\ \A f \in Emails : claim'[f] # None => ~Taken(f)
    BY <1>1, <1>2, <1>4, <2>1 DEF LoginsInv, TypeOK, LocksOK, Holder, ClaimedEmails
  <2>4. KeepsOthers(r)
    BY <1>1, <2>1, <2>2, <2>3 DEF KeepsOthers
  <2>5. HasAccount(r, s) /\ HasLocks(r, s)
    BY <1>1, <1>2, <2>1, <2>2, <2>3 DEF HasAccount, HasLocks
  <2>. QED
    BY <1>2, <2>1, <2>4, <2>5, Continuing
<1>. QED
  BY <1>3, <1>4

(* The identity cannot have been inserted since it was looked up.            *)
LEMMA Insertions ==
    ASSUME LoginsInv, NEW r \in Requests, InsertIdentity(r)
    PROVE  LoginsInv' /\ ~Known(r)
<1>. USE IdentityAssumption
<1>1. pc[r] = "identity" /\ New(r) /\ LoggingIn(r) /\ Running(r)
  BY Unblocked DEF InsertIdentity, LoginsInv, ControlInv, Running, LoggingIn
<1>2. ~Known(r) /\ loginLock[call[r].id] = r /\ user[r] \in Accounts \ Used
  BY <1>1 DEF LoginsInv, LookupHolds, ControlInv, New
<1>3. /\ pc' = [pc EXCEPT ![r] = "resolved"] /\ UNCHANGED <<user, code, tables, call>>
      /\ UNCHANGED <<loginLock, rowLock, claim>>
  BY <1>2 DEF InsertIdentity, Goto, Advance, locks
<1>4. /\ LocksOK' /\ user \in [Requests -> Accounts \cup {None}]
      /\ \A d \in Requests \ {r} : user[d] # user[r]
      /\ \A a \in Accounts : rowLock[a] # r
      /\ call[r].e # None => call[r].e \in Emails /\ claim[call[r].e] = r
      /\ \A f \in Emails : claim[f] # None => ~Taken(f)
  BY <1>1, <1>2, <1>3
  DEF LoginsInv, TypeOK, RequestsOK, LocksOK, DrawnOnce, LockedRows, ClaimedEmails
<1>5. KeepsOthers(r)
  BY <1>3, <1>4 DEF KeepsOthers
<1>6. HasAccount(r, "resolved") /\ HasLocks(r, "resolved")
  BY <1>1, <1>2, <1>3, <1>4 DEF HasAccount, HasLocks
<1>. QED
  BY <1>1, <1>2, <1>3, <1>5, <1>6, Continuing

LEMMA Updates ==
    ASSUME LoginsInv, NEW r \in Requests, UpdateUser(r)
    PROVE  LoginsInv'
<1>. USE IdentityAssumption
<1>1. /\ pc[r] = "serve" /\ call[r].op = "updateMe" /\ UNCHANGED <<tables, call>>
      /\ Current(r) => rowLock[user[r]] \in {None, r}
  BY Unblocked DEF UpdateUser, RowIsMatched
<1>2. /\ TypeOK /\ Running(r) /\ user[r] \in Used /\ user[r] \in Accounts
      /\ \A a \in Accounts : rowLock[a] # r
  BY <1>1 DEF LoginsInv, ControlInv, LockedRows, Running, Used
<1>3. CASE ~Current(r)
  BY <1>1, <1>2, <1>3, Answering DEF UpdateUser, Codes
<1>4. CASE Current(r)
  <2>1. /\ rowLock' = [rowLock EXCEPT ![user[r]] = r] /\ pc' = [pc EXCEPT ![r] = "commit"]
        /\ UNCHANGED <<loginLock, claim, user, code>>
    BY <1>4 DEF UpdateUser, Advance
  <2>2. /\ LocksOK' /\ rowLock'[user[r]] = r
        /\ \A a \in Accounts : rowLock'[a] = r => a = user[r]
        /\ \A a \in Accounts, d \in Requests \ {r} : rowLock'[a] = d <=> rowLock[a] = d
    BY <1>1, <1>2, <1>4, <2>1 DEF TypeOK, LocksOK, Holder
  <2>3. KeepsOthers(r)
    BY <1>1, <1>2, <2>1, <2>2 DEF KeepsOthers, TypeOK, RequestsOK, LoginsInv, ClaimedEmails
  <2>4. HasAccount(r, "commit") /\ HasLocks(r, "commit")
    BY <1>1, <1>2, <1>4, <2>1, <2>2 DEF HasAccount, HasLocks, Current
  <2>. QED
    BY <1>2, <2>1, <2>3, <2>4, Continuing
<1>. QED
  BY <1>3, <1>4

LEMMA ReadsAndAborts ==
    ASSUME LoginsInv, NEW r \in Requests, GetUser(r) \/ Abort(r)
    PROVE  LoginsInv'
<1>1. CASE GetUser(r)
  <2>1. pc[r] = "serve" /\ user[r] \in Used
    BY <1>1 DEF GetUser, At, LoginsInv, ControlInv
  <2>. QED
    BY <1>1, <2>1, Answering DEF GetUser, Codes
<1>2. CASE Abort(r)
  BY <1>2, Answering DEF Abort, Running, Codes
<1>. QED
  BY <1>1, <1>2

-----------------------------------------------------------------------------
(* Commits *)

(* The account of a login, its email when it is stored, and its identity,    *)
(* appear at once: nobody else could have stored them meanwhile.             *)
LEMMA Resolving ==
    ASSUME LoginsInv, NEW r \in Requests, Resolve(r)
    PROVE  LoginsInv'
<1>. USE IdentityAssumption
<1>. DEFINE a == user[r]
            i == call[r].id
            e == call[r].e
            new == a \notin Used
            stores == new \/ rowLock[a] = r
<1>1. /\ pc[r] = "resolved"
      /\ account' = [account EXCEPT ![i] = a]
      /\ status' = [status EXCEPT ![a] = IF new THEN "active" ELSE @]
      /\ email' = [email EXCEPT ![a] = IF stores THEN e ELSE @]
      /\ version' = [version EXCEPT ![a] = IF stores THEN @ + 1 ELSE @]
      /\ pc' = [pc EXCEPT ![r] = "serve"] /\ UNCHANGED <<profile, call, user, code>>
      /\ Release(r)
  BY DEF Resolve, At, Advance
<1>2. TypeOK /\ LoggingIn(r) /\ Running(r)
  BY <1>1 DEF LoginsInv, LoggingIn, Running
<1>3. /\ a \in Accounts /\ i \in Identities /\ e \in Emails \cup {None}
      /\ loginLock[i] = r
      /\ IF new THEN account[i] = None ELSE account[i] = a
      /\ email[a] = None \/ ~stores
      /\ stores /\ e # None => e \in Emails /\ claim[e] = r /\ ~Taken(e)
  <2>1. a \in Accounts /\ i \in Identities /\ e \in Emails \cup {None}
    BY <1>2 DEF LoginsInv, ControlInv, TypeOK, RequestsOK, Calls
  <2>2. loginLock[i] = r /\ IF new THEN account[i] = None ELSE account[i] = a
    BY <1>2 DEF LoginsInv, LookupHolds, New, Known
  <2>3. email[a] = None \/ ~stores
    BY <1>1, <2>1 DEF LoginsInv, LockedRows, DrawnOnce
  <2>4. stores /\ e # None => e \in Emails /\ claim[e] = r
    BY <1>1, <1>2 DEF LoginsInv, ClaimedEmails, New
  <2>. QED
    BY <2>1, <2>2, <2>3, <2>4 DEF LoginsInv, ClaimedEmails
<1>. HIDE DEF a, i, e
<1>4. /\ Used' = Used \cup {a}
      /\ \A j \in Identities : account'[j] = IF j = i THEN a ELSE account[j]
      /\ \A b \in Accounts : /\ email'[b] = IF b = a /\ stores THEN e ELSE email[b]
                             /\ ~(b = a /\ stores) => version'[b] = version[b]
      /\ \A d \in Requests \ {r} : pc'[d] = pc[d]
      /\ pc'[r] = "serve" /\ pc' \in [Requests -> Steps]
  BY <1>1, <1>2, <1>3 DEF TypeOK, TablesOK, RequestsOK, Used, Steps
<1>5. TypeOK'
  BY <1>1, <1>2, <1>3, <1>4, Released DEF TypeOK, TablesOK, RequestsOK
<1>6. \A d \in Requests \ {r} :
         /\ LoggingIn(d)' <=> LoggingIn(d)
         /\ New(d)' <=> New(d)
         /\ user[d] \in Used' /\ (LoggingIn(d) \/ pc[d] = "commit") => user[d] \in Used
         /\ LoggingIn(d) => call[d].id \in Identities /\ call[d].id # i
  <2>1. \A d \in Requests \ {r} : user[d] = a /\ new => FALSE
    BY <1>3 DEF LoginsInv, DrawnOnce, a
  <2>2. \A d \in Requests \ {r} : LoggingIn(d) => call[d].id \in Identities /\ call[d].id # i
    BY <1>3 DEF LoginsInv, LookupHolds, ControlInv, LoggingIn, Running
  <2>. QED
    BY <1>1, <1>4, <2>1, <2>2 DEF LoggingIn, New
<1>7. ControlInv'
  BY <1>1, <1>2, <1>4, <1>6 DEF LoginsInv, ControlInv, Running, LoggingIn, New, a
<1>8. LookupHolds'
  <2>1. ~LoggingIn(r)'
    BY <1>4 DEF LoggingIn
  <2>2. \A d \in Requests \ {r} : LoggingIn(d) => loginLock'[call[d].id] = loginLock[call[d].id]
    BY <1>1, <1>2, <1>6, Released DEF LoginsInv, LookupHolds
  <2>. QED
    BY <1>1, <1>4, <1>6, <2>1, <2>2 DEF LoginsInv, LookupHolds, Known
<1>9. DrawnOnce'
  BY <1>1, <1>3, <1>4 DEF LoginsInv, DrawnOnce
<1>10. LockedRows'
  <2>1. ASSUME NEW b \in Accounts, NEW d \in Requests, rowLock'[b] = d
        PROVE  /\ user'[d] = b /\ b \in Used'
               /\ \/ pc'[d] \in {"claim", "resolved"} /\ email'[b] = None
                  \/ pc'[d] = "commit" /\ Current(d)'
    <3>1. rowLock[b] = d /\ d # r /\ b \in Used /\ user[d] = b
      BY <1>1, <1>2, <2>1, Released DEF LoginsInv, LockedRows
    <3>2. email'[b] = email[b] /\ version'[b] = version[b]
      BY <1>4, <3>1
    <3>. QED
      BY <1>1, <1>4, <3>1, <3>2 DEF LoginsInv, LockedRows, Current
  <2>2. ASSUME NEW d \in Requests, pc'[d] = "commit" \/ (pc'[d] = "claim" /\ ~New(d)')
        PROVE  rowLock'[user'[d]] = d
    <3>1. d # r /\ (pc[d] = "commit" \/ (pc[d] = "claim" /\ ~New(d)))
      BY <1>4, <1>6, <2>2
    <3>2. rowLock[user[d]] = d /\ user[d] \in Accounts
      BY <3>1 DEF LoginsInv, LockedRows, ControlInv, LoggingIn, Used
    <3>. QED
      BY <1>1, <1>2, <3>1, <3>2, Released
  <2>. QED
    BY <2>1, <2>2 DEF LockedRows
<1>11. ClaimedEmails'
  <2>1. ASSUME NEW d \in Requests,
               \/ New(d)' /\ pc'[d] # "claim" /\ call'[d].e # None
               \/ pc'[d] = "resolved" /\ rowLock'[user'[d]] = d
        PROVE  call'[d].e \in Emails /\ claim'[call'[d].e] = d
    <3>1. d # r /\ LoggingIn(d) /\ user[d] \in Accounts
      BY <1>1, <1>4, <1>6, <2>1 DEF New, LoggingIn, LoginsInv, ControlInv
    <3>2. call[d].e \in Emails /\ claim[call[d].e] = d
      BY <1>1, <1>2, <1>4, <1>6, <2>1, <3>1, Released DEF LoginsInv, ClaimedEmails
    <3>. QED
      BY <1>1, <1>2, <3>1, <3>2, Released
  <2>2. ASSUME NEW f \in Emails, claim'[f] # None
        PROVE  ~Taken(f)'
    <3>1. claim[f] # None /\ claim[f] # r
      BY <1>1, <1>2, <2>2, Released
    <3>2. ~Taken(f) /\ (stores /\ e # None => f # e)
      BY <1>3, <3>1 DEF LoginsInv, ClaimedEmails
    <3>3. ASSUME NEW b \in Used', email'[b] = f, f # None
          PROVE  FALSE
      <4>1. b \in Accounts /\ (b \in Used \/ (b = a /\ new))
        BY <1>3, <1>4, <3>3 DEF Used
      <4>. QED
        BY <1>4, <3>2, <3>3, <4>1 DEF Taken
    <3>. QED
      BY <3>3 DEF Taken
  <2>. QED
    BY <2>1, <2>2 DEF ClaimedEmails
<1>12. EmailsAreUnique'
  <2>1. ASSUME NEW b \in Used, email[b] # None
        PROVE  email'[b] = email[b] /\ ~(b = a /\ stores) /\ ~(stores /\ e = email[b])
    BY <1>3, <1>4, <2>1 DEF Used, Taken
  <2>2. \A b \in Used : b \in Accounts
    BY DEF Used
  <2>3. ASSUME NEW b \in Used' PROVE b \in Accounts /\ (b \in Used \/ (b = a /\ new))
    BY <1>3, <1>4, <2>2, <2>3
  <2>4. ASSUME NEW b \in Used', NEW c \in Used', email'[b] = email'[c], email'[b] # None
        PROVE  b = c
    <3>1. CASE b \in Used /\ email[b] # None /\ c \in Used /\ email[c] # None
      BY <2>1, <2>4, <3>1 DEF LoginsInv, EmailsAreUnique
    <3>2. /\ b \in Accounts /\ email'[b] = (IF b = a /\ stores THEN e ELSE email[b])
          /\ c \in Accounts /\ email'[c] = (IF c = a /\ stores THEN e ELSE email[c])
          /\ (b \in Used \/ (b = a /\ stores)) /\ (c \in Used \/ (c = a /\ stores))
      BY <1>4, <2>3, <2>4
    <3>. QED
      BY <2>1, <2>4, <3>1, <3>2
  <2>. QED
    BY <2>4 DEF EmailsAreUnique
<1>13. ConflictsAreAboutEmail'
  <2>1. ASSUME NEW d \in Requests, code'[d] = "conflict"
        PROVE  \E b \in Used' : /\ email'[b] # None /\ email'[b] = call'[d].e
                                /\ account'[call'[d].id] # b
    <3>1. PICK b \in Used : /\ email[b] # None /\ email[b] = call[d].e
                            /\ account[call[d].id] # b
      BY <1>1, <2>1 DEF LoginsInv, ConflictsAreAboutEmail
    <3>2. b \in Accounts /\ email'[b] = email[b] /\ b \in Used'
      BY <1>3, <1>4, <3>1 DEF Used
    <3>3. account'[call[d].id] # b
      BY <1>1, <1>2, <1>3, <3>1 DEF TypeOK, TablesOK
    <3>. QED
      BY <1>1, <3>1, <3>2, <3>3
  <2>. QED
    BY <2>1 DEF ConflictsAreAboutEmail
<1>. QED
  BY <1>5, <1>7, <1>8, <1>9, <1>10, <1>11, <1>12, <1>13 DEF LoginsInv

(* A profile update that commits.                                            *)
LEMMA Committing ==
    ASSUME LoginsInv, NEW r \in Requests, Commit(r)
    PROVE  LoginsInv'
<1>. USE IdentityAssumption
<1>. DEFINE a == user[r]
<1>1. /\ pc[r] = "commit"
      /\ profile' = [profile EXCEPT ![a] = r]
      /\ version' = [version EXCEPT ![a] = @ + 1]
      /\ pc' = [pc EXCEPT ![r] = "done"]
      /\ \E c \in {"ok", "internal"} : code' = [code EXCEPT ![r] = c]
      /\ user' \in [Requests -> Accounts \cup {None}] /\ user'[r] \in {a, None}
      /\ \A d \in Requests \ {r} : user'[d] = user[d]
      /\ UNCHANGED <<account, status, email, call>>
      /\ Release(r)
  BY DEF Commit, At, Answer, LoginsInv, TypeOK, RequestsOK
<1>2. TypeOK /\ a \in Used /\ a \in Accounts /\ rowLock[a] = r
  BY <1>1 DEF LoginsInv, ControlInv, LockedRows, Used
<1>. HIDE DEF a
<1>3. /\ pc' \in [Requests -> Steps] /\ pc'[r] = "done" /\ code'[r] \in {"ok", "internal"}
      /\ \A d \in Requests \ {r} : pc'[d] = pc[d] /\ code'[d] = code[d]
      /\ \A b \in Accounts \ {a} : version'[b] = version[b]
  BY <1>1, <1>2 DEF TypeOK, TablesOK, RequestsOK, Steps
<1>4. TypeOK'
  BY <1>1, <1>2, <1>3, Released DEF TypeOK, TablesOK, RequestsOK, Codes
<1>5. /\ Used' = Used
      /\ \A d \in Requests \ {r} : LoggingIn(d)' = LoggingIn(d) /\ New(d)' = New(d)
      /\ \A d \in Requests : Known(d)' = Known(d)
      /\ ~LoggingIn(r)'
  BY <1>1, <1>3 DEF Used, LoggingIn, New, Known
<1>6. ControlInv'
  BY <1>1, <1>3, <1>5 DEF LoginsInv, ControlInv, Running, LoggingIn, New
<1>7. LookupHolds'
  BY <1>1, <1>2, <1>3, <1>5, Released DEF LoginsInv, LookupHolds, ControlInv, LoggingIn, Running
<1>8. DrawnOnce'
  <2>1. ASSUME NEW c \in Requests, NEW d \in Requests,
               user'[c] = user'[d], user'[c] \notin Used \cup {None}
        PROVE  c = d
    <3>1. c # r /\ d # r
      BY <1>1, <1>2, <2>1
    <3>. QED
      BY <1>1, <2>1, <3>1 DEF LoginsInv, DrawnOnce
  <2>. QED
    BY <1>1, <1>5, <2>1 DEF LoginsInv, DrawnOnce
<1>9. LockedRows'
  <2>1. ASSUME NEW b \in Accounts, NEW d \in Requests, rowLock'[b] = d
        PROVE  /\ user'[d] = b /\ b \in Used'
               /\ \/ pc'[d] \in {"claim", "resolved"} /\ email'[b] = None
                  \/ pc'[d] = "commit" /\ Current(d)'
    <3>1. rowLock[b] = d /\ d # r /\ b \in Used /\ user[d] = b /\ b # a
      BY <1>1, <1>2, <2>1, Released DEF LoginsInv, LockedRows
    <3>. QED
      BY <1>1, <1>3, <1>5, <3>1 DEF LoginsInv, LockedRows, Current
  <2>2. ASSUME NEW d \in Requests, pc'[d] = "commit" \/ (pc'[d] = "claim" /\ ~New(d)')
        PROVE  rowLock'[user'[d]] = d
    <3>1. d # r /\ (pc[d] = "commit" \/ (pc[d] = "claim" /\ ~New(d)))
      BY <1>3, <1>5, <2>2
    <3>2. rowLock[user[d]] = d /\ user[d] \in Accounts
      BY <3>1 DEF LoginsInv, LockedRows, ControlInv, LoggingIn, Used
    <3>. QED
      BY <1>1, <1>2, <3>1, <3>2, Released
  <2>. QED
    BY <2>1, <2>2 DEF LockedRows
<1>10. ClaimedEmails'
  <2>1. ASSUME NEW d \in Requests,
               \/ New(d)' /\ pc'[d] # "claim" /\ call'[d].e # None
               \/ pc'[d] = "resolved" /\ rowLock'[user'[d]] = d
        PROVE  call'[d].e \in Emails /\ claim'[call'[d].e] = d
    <3>1. d # r /\ LoggingIn(d) /\ user[d] \in Accounts
      BY <1>1, <1>3, <1>5, <2>1 DEF New, LoggingIn, LoginsInv, ControlInv
    <3>2. call[d].e \in Emails /\ claim[call[d].e] = d
      BY <1>1, <1>2, <1>3, <1>5, <2>1, <3>1, Released DEF LoginsInv, ClaimedEmails
    <3>. QED
      BY <1>1, <1>2, <3>1, <3>2, Released
  <2>. QED
    BY <1>1, <1>2, <1>5, <2>1, Released DEF LoginsInv, ClaimedEmails, Taken
<1>11. EmailsAreUnique' /\ ConflictsAreAboutEmail'
  BY <1>1, <1>3, <1>5 DEF LoginsInv, EmailsAreUnique, ConflictsAreAboutEmail
<1>. QED
  BY <1>4, <1>6, <1>7, <1>8, <1>9, <1>10, <1>11 DEF LoginsInv

(* An account is disabled while nobody has its row locked.                   *)
LEMMA Disabling ==
    ASSUME LoginsInv, NEW a \in Accounts, Disable(a)
    PROVE  LoginsInv'
<1>. USE IdentityAssumption
<1>1. /\ status[a] = "active" /\ rowLock[a] = None
      /\ status' = [status EXCEPT ![a] = "disabled"]
      /\ version' = [version EXCEPT ![a] = @ + 1]
      /\ UNCHANGED <<account, email, profile, call, user, pc, code>>
      /\ UNCHANGED <<loginLock, rowLock, claim>>
  BY DEF Disable, locks
<1>2. TypeOK'
  BY <1>1 DEF LoginsInv, TypeOK, TablesOK, RequestsOK, LocksOK
<1>3. /\ Used' = Used
      /\ \A d \in Requests : /\ LoggingIn(d)' = LoggingIn(d) /\ New(d)' = New(d)
                             /\ Known(d)' = Known(d) /\ Running(d)' = Running(d)
      /\ \A b \in Accounts \ {a} : version'[b] = version[b]
      /\ \A d \in Requests : rowLock[a] # d
  <2>1. Used' = Used
    BY <1>1 DEF Used, LoginsInv, TypeOK, TablesOK
  <2>. QED
    BY <1>1, <2>1 DEF LoggingIn, New, Known, Running, LoginsInv, TypeOK, TablesOK
<1>4. ControlInv' /\ LookupHolds' /\ DrawnOnce'
  BY <1>1, <1>3 DEF LoginsInv, ControlInv, LookupHolds, DrawnOnce
<1>5. LockedRows'
  BY <1>1, <1>3 DEF LoginsInv, LockedRows, Current
<1>6. ClaimedEmails' /\ EmailsAreUnique' /\ ConflictsAreAboutEmail'
  BY <1>1, <1>3
  DEF LoginsInv, ClaimedEmails, Taken, EmailsAreUnique, ConflictsAreAboutEmail
<1>. QED
  BY <1>2, <1>4, <1>5, <1>6 DEF LoginsInv

-----------------------------------------------------------------------------
(* The invariant *)

LEMMA Initially == Init => LoginsInv
<1>. SUFFICES ASSUME Init PROVE LoginsInv
  OBVIOUS
<1>. USE IdentityAssumption
<1>1. TypeOK
  BY DEF Init, TypeOK, TablesOK, RequestsOK, LocksOK, Holder, Calls, NoCall, Call, Steps, Codes
<1>2. Used = {} /\ \A r \in Requests : ~LoggingIn(r) /\ ~Running(r)
  BY DEF Init, Used, LoggingIn, Running
<1>. QED
  BY <1>1, <1>2
  DEF Init, LoginsInv, ControlInv, LookupHolds, DrawnOnce, LockedRows, ClaimedEmails, Taken,
      EmailsAreUnique, ConflictsAreAboutEmail, New

LEMMA NoStep == LoginsInv /\ UNCHANGED vars => LoginsInv'
BY DEF vars, tables, locks, LoginsInv, TypeOK, TablesOK, RequestsOK, LocksOK, ControlInv,
       LookupHolds, DrawnOnce, LockedRows, ClaimedEmails, EmailsAreUnique,
       ConflictsAreAboutEmail, Used, LoggingIn, New, Known, Current, Running, Taken

(* What a login has looked up, locked and claimed holds until it commits.    *)
LEMMA LoginsInvariant == Spec => []LoginsInv
<1>1. ASSUME LoginsInv, Next PROVE LoginsInv'
  <2>1. ASSUME NEW r \in Requests, Arrive(r) \/ Step(r) \/ Abort(r) PROVE LoginsInv'
    BY <1>1, <2>1, Arriving, Lookups, Fills, Claims, Insertions, Resolving, Updates,
       ReadsAndAborts, Committing DEF Step
  <2>. QED
    BY <1>1, <2>1, Disabling DEF Next
<1>. QED
  BY <1>1, Initially, NoStep, PTL DEF Spec

(* The types of every reachable state.                                       *)
THEOREM IdentityTypeCorrect == Spec => []TypeOK
BY LoginsInvariant, PTL DEF LoginsInv

(* app.resolve_oidc_user: however many first logins and fills of an email    *)
(* race, one account gets it.                                                *)
THEOREM EmailsStayUnique == Spec => []EmailsAreUnique
BY LoginsInvariant, PTL DEF LoginsInv

(* identity_conflict and the unique violation it stands for: never between   *)
(* two logins of one identity, since the advisory lock lets one of them wait.*)
THEOREM ConflictsHaveAReason == Spec => []ConflictsAreAboutEmail
BY LoginsInvariant, PTL DEF LoginsInv

-----------------------------------------------------------------------------
(* What a step may never do *)

LEMMA TablesChange ==
    ASSUME Next
    PROVE  \/ UNCHANGED tables
           \/ \E r \in Requests : Resolve(r)
           \/ \E r \in Requests : Commit(r)
           \/ UNCHANGED <<account, email, profile>>
BY DEF Next, Arrive, Step, Abort, Lookup, Fill, Claim, InsertIdentity, GetUser, UpdateUser, Disable

(* A login stores an identity that is not known yet, and an email on an      *)
(* account that has none.                                                    *)
THEOREM AccountsStayLinked == Spec => NeverRelinked
<1>. DEFINE Kept == /\ \A i \in Identities : account[i] # None => account'[i] = account[i]
                    /\ \A a \in Accounts : email[a] # None => email'[a] = email[a]
<1>1. ASSUME LoginsInv, Next PROVE Kept
  <2>1. ASSUME NEW r \in Requests, Resolve(r) PROVE Kept
    <3>1. pc[r] = "resolved" /\ LoggingIn(r) /\ user[r] \in Accounts
      BY <1>1, <2>1 DEF Resolve, At, LoggingIn, LoginsInv, ControlInv
    <3>2. account[call[r].id] \in {None, user[r]}
      BY <1>1, <3>1 DEF LoginsInv, LookupHolds, New, Known
    <3>3. user[r] \notin Used \/ rowLock[user[r]] = r => email[user[r]] = None
      BY <1>1, <3>1 DEF LoginsInv, LockedRows, DrawnOnce
    <3>. QED
      BY <1>1, <2>1, <3>1, <3>2, <3>3 DEF Resolve, LoginsInv, TypeOK, TablesOK
  <2>. QED
    BY <1>1, <2>1, TablesChange DEF tables, Commit
<1>2. UNCHANGED vars => Kept
  BY DEF vars, tables
<1>. QED
  BY <1>1, <1>2, LoginsInvariant, PTL DEF Spec, NeverRelinked

(* UpdateUser: the version of the If-Match is that of the row when the       *)
(* update commits, since the row stays locked in between.                    *)
THEOREM ProfileUpdatesAreOptimistic == Spec => UpdatesNameTheirVersion
<1>. DEFINE Named == \A a \in Accounts : profile'[a] # profile[a] =>
                        version[a] = call[profile'[a]].v /\ version'[a] = version[a] + 1
<1>1. ASSUME LoginsInv, Next PROVE Named
  <2>1. ASSUME NEW r \in Requests, Commit(r) PROVE Named
    <3>1. /\ user[r] \in Accounts /\ rowLock[user[r]] = r /\ pc[r] = "commit"
      BY <1>1, <2>1 DEF Commit, At, LoginsInv, ControlInv, LockedRows, Used
    <3>2. version[user[r]] = call[r].v
      BY <1>1, <3>1 DEF LoginsInv, LockedRows, Current
    <3>. QED
      BY <1>1, <2>1, <3>1, <3>2 DEF Commit, LoginsInv, TypeOK, TablesOK
  <2>. QED
    BY <1>1, <2>1, TablesChange DEF tables, Resolve
<1>2. UNCHANGED vars => Named
  BY DEF vars, tables
<1>. QED
  BY <1>1, <1>2, LoginsInvariant, PTL DEF Spec, UpdatesNameTheirVersion

-----------------------------------------------------------------------------
(* A disabled account *)

IsDisabled(i) == account[i] # None /\ status[account[i]] = "disabled"

(* How far a request that arrives for identity i after that can get.         *)
Barred(i, r) ==
    /\ IsDisabled(i)
    /\ \/ pc[r] = "idle"
       \/ call[r].id = i => pc[r] = "lookup" \/ (pc[r] = "done" /\ code[r] # "ok")

(* No step of the API enables an account again, or gives its identity        *)
(* another one.                                                              *)
LEMMA StaysDisabled ==
    ASSUME LoginsInv, Next, NEW i \in Identities, IsDisabled(i)
    PROVE  IsDisabled(i)'
<1>1. /\ account \in [Identities -> Accounts \cup {None}]
      /\ status \in [Accounts -> {"unused", "active", "disabled"}]
      /\ account[i] \in Accounts /\ account[i] # None
  BY DEF IsDisabled, LoginsInv, TypeOK, TablesOK
<1>2. ASSUME NEW r \in Requests, Resolve(r) PROVE IsDisabled(i)'
  <2>1. pc[r] = "resolved" /\ LoggingIn(r) /\ user[r] \in Accounts
    BY <1>2 DEF Resolve, At, LoggingIn, LoginsInv, ControlInv
  <2>2. call[r].id = i => user[r] = account[i]
    BY <1>1, <2>1 DEF LoginsInv, LookupHolds, New, Known
  <2>3. user[r] \notin Used => user[r] # account[i]
    BY <1>1 DEF IsDisabled, Used
  <2>4. account'[i] = account[i]
    BY <1>1, <1>2, <2>2 DEF Resolve
  <2>5. status'[account[i]] = status[account[i]]
    BY <1>1, <1>2, <2>1, <2>3 DEF Resolve
  <2>. QED
    BY <2>4, <2>5 DEF IsDisabled
<1>3. ASSUME NEW a \in Accounts, Disable(a) PROVE IsDisabled(i)'
  BY <1>1, <1>3 DEF Disable, IsDisabled
<1>4. CASE UNCHANGED <<account, status>>
  BY <1>4 DEF IsDisabled
<1>5. \/ UNCHANGED <<account, status>>
      \/ \E r \in Requests : Resolve(r)
      \/ \E a \in Accounts : Disable(a)
  BY DEF Next, Arrive, Step, Abort, Lookup, Fill, Claim, InsertIdentity, GetUser, UpdateUser,
         Commit, tables
<1>. QED
  BY <1>2, <1>3, <1>4, <1>5

(* A request that has not looked the identity up finds it disabled when it   *)
(* does.                                                                     *)
LEMMA StaysBarred ==
    ASSUME LoginsInv, Next, NEW i \in Identities, NEW r \in Requests, Barred(i, r)
    PROVE  Barred(i, r)'
<1>1. IsDisabled(i)' /\ IsDisabled(i)
  BY StaysDisabled DEF Barred
<1>2. TypeOK
  BY DEF LoginsInv
<1>3. ASSUME Arrive(r) PROVE Barred(i, r)'
  <2>1. PICK op \in Operations, id \in Identities \cup {None}, e \in Emails \cup {None},
             v \in 0..MaxVersion :
          /\ call' = [call EXCEPT ![r] = Call(op, id, e, v)]
          /\ IF id = None THEN Answer(r, "unauthorized") ELSE Goto(r, "lookup")
    BY <1>3 DEF Arrive
  <2>2. pc'[r] = "lookup" \/ (pc'[r] = "done" /\ code'[r] = "unauthorized")
    BY <1>2, <2>1 DEF Answer, Goto, Advance, TypeOK, RequestsOK
  <2>. QED
    BY <1>1, <2>2 DEF Barred
<1>4. ASSUME Step(r) \/ Abort(r) PROVE Barred(i, r)'
  <2>1. call' = call /\ pc[r] \notin {"idle", "done"}
    BY <1>4 DEF Step, Abort, Running, Lookup, Fill, Claim, InsertIdentity, Resolve, GetUser,
                UpdateUser, Commit, At
  <2>2. CASE call[r].id # i
    BY <1>1, <2>1, <2>2 DEF Barred
  <2>3. CASE call[r].id = i
    <3>1. pc[r] = "lookup"
      BY <2>1, <2>3 DEF Barred
    <3>2. Lookup(r) \/ Abort(r)
      BY <1>4, <3>1 DEF Step, Fill, Claim, InsertIdentity, Resolve, GetUser, UpdateUser, Commit,
                        At
    <3>3. Refuses(r) /\ ~NeedsLinking(r)
      BY <1>1, <2>3 DEF IsDisabled, Refuses, NeedsLinking, Known
    <3>4. \E c \in {"forbidden", "internal"} : Answer(r, c)
      BY <3>2, <3>3 DEF Lookup, Abort
    <3>5. pc'[r] = "done" /\ code'[r] # "ok"
      BY <1>2, <3>4 DEF Answer, TypeOK, RequestsOK
    <3>. QED
      BY <1>1, <3>5 DEF Barred
  <2>. QED
    BY <2>2, <2>3
<1>5. ASSUME NEW d \in Requests \ {r}, Arrive(d) \/ Step(d) \/ Abort(d) PROVE Barred(i, r)'
  <2>1. pc'[r] = pc[r] /\ code'[r] = code[r] /\ call'[r] = call[r]
    BY <1>2, <1>5
    DEF Arrive, Step, Abort, Lookup, Find, InsertAccount, Fill, Claim, InsertIdentity, Resolve,
        GetUser, UpdateUser, Commit, Answer, Goto, Advance, TypeOK, RequestsOK
  <2>. QED
    BY <1>1, <2>1 DEF Barred
<1>6. ASSUME NEW a \in Accounts, Disable(a) PROVE Barred(i, r)'
  BY <1>1, <1>6 DEF Disable, Barred
<1>. QED
  BY <1>3, <1>4, <1>5, <1>6 DEF Next

(* Once an account is disabled, no request that arrives is served for it:    *)
(* resolve_oidc_user looks at the status in every login, and nothing makes   *)
(* the account active again.                                                 *)
THEOREM DisabledStaysOut == Spec => DisabledIsRefused
<1>1. ASSUME NEW i \in Identities, NEW r \in Requests
      PROVE  Spec => [](/\ account[i] # None /\ status[account[i]] = "disabled"
                        /\ pc[r] = "idle"
                        => [](call[r].id = i => code[r] # "ok"))
  <2>1. account[i] # None /\ status[account[i]] = "disabled" /\ pc[r] = "idle" => Barred(i, r)
    BY DEF Barred, IsDisabled
  <2>2. LoginsInv /\ Barred(i, r) => (call[r].id = i => code[r] # "ok")
    BY DEF LoginsInv, ControlInv, Barred
  <2>3. LoginsInv /\ Barred(i, r) /\ [Next]_vars => Barred(i, r)'
    BY StaysBarred DEF vars, tables, Barred, IsDisabled
  <2>. QED
    BY <2>1, <2>2, <2>3, LoginsInvariant, PTL DEF Spec
<1>. QED
  BY <1>1 DEF DisabledIsRefused

-----------------------------------------------------------------------------
(* Deadlocks *)

(* Only one request steps at a time: the locks of the others are as before,  *)
(* and its own must be as the invariant says.                                *)
LEMMA HoldersKept ==
    ASSUME HoldersInv, NEW r \in Requests,
           \A d \in Requests \ {r} : call'[d] = call[d] /\ pc'[d] = pc[d],
           \A d \in Requests \ {r}, i \in Identities : loginLock'[i] = d => loginLock[i] = d,
           \A d \in Requests \ {r}, e \in Emails : claim'[e] = d => claim[e] = d,
           \A i \in Identities : loginLock'[i] = r =>
               pc'[r] \in {"fill", "claim", "identity", "resolved"} /\ call'[r].id = i,
           \A e \in Emails : claim'[e] = r => pc'[r] \in {"identity", "resolved"}
    PROVE  HoldersInv'
  BY DEF HoldersInv, LoggingIn

LEMMA HoldersStep == LoginsInv /\ HoldersInv /\ [Next]_vars => HoldersInv'
<1>. SUFFICES ASSUME LoginsInv, HoldersInv, [Next]_vars PROVE HoldersInv'
  OBVIOUS
<1>1. TypeOK
  BY DEF LoginsInv
<1>2. ASSUME NEW r \in Requests, Release(r), \A d \in Requests \ {r} : call'[d] = call[d],
             NEW s, pc' = [pc EXCEPT ![r] = s]
      PROVE  HoldersInv'
  <2>1. \A d \in Requests \ {r} : call'[d] = call[d] /\ pc'[d] = pc[d]
    BY <1>1, <1>2 DEF TypeOK, RequestsOK
  <2>2. /\ \A i \in Identities, d \in Requests :
              loginLock'[i] = d => loginLock[i] = d /\ d # r
        /\ \A e \in Emails, d \in Requests : claim'[e] = d => claim[e] = d /\ d # r
    BY <1>1, <1>2, Released
  <2>. QED
    BY <2>1, <2>2, HoldersKept
<1>3. ASSUME NEW r \in Requests, Arrive(r) PROVE HoldersInv'
  <2>1. /\ pc[r] = "idle" /\ \E c : call' = [call EXCEPT ![r] = c]
        /\ \/ Release(r) /\ pc' = [pc EXCEPT ![r] = "done"]
           \/ UNCHANGED <<loginLock, claim>> /\ pc' = [pc EXCEPT ![r] = "lookup"]
    BY <1>3 DEF Arrive, Answer, Goto, Advance, locks
  <2>2. \A d \in Requests \ {r} : call'[d] = call[d]
    BY <1>1, <2>1 DEF TypeOK, RequestsOK
  <2>3. CASE UNCHANGED <<loginLock, claim>> /\ pc' = [pc EXCEPT ![r] = "lookup"]
    <3>1. \A d \in Requests \ {r} : call'[d] = call[d] /\ pc'[d] = pc[d]
      BY <1>1, <2>2, <2>3 DEF TypeOK, RequestsOK
    <3>2. /\ \A i \in Identities : loginLock'[i] # r
          /\ \A e \in Emails : claim'[e] # r
      BY <2>1, <2>3 DEF HoldersInv, LoggingIn
    <3>. QED
      BY <2>3, <3>1, <3>2, HoldersKept
  <2>. QED
    BY <1>2, <2>1, <2>2, <2>3
<1>4. ASSUME NEW r \in Requests, Step(r) \/ Abort(r) PROVE HoldersInv'
  <2>1. call' = call
    BY <1>4 DEF Step, Abort, Lookup, Fill, Claim, InsertIdentity, Resolve, GetUser, UpdateUser,
                Commit
  <2>2. CASE Release(r) /\ \E s : pc' = [pc EXCEPT ![r] = s]
    BY <1>2, <2>1, <2>2
  <2>3. ASSUME NEW s \in {"fill", "claim", "identity", "resolved"},
               pc' = [pc EXCEPT ![r] = s],
               \/ loginLock' = loginLock /\ pc[r] \in {"fill", "claim", "identity"}
               \/ loginLock' = [loginLock EXCEPT ![call[r].id] = r] /\ pc[r] = "lookup",
               \/ claim' = claim /\ pc[r] # "resolved"
                     /\ (pc[r] = "identity" => s = "resolved")
               \/ claim' = [claim EXCEPT ![call[r].e] = r] /\ s \in {"identity", "resolved"}
        PROVE  HoldersInv'
    <3>1. \A d \in Requests \ {r} : call'[d] = call[d] /\ pc'[d] = pc[d]
      BY <1>1, <2>1, <2>3 DEF TypeOK, RequestsOK
    <3>2. /\ \A d \in Requests \ {r}, i \in Identities :
                loginLock'[i] = d => loginLock[i] = d
          /\ \A d \in Requests \ {r}, e \in Emails : claim'[e] = d => claim[e] = d
      BY <1>1, <2>3 DEF TypeOK, LocksOK
    <3>3. pc'[r] = s
      BY <1>1, <2>3 DEF TypeOK, RequestsOK
    <3>4. ASSUME NEW i \in Identities, loginLock'[i] = r PROVE call'[r].id = i
      BY <1>1, <2>1, <2>3, <3>4 DEF HoldersInv, TypeOK, LocksOK
    <3>5. ASSUME NEW e \in Emails, claim'[e] = r PROVE s \in {"identity", "resolved"}
      BY <1>1, <2>3, <3>5 DEF HoldersInv, TypeOK, LocksOK
    <3>. QED
      BY <3>1, <3>2, <3>3, <3>4, <3>5, HoldersKept
  <2>4. ASSUME pc[r] = "serve", pc' = [pc EXCEPT ![r] = "commit"],
               UNCHANGED <<loginLock, claim>>
        PROVE  HoldersInv'
    <3>1. \A d \in Requests \ {r} : call'[d] = call[d] /\ pc'[d] = pc[d]
      BY <1>1, <2>1, <2>4 DEF TypeOK, RequestsOK
    <3>2. /\ \A i \in Identities : loginLock'[i] # r
          /\ \A e \in Emails : claim'[e] # r
      BY <2>4 DEF HoldersInv, LoggingIn
    <3>. QED
      BY <2>4, <3>1, <3>2, HoldersKept
  <2>5. CASE Lookup(r)
    <3>1. \/ Release(r) /\ \E s : pc' = [pc EXCEPT ![r] = s]
          \/ \E s \in {"fill", "claim", "identity", "resolved"} :
                /\ pc[r] = "lookup" /\ pc' = [pc EXCEPT ![r] = s]
                /\ loginLock' = [loginLock EXCEPT ![call[r].id] = r] /\ claim' = claim
      BY <2>5 DEF Lookup, Find, InsertAccount, Answer, Advance, At
    <3>. QED
      BY <2>2, <2>3, <3>1
  <2>6. CASE Fill(r) \/ Claim(r) \/ InsertIdentity(r)
    <3>1. \/ Release(r) /\ \E s : pc' = [pc EXCEPT ![r] = s]
          \/ \E s \in {"claim", "identity", "resolved"} :
                /\ pc' = [pc EXCEPT ![r] = s] /\ loginLock' = loginLock
                /\ pc[r] \in {"fill", "claim", "identity"}
                /\ \/ claim' = claim /\ (pc[r] = "identity" => s = "resolved")
                   \/ /\ claim' = [claim EXCEPT ![call[r].e] = r]
                      /\ s \in {"identity", "resolved"}
      BY <2>6 DEF Fill, Claim, InsertIdentity, Answer, Goto, Advance, At, locks
    <3>. QED
      BY <2>2, <2>3, <3>1
  <2>7. CASE UpdateUser(r)
    BY <2>2, <2>4, <2>7 DEF UpdateUser, Answer, Advance, At
  <2>8. CASE Resolve(r) \/ GetUser(r) \/ Commit(r) \/ Abort(r)
    BY <2>2, <2>8 DEF Resolve, GetUser, Commit, Abort, Answer, Advance
  <2>. QED
    BY <1>4, <2>5, <2>6, <2>7, <2>8 DEF Step
<1>5. CASE UNCHANGED <<call, pc, locks>>
  BY <1>5 DEF HoldersInv, LoggingIn, locks
<1>. QED
  BY <1>3, <1>4, <1>5 DEF Next, Disable, vars

(* How far a request has come in the order of the locks: its identity, the   *)
(* row of its account, its email, the entry for the identity.                *)
Rank(r) ==
    IF pc[r] = "lookup" THEN 0
    ELSE IF pc[r] \in {"fill", "serve"} THEN 1
    ELSE IF pc[r] = "claim" THEN 2
    ELSE IF pc[r] = "identity" THEN 3 ELSE 4

LEMMA WaitingGoesUp ==
    ASSUME LoginsInv, HoldersInv, NEW r \in Requests, NEW d \in Requests, Waits(r, d)
    PROVE  Rank(r) < Rank(d)
<1>1. CASE pc[r] = "lookup" /\ d \in Others(r, {loginLock[call[r].id]})
  <2>1. call[r].id \in Identities /\ loginLock[call[r].id] = d
    BY <1>1 DEF LoginsInv, ControlInv, Running, Others
  <2>2. LoggingIn(d)
    BY <2>1 DEF HoldersInv
  <2>. QED
    BY <1>1, <2>2 DEF Rank, LoggingIn
<1>2. CASE pc[r] = "claim" /\ d \in EmailBlockers(r, call[r].e)
  <2>1. call[r].e \in Emails
    BY <1>2 DEF LoginsInv, ControlInv, TypeOK, RequestsOK, Calls
  <2>2. CASE claim[call[r].e] = d
    BY <1>2, <2>1, <2>2 DEF HoldersInv, Rank
  <2>3. CASE \E b \in Used : email[b] = call[r].e /\ rowLock[b] = d
    <3>1. PICK b \in Accounts : email[b] # None /\ rowLock[b] = d
      BY <2>1, <2>3, IdentityAssumption DEF Used
    <3>2. pc[d] = "commit"
      BY <3>1 DEF LoginsInv, LockedRows
    <3>. QED
      BY <1>2, <3>2 DEF Rank
  <2>. QED
    BY <1>2, <2>2, <2>3 DEF EmailBlockers, Others
<1>3. CASE pc[r] = "identity" /\ InsertsIdentity(d, call[r].id)
  BY <1>3 DEF InsertsIdentity, Rank
<1>4. CASE RowIsMatched(r) /\ d \in Others(r, {rowLock[user[r]]})
  <2>1. pc[r] \in {"fill", "serve"} /\ rowLock[user[r]] = d
    BY <1>4 DEF RowIsMatched, Others
  <2>2. user[r] \in Accounts
    BY <2>1 DEF LoginsInv, ControlInv, LoggingIn, Used
  <2>3. pc[d] \in {"claim", "resolved", "commit"}
    BY <2>1, <2>2 DEF LoginsInv, LockedRows
  <2>. QED
    BY <2>1, <2>3 DEF Rank
<1>. QED
  BY <1>1, <1>2, <1>3, <1>4 DEF Waits

(* Whatever logins, updates and disablings interleave, what a request has    *)
(* looked up, locked and claimed holds until its transaction ends.           *)
THEOREM IdentityInvariant == Spec => []IdentityInv
<1>1. Init => HoldersInv
  BY IdentityAssumption DEF Init, HoldersInv
<1>. QED
  BY <1>1, HoldersStep, LoginsInvariant, PTL DEF Spec, IdentityInv

(* The request that has come furthest waits for no other, for any number of  *)
(* logins and updates: EveryRequestIsAnswered needs no deadlock detection.   *)
THEOREM LocksAreOrdered == Spec => []NobodyDeadlocks
<1>1. IdentityInv => NobodyDeadlocks
  <2>. SUFFICES ASSUME LoginsInv, HoldersInv, NEW S \in SUBSET Requests, S # {},
                       \A r \in S : \E d \in S : Waits(r, d)
                PROVE  FALSE
    BY DEF NobodyDeadlocks, IdentityInv
  <2>1. \A r \in Requests : Rank(r) \in {0, 1, 2, 3, 4}
    BY DEF Rank
  <2>2. \A r \in S : \E d \in S : Rank(r) < Rank(d)
    BY WaitingGoesUp
  <2>. HIDE DEF Rank
  <2>3. \A r \in S : Rank(r) # 4
    BY <2>1, <2>2
  <2>4. \A r \in S : Rank(r) # 3
    BY <2>1, <2>2, <2>3
  <2>5. \A r \in S : Rank(r) # 2
    BY <2>1, <2>2, <2>3, <2>4
  <2>6. \A r \in S : Rank(r) # 1
    BY <2>1, <2>2, <2>3, <2>4, <2>5
  <2>. QED
    BY <2>1, <2>2, <2>3, <2>4, <2>5, <2>6
<1>. QED
  BY <1>1, IdentityInvariant, PTL

=============================================================================
