-------------------------- MODULE KeysetPagesProofs --------------------------
(***************************************************************************)
(* What a page is, for every list that is cut by a cursor: the lemmas that  *)
(* the proofs of the tenancy API's and of the telemetry API's lists share.  *)
(***************************************************************************)
EXTENDS KeysetPages, TLAPS

(* Rows that their time and id tell apart.                                   *)
IsKeyed(S) ==
    /\ \A r \in S : r.id \in Nat /\ r.at \in Nat
    /\ \A r, q \in S : r.id = q.id /\ r.at = q.at => r = q

(* Follows is a strict total order on rows.                                  *)
LEMMA FollowsIsAnOrder ==
    ASSUME NEW ascending \in BOOLEAN, NEW S, IsKeyed(S),
           NEW a \in S, NEW b \in S, NEW c \in S
    PROVE  /\ ~ Follows(ascending, a, a)
           /\ a = b \/ Follows(ascending, a, b) \/ Follows(ascending, b, a)
           /\ Follows(ascending, a, b) => ~ Follows(ascending, b, a)
           /\ Follows(ascending, a, b) /\ Follows(ascending, b, c)
                => Follows(ascending, a, c)
  BY DEF IsKeyed, Follows, Less

(* A page is cut from the rows at its cursor: up to it everything is in the  *)
(* page, and without a cursor everything is.                                 *)
LEMMA PageFacts ==
    ASSUME NEW ascending \in BOOLEAN, NEW matching, IsKeyed(matching), NEW limit,
           NEW p \in PagesOf(ascending, matching, limit)
    PROVE  /\ p.items \subseteq matching
           /\ p.next \subseteq p.items
           /\ \A c, d \in p.next : c = d
           /\ p.next = {} => p.items = matching
           /\ \A c \in p.next :
                /\ \A r \in p.items : r = c \/ Follows(ascending, c, r)
                /\ \A r \in matching \ p.items : Follows(ascending, r, c)
  <1>1. CASE Cardinality(matching) <= limit
    BY <1>1 DEF PagesOf
  <1>2. CASE ~ (Cardinality(matching) <= limit)
    <2>1. PICK last \in matching :
             p = [items |-> Before(ascending, matching, last) \cup {last}, next |-> {last}]
      BY <1>2 DEF PagesOf
    <2>2. /\ p.items = Before(ascending, matching, last) \cup {last}
          /\ p.next = {last}
      BY <2>1
    <2>3. \A r \in p.items : r \in matching /\ (r = last \/ Follows(ascending, last, r))
      BY <2>2 DEF Before
    <2>4. ASSUME NEW r \in matching \ p.items PROVE Follows(ascending, r, last)
      <3>1. r # last /\ ~ Follows(ascending, last, r)
        BY <2>2, <2>4 DEF Before
      <3>2. QED
        BY <3>1, FollowsIsAnOrder
    <2>5. QED
      BY <2>2, <2>3, <2>4
  <1>3. QED
    BY <1>1, <1>2

(* The rows of the answers so far are those up to the cursor, and what is    *)
(* promised is among them or after it.                                       *)
ReadUpTo(ascending, listed, promised, cursor) ==
    \A c \in cursor :
      /\ \A r \in listed : r = c \/ Follows(ascending, c, r)
      /\ \A r \in promised : r \in listed \/ Follows(ascending, r, c)

ComeAfter(ascending, items, listed) ==
    \A new \in items, old \in listed : Follows(ascending, new, old)

(* What is promised once the page after the cursor is cut.                   *)
Promise(visible, promised, cursor) == IF cursor = {} THEN visible ELSE promised

(* A reader between two pages.                                               *)
IsReader(ascending, rows, visible, listed, promised, cursor) ==
    /\ ascending \in BOOLEAN
    /\ IsKeyed(rows)
    /\ visible \subseteq rows /\ listed \subseteq rows /\ cursor \subseteq rows
    /\ promised \subseteq visible
    /\ cursor = {} => listed = {}
    /\ ReadUpTo(ascending, listed, promised, cursor)

(* Its next page: the items are new, come after all the others, and leave    *)
(* out nothing that is promised up to the next cursor.                       *)
IsNextPage(ascending, visible, listed, promised, cursor, p) ==
    /\ p.items \subseteq visible \ listed
    /\ p.next \subseteq p.items /\ \A c, d \in p.next : c = d
    /\ Promise(visible, promised, cursor) \subseteq visible
    /\ p.next = {} => Promise(visible, promised, cursor) \subseteq listed \cup p.items
    /\ ReadUpTo(ascending, listed \cup p.items, Promise(visible, promised, cursor), p.next)
    /\ ComeAfter(ascending, p.items, listed)

(* PagesOf cuts the next page.                                               *)
LEMMA NextPage ==
    ASSUME NEW ascending, NEW rows, NEW visible, NEW listed, NEW promised, NEW cursor,
           NEW limit, IsReader(ascending, rows, visible, listed, promised, cursor),
           NEW p \in PagesOf(ascending, AfterCursor(ascending, visible, cursor), limit)
    PROVE  IsNextPage(ascending, visible, listed, promised, cursor, p)
  <1> USE DEF IsReader
  <1> DEFINE promised2 == Promise(visible, promised, cursor)
         matches == AfterCursor(ascending, visible, cursor)
  <1>1. matches \subseteq visible /\ matches \subseteq rows /\ IsKeyed(matches)
    BY DEF AfterCursor, IsKeyed
  <1>2. /\ p.items \subseteq matches
        /\ p.next \subseteq p.items
        /\ \A c, d \in p.next : c = d
        /\ p.next = {} => p.items = matches
        /\ \A c \in p.next :
             /\ \A r \in p.items : r = c \/ Follows(ascending, c, r)
             /\ \A r \in matches \ p.items : Follows(ascending, r, c)
    <2> HIDE DEF matches
    <2>1. p \in PagesOf(ascending, matches, limit)
      BY DEF matches
    <2>2. QED
      BY <2>1, <1>1, PageFacts
  <1>3. ASSUME NEW new \in matches, NEW old \in listed PROVE Follows(ascending, new, old)
    <2>1. PICK c \in cursor : TRUE
      OBVIOUS
    <2>2. Follows(ascending, new, c)
      BY <2>1 DEF AfterCursor
    <2>3. old = c \/ Follows(ascending, c, old)
      BY <2>1 DEF ReadUpTo
    <2>4. new \in rows /\ old \in rows /\ c \in rows
      BY <1>1, <2>1
    <2>5. QED
      BY <2>2, <2>3, <2>4, FollowsIsAnOrder
  <1>4. ASSUME NEW r \in promised2, r \notin listed PROVE r \in matches
    BY <1>4 DEF AfterCursor, ReadUpTo, Promise
  <1>5. ASSUME NEW r \in p.items, r \in listed PROVE FALSE
    <2>1. r \in rows /\ Follows(ascending, r, r)
      BY <1>1, <1>2, <1>3, <1>5
    <2>2. QED
      BY <2>1, FollowsIsAnOrder
  <1>6. promised2 \subseteq visible
    BY DEF Promise
  <1> HIDE DEF matches, promised2
  <1>7. ASSUME NEW c \in p.next
        PROVE  /\ \A r \in listed \cup p.items : r = c \/ Follows(ascending, c, r)
               /\ \A r \in promised2 : r \in listed \cup p.items \/ Follows(ascending, r, c)
    <2>1. \A r \in listed : Follows(ascending, c, r)
      BY <1>2, <1>3
    <2>2. QED
      BY <2>1, <1>2, <1>4
  <1>8. p.next = {} => promised2 \subseteq listed \cup p.items
    BY <1>2, <1>4
  <1>9. QED
    BY <1>1, <1>2, <1>3, <1>5, <1>6, <1>7, <1>8 DEF ReadUpTo, ComeAfter, promised2, IsNextPage

=============================================================================
