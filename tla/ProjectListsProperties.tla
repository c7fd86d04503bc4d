----------------------- MODULE ProjectListsProperties -----------------------
(* What the lists of the tenancy API promise to a client that follows them.  *)
EXTENDS ProjectLists

(* Every variable has the values that the code can give it.                  *)
TypeOK ==
    /\ list \in AllLists
    /\ now \in 0..MaxTime
    /\ rows \in SUBSET Row /\ open \in SUBSET Row /\ hidden \in SUBSET rows
    /\ drawn \in SUBSET Ids
    /\ access \in BOOLEAN
    /\ pc \in {"ask", "checked", "done", "refused"}
    /\ cursor \in SUBSET Row /\ \A c, d \in cursor : c = d
    /\ page \in SUBSET Row /\ listed \in SUBSET Row /\ promised \in SUBSET Row

(* The rows listed so far are those up to the cursor, and a row promised but *)
(* not listed yet is after it: a client between two pages has lost nothing,  *)
(* whatever was inserted, deleted or hidden since, the cursor's own row      *)
(* included.                                                                 *)
ReadUpToCursor ==
    \A c \in cursor :
      /\ \A r \in listed : r = c \/ Follows(Ascending, c, r)
      /\ \A r \in promised : r \in listed \/ Follows(Ascending, r, c)

(* A client that was answered without next_cursor has every row that was     *)
(* there at each of its pages.                                               *)
EndIsComplete == pc = "done" => promised \subseteq listed

(* Nothing is kept for a client that has not been answered.                  *)
FreshStart ==
    /\ pc \in {"ask", "checked"} /\ cursor = {} => page = {} /\ listed = {} /\ promised = {}
    /\ pc = "done" => cursor = {}

(* What is promised is still there.                                          *)
PromisedIsVisible == promised \subseteq Visible

ListsInv ==
    TypeOK /\ ReadUpToCursor /\ EndIsComplete /\ FreshStart /\ PromisedIsVisible

(* A page comes after every row of the pages before it: rows that commit     *)
(* with an older time, ties of the time and a member that joins again never  *)
(* bring a row back.                                                         *)
PagesAreOrdered ==
    [][ \A new \in listed' \ listed, old \in listed :
          Follows(Ascending, new, old) ]_vars

(* A client whose access ends between the access check and the SELECT is     *)
(* shown no row, although its check passed: the SELECT's own policies hold.  *)
NoRowWithoutAccess ==
    [][ listed' \ listed # {} => list = "projects" \/ access ]_vars

(* The promise of a paged list, kept by each list: what the client sees is a *)
(* list that changes between answers.                                        *)
ContractState ==
    CASE pc = "done" -> "ended"
      [] pc = "refused" -> "refused"
      [] OTHER -> IF cursor = {} THEN "new" ELSE "open"

Contract == INSTANCE PagedListContract WITH
    Rows <- Row, visible <- Visible, page <- page, listed <- listed,
    promised <- promised, state <- ContractState

ImplementsContract == Contract!ContractSpec

=============================================================================
