-------------------------- MODULE PagedListContract --------------------------
(***************************************************************************)
(* What a reader who follows the cursors of a list to its end is promised,  *)
(* while the list changes under it: no row twice, no row that is not there  *)
(* when its page is cut, and at the end every row that was there at every   *)
(* page.                                                                   *)
(***************************************************************************)
CONSTANT Rows

VARIABLES
    visible,    \* the rows that the list has for the reader now
    page,       \* the rows of the last answer
    listed,     \* those of every answer
    promised,   \* the rows that have been visible since the first page
    state       \* "new", "open", "ended" or "refused"

contractVars == <<visible, page, listed, promised, state>>

ContractInit ==
    /\ visible \in SUBSET Rows
    /\ page = {} /\ listed = {} /\ promised = {}
    /\ state = "new"

(* Writers, and the passing of time, change what is visible.                 *)
Change ==
    /\ visible' \in SUBSET Rows
    /\ promised' = promised \cap visible'
    /\ UNCHANGED <<page, listed, state>>

Deliver ==
    /\ state \in {"new", "open"}
    /\ page' \in SUBSET (visible \ listed)
    /\ listed' = listed \cup page'
    /\ promised' = IF state = "new" THEN visible ELSE promised
    /\ \/ state' = "open" /\ page' # {}
       \/ state' = "ended" /\ promised' \subseteq listed'
    /\ UNCHANGED visible

Refuse ==
    /\ state \in {"new", "open"}
    /\ state' = "refused"
    /\ UNCHANGED <<visible, page, listed, promised>>

StartOver ==
    /\ state' = "new"
    /\ page' = {} /\ listed' = {} /\ promised' = {}
    /\ UNCHANGED visible

ContractNext == Change \/ Deliver \/ Refuse \/ StartOver

ContractSpec == ContractInit /\ [][ContractNext]_contractVars

=============================================================================
