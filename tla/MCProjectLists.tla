---------------------------- MODULE MCProjectLists ----------------------------
(* A small instance of ProjectLists. *)
EXTENDS ProjectListsProperties

=============================================================================
