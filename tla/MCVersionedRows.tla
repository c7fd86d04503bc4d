--------------------------- MODULE MCVersionedRows ---------------------------
(* Small instances of VersionedRows. *)
EXTENDS VersionedRowsProperties, TLC

CONSTANTS s1, r1

MCServiceOf == (r1 :> s1)
MCNoResources == << >>

RequestSymmetry == Permutations(Requests)

=============================================================================
