----------------------------- MODULE MCIdentity -----------------------------
(* Small instances of Identity.  The runs check liveness or have few states: *)
(* none uses symmetry.                                                       *)
EXTENDS IdentityProperties

=============================================================================
