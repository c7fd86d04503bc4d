--------------------------- MODULE MCProjectSharing ---------------------------
(* Small instances of ProjectSharing. *)
EXTENDS ProjectSharingProperties, TLC

CONSTANTS ann, bob, p1, ann_email, bob_email

MCVerifiedEmail == (ann :> ann_email) @@ (bob :> bob_email)
MCInvitationProject == [i \in Invitations |-> p1]
MCInvitationEmail == [i \in Invitations |-> bob_email]

RequestSymmetry == Permutations(Requests)

(* All but the answers, which no step reads.                                 *)
Transactions == <<tables, call, pc, locks>>

=============================================================================
