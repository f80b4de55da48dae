--------------------------- MODULE MCInvitations ---------------------------
(* A small team for TLC. *)
EXTENDS Invitations, TLC

\* Requests, links and ids of rows are interchangeable.
Symmetry == Permutations(Req) \cup Permutations(Link) \cup Permutations(Invitation)
            \cup Permutations(Member)

=============================================================================
