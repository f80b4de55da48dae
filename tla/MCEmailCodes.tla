---------------------------- MODULE MCEmailCodes ----------------------------
(* An account with few codes for TLC. *)
EXTENDS EmailCodes, TLC

\* Addresses and requests are interchangeable.
Symmetry == Permutations(Req) \cup Permutations(Email)

=============================================================================
