---------------------------- MODULE MCCompanies ----------------------------
(***************************************************************************)
(* Two companies and a collaborator: A, whose account may be deleted, by A *)
(* or by B from the admin, and B.  W works in whichever invites W.         *)
(***************************************************************************)
EXTENDS Companies

CONSTANTS A, B, W

MCInPlay ==
    (A :> {"membership", "client", "plan", "quote", "project"})
    @@ (B :> {"client"}) @@ (W :> {})
MCPerson == {A, B, W}
MCHasOwn == {A, B}
MCAdmin == {B}
MCLeaving == {A}
MCSymmetry == Permutations(Req)
=============================================================================
