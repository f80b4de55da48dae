----------------------------- MODULE WorkItems -----------------------------
(***************************************************************************)
(* What WorkLedger, the promise, and WorkRequests, the services that keep  *)
(* it, are both about: the items of the quotes, and the bounds on what is  *)
(* quoted and paid.                                                        *)
(***************************************************************************)
EXTENDS Integers

CONSTANTS
  Quote, Line,       \* quotes, and the lines each one may have
  UnitPrice,         \* what one unit of each line charges the client
  MaxQty, MaxAmount, \* bounds: quantity of a line, amount of a payment
  MaxPayments        \* bound: payments of one project

ASSUME ItemsAssumption ==
  /\ UnitPrice \in [Line -> Nat]
  /\ MaxQty \in Nat /\ MaxAmount \in Nat /\ MaxPayments \in Nat

Item == Quote \X Line
MaxPaid == MaxPayments * MaxAmount
=============================================================================
