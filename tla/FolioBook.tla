----------------------------- MODULE FolioBook ------------------------------
(***************************************************************************)
(* What an account is promised about the folios of its documents: a book   *)
(* in which every document is written once, with a folio of its own, and   *)
(* each prefix counts without gaps and never backwards.                    *)
(***************************************************************************)
EXTENDS Integers

CONSTANTS
  Doc,      \* the documents of the account
  Prefix,   \* the prefixes of their folios
  Suffix,   \* the random suffixes
  OldFolio, \* the folio each document had before folios were assigned
  MaxNumber, \* the largest number a counter holds
  None      \* "no folio"

VARIABLES
  folio,  \* the folio each document took, also once deleted
  counter \* the last number given with each prefix

Given == {folio[d] : d \in Doc} \ {None}

Init ==
  /\ folio = OldFolio
  /\ counter = [p \in Prefix |-> 0]

\* A folio drawn at random that no document has had.
GiveRandom(d, p, s) ==
  /\ folio[d] = None
  /\ <<p, s>> \notin Given
  /\ folio' = [folio EXCEPT ![d] = <<p, s>>]
  /\ UNCHANGED counter

\* The first number after the counter that no document has had.
GiveNext(d, p, n) ==
  /\ folio[d] = None
  /\ n > counter[p]
  /\ <<p, n>> \notin Given
  /\ \A m \in counter[p] + 1 .. n - 1 : <<p, m>> \in Given
  /\ folio' = [folio EXCEPT ![d] = <<p, n>>]
  /\ counter' = [counter EXCEPT ![p] = n]

Next ==
  \E d \in Doc, p \in Prefix :
    \/ \E s \in Suffix : GiveRandom(d, p, s)
    \/ \E n \in 1..MaxNumber : GiveNext(d, p, n)

Spec == Init /\ [][Next]_<<folio, counter>>

=============================================================================
