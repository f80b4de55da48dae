------------------------------ MODULE MCFolios ------------------------------
(* A small account for TLC: quotes and payments, one old quote. *)
EXTENDS Folios

CONSTANTS quote, payment, COT, REC, d0

MCAutoPrefix == [t \in {quote, payment} |-> IF t = quote THEN COT ELSE REC]

\* The old quote's folio reads as a number, which a counter will reach.
MCOldFolio == [d \in Doc |-> IF d = d0 THEN <<COT, 1>> ELSE None]

=============================================================================
