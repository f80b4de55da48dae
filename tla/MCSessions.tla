----------------------------- MODULE MCSessions -----------------------------
\* A small instance of Sessions.
EXTENDS Sessions, TLC

Symmetry == Permutations(Req)

=============================================================================
