--------------------------- MODULE MCWorkRequests ---------------------------
(* Small instances of WorkRequests for TLC. *)
EXTENDS WorkRequests, TLC

CONSTANT l1

\* A unit of l1 is worth two, of any other line one.
MCUnitPrice == [l \in Line |-> IF l = l1 THEN 2 ELSE 1]

\* The services of each instance.
LifecycleOps == QuoteOps \cup {"register_progress"}
ProjectRunOps == AllOps \ {"update_quote", "delete_quote", "assign_service"}
StaffOps == {"start_project", "register_progress", "update_progress",
             "assign_service", "finalize_project"}

\* Requests, entries and photos are interchangeable.
Symmetry == Permutations(Req) \cup Permutations(Entry) \cup Permutations(Photo)

=============================================================================
