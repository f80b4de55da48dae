------------------------------ MODULE Catalog ------------------------------
(***************************************************************************)
(* The catalogue of furniture of an account, which several devices import  *)
(* and prune at once (apps/assets/services.py).  A batch reads what there  *)
(* is, and then adds what is new and replaces what changed.                *)
(***************************************************************************)
EXTENDS Naturals, FiniteSets

CONSTANTS
    Model,      \* ids of models
    Fiche,      \* what describes one
    Device,     \* requests under way at once
    MaxRows,    \* bound: rows ever added
    NoFiche     \* no row, or no model in a batch

ASSUME CatalogAssumption == NoFiche \notin Fiche /\ MaxRows \in Nat

VARIABLES
    catalog,    \* committed rows: the number and the fiche of each model
    added,      \* rows added so far
    batch       \* what each request is storing

catalogVars == <<catalog, added, batch>>

Nothing == [row |-> 0, fiche |-> NoFiche]
NoBatch == [given |-> [m \in Model |-> NoFiche], read |-> [m \in Model |-> Nothing],
            raced |-> {}]
Free(r) == batch[r] = NoBatch
Given(r) == {m \in Model : batch[r].given[m] # NoFiche}
IsThere(m) == catalog[m] # Nothing

CatalogInit ==
    /\ catalog = [m \in Model |-> Nothing]
    /\ added = 0
    /\ batch = [r \in Device |-> NoBatch]

\* store_models: the last fiche of an id rules; the rows there are are read.
ReadModels(r, given) ==
    /\ Free(r) /\ \E m \in Model : given[m] # NoFiche
    /\ batch' = [batch EXCEPT ![r] = [given |-> given, read |-> catalog, raced |-> {}]]
    /\ UNCHANGED <<catalog, added>>

New(r) == {m \in Given(r) : batch[r].read[m] = Nothing}
ChangedNever(r) == {}
Changed(r) ==
    {m \in Given(r) \ New(r) : batch[r].read[m].fiche # batch[r].given[m]}

\* Others that have read see later what changed now.
Tell(r, ids) ==
    batch' = [q \in Device |->
                IF q = r THEN NoBatch
                ELSE IF Free(q) THEN batch[q]
                ELSE [batch[q] EXCEPT !.raced = @ \cup ids]]

\* bulk_create fails whole if one of them is there by now; bulk_update touches
\* the row that was read, if it is still there.
StoreModels(r) ==
    LET updated == {m \in Changed(r) : catalog[m].row = batch[r].read[m].row}
        number == CHOOSE f \in [New(r) -> 1..Cardinality(New(r))] :
                     \A m, n \in New(r) : f[m] = f[n] => m = n
    IN /\ ~Free(r)
       /\ \A m \in New(r) : ~IsThere(m)
       /\ added + Cardinality(New(r)) <= MaxRows
       /\ catalog' = [m \in Model |->
            IF m \in New(r) THEN [row |-> added + number[m], fiche |-> batch[r].given[m]]
            ELSE IF m \in updated THEN [catalog[m] EXCEPT !.fiche = batch[r].given[m]]
            ELSE catalog[m]]
       /\ added' = added + Cardinality(New(r))
       /\ Tell(r, New(r) \cup updated)

\* 409, or the process dies.
RefuseModels(r) ==
    /\ ~Free(r)
    /\ batch' = [batch EXCEPT ![r] = NoBatch]
    /\ UNCHANGED <<catalog, added>>

\* remove_models.
RemoveModels(ids) ==
    /\ \E m \in ids : IsThere(m)
    /\ catalog' = [m \in Model |-> IF m \in ids THEN Nothing ELSE catalog[m]]
    /\ batch' = [q \in Device |->
                   IF Free(q) THEN batch[q] ELSE [batch[q] EXCEPT !.raced = @ \cup ids]]
    /\ UNCHANGED added

CatalogNext ==
    \/ \E r \in Device :
          \/ \E given \in [Model -> Fiche \cup {NoFiche}] : ReadModels(r, given)
          \/ StoreModels(r) \/ RefuseModels(r)
    \/ \E ids \in SUBSET Model : RemoveModels(ids)

CatalogSpec == CatalogInit /\ [][CatalogNext]_catalogVars

-----------------------------------------------------------------------------
\* A batch answered as stored is in the catalogue, each model with the fiche it
\* gave, except where another request stored or removed that model since the
\* batch read it: then nothing of it may be left.
StoredIsThere ==
    [][\A r \in Device :
          ~Free(r) /\ batch'[r] = NoBatch /\ catalog' # catalog =>
             \A m \in Given(r) \ batch[r].raced : catalog'[m].fiche = batch[r].given[m]]_catalogVars
=============================================================================
