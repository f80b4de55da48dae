----------------------------- MODULE WorkLedger -----------------------------
(***************************************************************************)
(* What the account is promised about a quote and the work done on it,     *)
(* whatever requests run at once: a quote changes until it becomes one     *)
(* project and never after; on each item, neither the work recorded nor    *)
(* the work handed out exceeds what was quoted; and a project closes owing *)
(* nothing unless someone waives the balance, after which neither its work *)
(* nor its payments move.                                                  *)
(*                                                                         *)
(* Quantities and amounts are totals: which entries, shares and payments   *)
(* they come from is WorkRequests' business, which implements this module. *)
(***************************************************************************)
EXTENDS WorkItems

Stage == {"none", "draft", "work", "closed", "gone"}

VARIABLES
  stage,    \* where each quote is: in "work" and "closed" it has its project
  qty,      \* quoted quantity of each item, 0 when the quote has no such line
  advanced, \* recorded work of each item
  handed,   \* work handed out of each item
  earned,   \* what the recorded work of each quote is worth
  paid,     \* what the client paid for it
  waived    \* closed in spite of a pending balance

vars == <<stage, qty, advanced, handed, earned, paid, waived>>

Init ==
  /\ stage = [q \in Quote |-> "none"]
  /\ qty = [i \in Item |-> 0]
  /\ advanced = [i \in Item |-> 0]
  /\ handed = [i \in Item |-> 0]
  /\ earned = [q \in Quote |-> 0]
  /\ paid = [q \in Quote |-> 0]
  /\ waived = [q \in Quote |-> FALSE]

-----------------------------------------------------------------------------
WithLines(q, lines) ==
  [i \in Item |-> IF i[1] = q THEN lines[i[2]] ELSE qty[i]]

Create(q, lines) ==
  /\ stage[q] = "none"
  /\ stage' = [stage EXCEPT ![q] = "draft"]
  /\ qty' = WithLines(q, lines)
  /\ UNCHANGED <<advanced, handed, earned, paid, waived>>

Revise(q, lines) ==
  /\ stage[q] = "draft"
  /\ qty' = WithLines(q, lines)
  /\ UNCHANGED <<stage, advanced, handed, earned, paid, waived>>

Remove(q) ==
  /\ stage[q] = "draft"
  /\ stage' = [stage EXCEPT ![q] = "gone"]
  /\ qty' = WithLines(q, [l \in Line |-> 0])
  /\ UNCHANGED <<advanced, handed, earned, paid, waived>>

Start(q) ==
  /\ stage[q] = "draft"
  /\ stage' = [stage EXCEPT ![q] = "work"]
  /\ UNCHANGED <<qty, advanced, handed, earned, paid, waived>>

\* Entries of an item that added up to `old' now add up to `new': one is
\* recorded (old = 0), corrected or deleted (new = 0).
Record(q, l, old, new) ==
  LET i == <<q, l>> IN
  /\ stage[q] = "work"
  /\ old <= advanced[i]
  /\ advanced[i] - old + new <= qty[i]
  /\ advanced' = [advanced EXCEPT ![i] = @ - old + new]
  /\ earned' = [earned EXCEPT ![q] = @ + (new - old) * UnitPrice[l]]
  /\ UNCHANGED <<stage, qty, handed, paid, waived>>

\* A share of an item goes from `old' to `new'; a closed project's too.
HandOut(q, l, old, new) ==
  LET i == <<q, l>> IN
  /\ stage[q] \in {"work", "closed"}
  /\ old <= handed[i]
  /\ handed[i] - old + new <= qty[i]
  /\ handed' = [handed EXCEPT ![i] = @ - old + new]
  /\ UNCHANGED <<stage, qty, advanced, earned, paid, waived>>

Collect(q, amount) ==
  /\ stage[q] = "work"
  /\ paid[q] + amount <= MaxPaid
  /\ paid' = [paid EXCEPT ![q] = @ + amount]
  /\ UNCHANGED <<stage, qty, advanced, handed, earned, waived>>

Close(q) ==
  /\ stage[q] = "work"
  /\ stage' = [stage EXCEPT ![q] = "closed"]
  /\ waived' = [waived EXCEPT ![q] = earned[q] > paid[q]]
  /\ UNCHANGED <<qty, advanced, handed, earned, paid>>

Next ==
  \E q \in Quote :
    \/ \E lines \in [Line -> 0..MaxQty] : Create(q, lines) \/ Revise(q, lines)
    \/ Remove(q)
    \/ Start(q)
    \/ \E l \in Line, old, new \in 0..MaxQty :
         Record(q, l, old, new) \/ HandOut(q, l, old, new)
    \/ \E amount \in 1..MaxPaid : Collect(q, amount)
    \/ Close(q)

Spec == Init /\ [][Next]_vars

-----------------------------------------------------------------------------
TypeOK ==
  /\ stage \in [Quote -> Stage]
  /\ qty \in [Item -> 0..MaxQty]
  /\ advanced \in [Item -> 0..MaxQty]
  /\ handed \in [Item -> 0..MaxQty]
  /\ earned \in [Quote -> Int]
  /\ paid \in [Quote -> Nat]
  /\ waived \in [Quote -> BOOLEAN]

\* Neither the recorded work nor the work handed out of an item is more than
\* the quote says of it (_check_quantity, assign_service).
WorkFits ==
  \A i \in Item : advanced[i] <= qty[i] /\ handed[i] <= qty[i]

\* A project closed without waiving its balance is owed nothing, then and from
\* then on (finalize_project).
ClosedSettled ==
  \A q \in Quote : stage[q] = "closed" /\ ~waived[q] => earned[q] <= paid[q]

\* Once it is a project, the quote keeps its lines; once closed, the project
\* keeps its work, its value and its payments too.
SettledStays ==
  [][\A q \in Quote, l \in Line :
       /\ stage[q] \in {"work", "closed"} =>
            /\ stage'[q] \in {"work", "closed"}
            /\ qty'[<<q, l>>] = qty[<<q, l>>]
       /\ stage[q] = "closed" =>
            /\ stage'[q] = "closed"
            /\ advanced'[<<q, l>>] = advanced[<<q, l>>]
            /\ earned'[q] = earned[q] /\ paid'[q] = paid[q]
            /\ waived'[q] = waived[q]]_vars

=============================================================================
