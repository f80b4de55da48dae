-------------------------- MODULE WorkLedgerProofs --------------------------
(***************************************************************************)
(* WorkLedger keeps its promise for every set of quotes and lines, every   *)
(* price and every bound.  WorkFits is not inductive alone: Revise may     *)
(* lower the quantities of a draft, so the invariant also says that        *)
(* nothing is recorded or handed out before there is a project.            *)
(***************************************************************************)
EXTENDS WorkLedger, TLAPS

\* Nothing is recorded or handed out of a quote without a project.
NothingBeforeStart ==
  \A q \in Quote : stage[q] \in {"none", "draft", "gone"} =>
    \A l \in Line : advanced[<<q, l>>] = 0 /\ handed[<<q, l>>] = 0

IInv == TypeOK /\ NothingBeforeStart /\ WorkFits /\ ClosedSettled

-----------------------------------------------------------------------------
\* The bound on what is paid is a number.
LEMMA MaxPaidIsNat == MaxPaid \in Nat
  BY ItemsAssumption DEF MaxPaid

LEMMA InitIInv == Init => IInv
  BY ItemsAssumption
  DEF Init, IInv, TypeOK, NothingBeforeStart, WorkFits, ClosedSettled, Item, Stage

\* What WithLines gives: the quantities of q replaced, the others kept.
LEMMA WithLinesFacts ==
  ASSUME TypeOK, NEW q \in Quote, NEW lines \in [Line -> 0..MaxQty]
  PROVE  /\ WithLines(q, lines) \in [Item -> 0..MaxQty]
         /\ \A i \in Item : i[1] # q => WithLines(q, lines)[i] = qty[i]
         /\ \A q2 \in Quote, l \in Line : q2 # q =>
              WithLines(q, lines)[<<q2, l>>] = qty[<<q2, l>>]
  BY DEF TypeOK, WithLines, Item

LEMMA NoLines == [l \in Line |-> 0] \in [Line -> 0..MaxQty]
  BY ItemsAssumption

-----------------------------------------------------------------------------
\* The shape of the totals: no step takes one out of its range.
LEMMA NextTypeOK == TypeOK /\ [Next]_vars => TypeOK'
<1> SUFFICES ASSUME TypeOK, [Next]_vars PROVE TypeOK'
  OBVIOUS
<1>1. ASSUME NEW q \in Quote, NEW lines \in [Line -> 0..MaxQty],
             Create(q, lines) \/ Revise(q, lines)
      PROVE TypeOK'
  BY <1>1, WithLinesFacts DEF Create, Revise, TypeOK, Stage
<1>2. ASSUME NEW q \in Quote, Remove(q) PROVE TypeOK'
  BY <1>2, WithLinesFacts, NoLines DEF Remove, TypeOK, Stage
<1>3. ASSUME NEW q \in Quote, Start(q) PROVE TypeOK'
  BY <1>3 DEF Start, TypeOK, Stage
<1>4. ASSUME NEW q \in Quote, NEW l \in Line, NEW old \in 0..MaxQty,
             NEW new \in 0..MaxQty, Record(q, l, old, new)
      PROVE TypeOK'
  <2>1. <<q, l>> \in Item
    BY DEF Item
  <2>2. advanced[<<q, l>>] - old + new \in 0..MaxQty
    BY <1>4, <2>1, ItemsAssumption DEF Record, TypeOK
  <2>3. advanced' \in [Item -> 0..MaxQty]
    BY <1>4, <2>1, <2>2 DEF Record, TypeOK
  <2>4. UnitPrice[l] \in Int /\ new - old \in Int
    BY ItemsAssumption
  <2>5. (new - old) * UnitPrice[l] \in Int
    BY <2>4
  <2>6. earned' \in [Quote -> Int]
    BY <1>4, <2>5 DEF Record, TypeOK
  <2> QED BY <1>4, <2>3, <2>6 DEF Record, TypeOK
<1>5. ASSUME NEW q \in Quote, NEW l \in Line, NEW old \in 0..MaxQty,
             NEW new \in 0..MaxQty, HandOut(q, l, old, new)
      PROVE TypeOK'
  <2>1. <<q, l>> \in Item
    BY DEF Item
  <2>2. handed[<<q, l>>] - old + new \in 0..MaxQty
    BY <1>5, <2>1, ItemsAssumption DEF HandOut, TypeOK
  <2> QED BY <1>5, <2>1, <2>2 DEF HandOut, TypeOK
<1>6. ASSUME NEW q \in Quote, NEW amount \in 1..MaxPaid, Collect(q, amount)
      PROVE TypeOK'
  BY <1>6, MaxPaidIsNat DEF Collect, TypeOK
<1>7. ASSUME NEW q \in Quote, Close(q) PROVE TypeOK'
  BY <1>7 DEF Close, TypeOK, Stage
<1>8. CASE UNCHANGED vars
  BY <1>8 DEF vars, TypeOK
<1> QED BY <1>1, <1>2, <1>3, <1>4, <1>5, <1>6, <1>7, <1>8 DEF Next

\* Only a project's steps record or hand out.
LEMMA NextNothingBeforeStart ==
  TypeOK /\ NothingBeforeStart /\ [Next]_vars => NothingBeforeStart'
<1> SUFFICES ASSUME TypeOK, NothingBeforeStart, [Next]_vars
             PROVE NothingBeforeStart'
  OBVIOUS
<1>1. ASSUME NEW q \in Quote, NEW lines \in [Line -> 0..MaxQty],
             Create(q, lines) \/ Revise(q, lines)
      PROVE NothingBeforeStart'
  BY <1>1 DEF Create, Revise, TypeOK, Stage, NothingBeforeStart
<1>2. ASSUME NEW q \in Quote, Remove(q) \/ Start(q) \/ Close(q)
      PROVE NothingBeforeStart'
  BY <1>2 DEF Remove, Start, Close, TypeOK, NothingBeforeStart
<1>3. ASSUME NEW q \in Quote, NEW l \in Line, NEW old \in 0..MaxQty,
             NEW new \in 0..MaxQty,
             Record(q, l, old, new) \/ HandOut(q, l, old, new)
      PROVE NothingBeforeStart'
  <2>1. stage[q] \in {"work", "closed"} /\ stage' = stage
    BY <1>3 DEF Record, HandOut
  <2>2. \A q2 \in Quote, l2 \in Line : q2 # q =>
          /\ advanced'[<<q2, l2>>] = advanced[<<q2, l2>>]
          /\ handed'[<<q2, l2>>] = handed[<<q2, l2>>]
    BY <1>3 DEF Record, HandOut, TypeOK, Item
  <2> QED BY <2>1, <2>2 DEF NothingBeforeStart
<1>4. ASSUME NEW q \in Quote, NEW amount \in 1..MaxPaid, Collect(q, amount)
      PROVE NothingBeforeStart'
  BY <1>4 DEF Collect, NothingBeforeStart
<1>5. CASE UNCHANGED vars
  BY <1>5 DEF vars, NothingBeforeStart
<1> QED BY <1>1, <1>2, <1>3, <1>4, <1>5 DEF Next

\* Quantities move only in a draft, where there is nothing to overrun; totals,
\* only within what is quoted.
LEMMA NextWorkFits ==
  TypeOK /\ NothingBeforeStart /\ WorkFits /\ [Next]_vars => WorkFits'
<1> SUFFICES ASSUME TypeOK, NothingBeforeStart, WorkFits, [Next]_vars
             PROVE WorkFits'
  OBVIOUS
<1>1. ASSUME NEW q \in Quote, NEW lines \in [Line -> 0..MaxQty],
             stage[q] \in {"none", "draft"}, qty' = WithLines(q, lines),
             UNCHANGED <<advanced, handed>>
      PROVE WorkFits'
  <2> SUFFICES ASSUME NEW i \in Item
               PROVE advanced'[i] <= qty'[i] /\ handed'[i] <= qty'[i]
    BY DEF WorkFits
  <2>1. CASE i[1] = q
    <3>1. PICK l \in Line : i = <<q, l>>
      BY <2>1 DEF Item
    <3>2. advanced[i] = 0 /\ handed[i] = 0
      BY <1>1, <3>1 DEF NothingBeforeStart
    <3>3. qty'[i] \in 0..MaxQty
      BY <1>1, WithLinesFacts
    <3> QED BY <1>1, <3>2, <3>3, ItemsAssumption
  <2>2. CASE i[1] # q
    BY <1>1, <2>2, WithLinesFacts DEF WorkFits
  <2> QED BY <2>1, <2>2
<1>2. ASSUME NEW q \in Quote, NEW lines \in [Line -> 0..MaxQty],
             Create(q, lines) \/ Revise(q, lines)
      PROVE WorkFits'
  BY <1>1, <1>2 DEF Create, Revise
<1>3. ASSUME NEW q \in Quote, Remove(q) PROVE WorkFits'
  BY <1>1, <1>3, NoLines DEF Remove
<1>4. ASSUME NEW q \in Quote, NEW l \in Line, NEW old \in 0..MaxQty,
             NEW new \in 0..MaxQty,
             Record(q, l, old, new) \/ HandOut(q, l, old, new)
      PROVE WorkFits'
  <2>1. <<q, l>> \in Item
    BY DEF Item
  <2> QED BY <1>4, <2>1 DEF Record, HandOut, TypeOK, WorkFits
<1>5. ASSUME NEW q \in Quote, NEW amount \in 1..MaxPaid,
             Collect(q, amount)
      PROVE WorkFits'
  BY <1>5 DEF Collect, WorkFits
<1>6. ASSUME NEW q \in Quote, Start(q) \/ Close(q) PROVE WorkFits'
  BY <1>6 DEF Start, Close, WorkFits
<1>7. CASE UNCHANGED vars
  BY <1>7 DEF vars, WorkFits
<1> QED BY <1>2, <1>3, <1>4, <1>5, <1>6, <1>7 DEF Next

\* Closing looks at the balance, and nothing moves it afterwards.
LEMMA NextClosedSettled ==
  TypeOK /\ ClosedSettled /\ [Next]_vars => ClosedSettled'
<1> SUFFICES ASSUME TypeOK, ClosedSettled, [Next]_vars PROVE ClosedSettled'
  OBVIOUS
<1>1. ASSUME NEW q \in Quote, NEW lines \in [Line -> 0..MaxQty],
             Create(q, lines) \/ Revise(q, lines)
      PROVE ClosedSettled'
  BY <1>1 DEF Create, Revise, TypeOK, ClosedSettled
<1>2. ASSUME NEW q \in Quote, Remove(q) \/ Start(q) PROVE ClosedSettled'
  BY <1>2 DEF Remove, Start, TypeOK, ClosedSettled
<1>3. ASSUME NEW q \in Quote, NEW l \in Line, NEW old \in 0..MaxQty,
             NEW new \in 0..MaxQty, Record(q, l, old, new)
      PROVE ClosedSettled'
  BY <1>3 DEF Record, TypeOK, ClosedSettled
<1>4. ASSUME NEW q \in Quote, NEW l \in Line, NEW old \in 0..MaxQty,
             NEW new \in 0..MaxQty, HandOut(q, l, old, new)
      PROVE ClosedSettled'
  BY <1>4 DEF HandOut, ClosedSettled
<1>5. ASSUME NEW q \in Quote, NEW amount \in 1..MaxPaid, Collect(q, amount)
      PROVE ClosedSettled'
  BY <1>5 DEF Collect, TypeOK, ClosedSettled
<1>6. ASSUME NEW q \in Quote, Close(q) PROVE ClosedSettled'
  <2>1. UNCHANGED <<earned, paid>>
    BY <1>6 DEF Close
  <2>2. waived'[q] = (earned[q] > paid[q])
    BY <1>6 DEF Close, TypeOK
  <2>3. ~waived'[q] => earned[q] <= paid[q]
    <3>1. earned[q] \in Int /\ paid[q] \in Int
      BY DEF TypeOK
    <3>2. ~(earned[q] > paid[q]) => earned[q] <= paid[q]
      BY <3>1
    <3> QED BY <2>2, <3>2, Zenon
  <2>4. \A q2 \in Quote : q2 # q => stage'[q2] = stage[q2] /\ waived'[q2] = waived[q2]
    BY <1>6 DEF Close, TypeOK
  <2> QED BY <2>1, <2>3, <2>4, Zenon DEF ClosedSettled
<1>7. CASE UNCHANGED vars
  BY <1>7 DEF vars, ClosedSettled
<1> QED BY <1>1, <1>2, <1>3, <1>4, <1>5, <1>6, <1>7 DEF Next

\* A step leaves the quote of a project, and what is settled, as they were.
LEMMA NextSettledStays ==
  ASSUME TypeOK, Next, NEW q0 \in Quote, NEW l0 \in Line
  PROVE  /\ stage[q0] \in {"work", "closed"} =>
              /\ stage'[q0] \in {"work", "closed"}
              /\ qty'[<<q0, l0>>] = qty[<<q0, l0>>]
         /\ stage[q0] = "closed" =>
              /\ stage'[q0] = "closed"
              /\ advanced'[<<q0, l0>>] = advanced[<<q0, l0>>]
              /\ earned'[q0] = earned[q0] /\ paid'[q0] = paid[q0]
              /\ waived'[q0] = waived[q0]
<1> DEFINE Kept ==
      /\ stage[q0] \in {"work", "closed"} =>
           /\ stage'[q0] \in {"work", "closed"}
           /\ qty'[<<q0, l0>>] = qty[<<q0, l0>>]
      /\ stage[q0] = "closed" =>
           /\ stage'[q0] = "closed"
           /\ advanced'[<<q0, l0>>] = advanced[<<q0, l0>>]
           /\ earned'[q0] = earned[q0] /\ paid'[q0] = paid[q0]
           /\ waived'[q0] = waived[q0]
<1>1. ASSUME NEW q \in Quote, NEW lines \in [Line -> 0..MaxQty],
             Create(q, lines) \/ Revise(q, lines)
      PROVE Kept
  BY <1>1, WithLinesFacts DEF Create, Revise, TypeOK
<1>2. ASSUME NEW q \in Quote, Remove(q) PROVE Kept
  BY <1>2, WithLinesFacts, NoLines DEF Remove, TypeOK
<1>3. ASSUME NEW q \in Quote, Start(q) \/ Close(q) PROVE Kept
  BY <1>3 DEF Start, Close, TypeOK
<1>4. ASSUME NEW q \in Quote, NEW l \in Line, NEW old \in 0..MaxQty,
             NEW new \in 0..MaxQty,
             Record(q, l, old, new) \/ HandOut(q, l, old, new)
      PROVE Kept
  <2>1. stage' = stage /\ qty' = qty /\ paid' = paid /\ waived' = waived
    BY <1>4 DEF Record, HandOut
  <2>2. stage[q0] = "closed" =>
          advanced'[<<q0, l0>>] = advanced[<<q0, l0>>] /\ earned'[q0] = earned[q0]
    BY <1>4 DEF Record, HandOut, TypeOK, Item
  <2> QED BY <2>1, <2>2
<1>5. ASSUME NEW q \in Quote, NEW amount \in 1..MaxPaid, Collect(q, amount)
      PROVE Kept
  BY <1>5 DEF Collect, TypeOK
<1> QED BY <1>1, <1>2, <1>3, <1>4, <1>5 DEF Next

-----------------------------------------------------------------------------
THEOREM Invariance == Spec => []IInv
<1>1. IInv /\ [Next]_vars => IInv'
  BY NextTypeOK, NextNothingBeforeStart, NextWorkFits, NextClosedSettled DEF IInv
<1> QED BY InitIInv, <1>1, PTL DEF Spec

\* Neither the recorded nor the handed out work of an item exceeds what the
\* quote says of it, for any quotes, lines and bounds.
THEOREM LedgerWorkFits == Spec => []WorkFits
  BY Invariance, PTL DEF IInv

\* A project closed without waiving its balance is never owed anything.
THEOREM LedgerClosedSettled == Spec => []ClosedSettled
  BY Invariance, PTL DEF IInv

\* The quote of a project keeps its lines, and a closed project its account.
THEOREM LedgerSettledStays == Spec => SettledStays
<1>1. IInv /\ [Next]_vars => [\A q \in Quote, l \in Line :
       /\ stage[q] \in {"work", "closed"} =>
            /\ stage'[q] \in {"work", "closed"}
            /\ qty'[<<q, l>>] = qty[<<q, l>>]
       /\ stage[q] = "closed" =>
            /\ stage'[q] = "closed"
            /\ advanced'[<<q, l>>] = advanced[<<q, l>>]
            /\ earned'[q] = earned[q] /\ paid'[q] = paid[q]
            /\ waived'[q] = waived[q]]_vars
  BY NextSettledStays DEF IInv
<1> QED BY Invariance, <1>1, PTL DEF Spec, SettledStays

=============================================================================
