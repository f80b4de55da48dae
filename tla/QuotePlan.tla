----------------------------- MODULE QuotePlan -----------------------------
(***************************************************************************)
(* The lines of a draft quote that came from a plan and those added by     *)
(* hand, as the quote is edited and brought up to date with the plan       *)
(* (apps/quotes/services.py).  Each operation holds the lock of the quote. *)
(*                                                                         *)
(* Lines are in order of creation.  The breakdown by room of a line is     *)
(* given by what its rooms add up to.                                      *)
(***************************************************************************)
EXTENDS Naturals, Sequences, FiniteSets, SequencesExt

CONSTANTS
    Tariff,     \* services
    Amount,     \* quantities, and what rooms add up to
    Price,      \* unit prices
    ListPrice,  \* that of the catalogue
    MaxLines    \* bound: lines of a quote, and of a payload

ASSUME QuotePlanAssumption == Amount \subseteq Nat \ {0} /\ MaxLines \in Nat /\ ListPrice \in Price

VARIABLES
    lines,      \* the quote's lines; hand: added by the person who edits it
    synced      \* what the plan measured, right after a synchronisation

quotePlanVars == <<lines, synced>>

Line(tariff, quantity, price, plan, rooms, hand) ==
    [tariff |-> tariff, quantity |-> quantity, price |-> price, plan |-> plan,
     rooms |-> rooms, hand |-> hand]

\* The entries of a sequence at some of its places, in their order.
Place(at, k) == CHOOSE i \in at : Cardinality({j \in at : j <= i}) = k
Those(seq, at) == [k \in 1..Cardinality(at) |-> seq[Place(at, k)]]
PlanLines(seq) == Those(seq, {i \in DOMAIN seq : seq[i].plan})
HandLines(seq) == Those(seq, {i \in DOMAIN seq : seq[i].hand})
OtherLines(seq) == Those(seq, {i \in DOMAIN seq : ~seq[i].plan})
Tariffs(seq) == {line.tariff : line \in ToSet(seq)}

\* A dictionary keyed by tariff keeps the last line of each.
LastOf(seq, tariff) ==
    LET at == {i \in DOMAIN seq : seq[i].plan /\ seq[i].tariff = tariff}
    IN IF at = {} THEN 0 ELSE CHOOSE i \in at : \A j \in at : j <= i
FirstIn(items, i) == \A j \in 1..(i - 1) : items[j].tariff # items[i].tariff

\* QuoteItemInputSerializer: rooms never exceed their line.
Measured ==
    {m \in [tariff : Tariff, quantity : Amount, rooms : Amount \cup {0}] : m.rooms <= m.quantity}
AsLine(item) == Line(item.tariff, item.quantity, ListPrice, TRUE, item.rooms, FALSE)

Payloads == UNION {[1..n -> Measured] : n \in 0..MaxLines}

\* create_quote, from the plan.
QuotePlanInit ==
    /\ synced = <<>>
    /\ \E items \in Payloads : \E price \in [DOMAIN items -> Price] :
          /\ items # <<>>
          /\ lines = [i \in DOMAIN items |-> [AsLine(items[i]) EXCEPT !.price = price[i]]]

\* _kept_rooms: a line edited by hand keeps its rooms if it still covers them.
KeptAlways(i, quantity) == IF i = 0 THEN 0 ELSE lines[i].rooms
KeptRooms(i, quantity) ==
    IF i = 0 \/ lines[i].rooms > quantity THEN 0 ELSE lines[i].rooms

\* update_quote, from the screen of the quote, which says nothing of plans or
\* rooms.  All lines are written anew: those of a tariff that the plan measured
\* are the plan's, and the first of them keeps the rooms of the last there was.
Rewritten(items) ==
    [i \in DOMAIN items |->
       LET item == items[i]
           previous == LastOf(lines, item.tariff)
           rooms == IF FirstIn(items, i) THEN KeptRooms(previous, item.quantity) ELSE 0
       IN Line(item.tariff, item.quantity, item.price, previous # 0, rooms, item.hand)]

\* The screen sends back the lines it has, but for some perhaps, others with
\* another quantity, and perhaps one more.
Sent(line, quantity) ==
    [tariff |-> line.tariff, quantity |-> quantity, price |-> line.price, hand |-> line.hand]
Edited(left) ==
    {[i \in DOMAIN left |-> Sent(left[i], quantity[i])] : quantity \in [DOMAIN left -> Amount]}
Added ==
    {<<>>} \cup
    {<<m>> : m \in [tariff : Tariff, quantity : Amount, price : {ListPrice}, hand : {TRUE}]}
Edits ==
    {items \in UNION {{edited \o added : edited \in Edited(Those(lines, at)), added \in Added} :
                       at \in SUBSET DOMAIN lines} :
       Len(items) \in 1..MaxLines}

UpdateQuote ==
    /\ \E items \in Edits : lines' = Rewritten(items)
    /\ synced' = <<>>

\* Those of a payload that have no line of the plan yet.
Unlisted(items) == Those(items, {i \in DOMAIN items : LastOf(lines, items[i].tariff) = 0})
NewLines(items) == [i \in DOMAIN Unlisted(items) |-> AsLine(Unlisted(items)[i])]
BroughtOnly(items) == lines \o NewLines(items)
\* sync_quote_with_plan: the last plan line of each tariff takes the quantity of
\* the payload, the last if it repeats, and its rooms; a tariff without one gets
\* a line for each; those of other tariffs go.
LastGiven(items, tariff) == SelectLastInSeq(items, LAMBDA item : item.tariff = tariff)
Taken(items) ==
    [i \in DOMAIN lines |->
       LET j == LastGiven(items, lines[i].tariff)
       IN IF lines[i].plan /\ LastOf(lines, lines[i].tariff) = i /\ j # 0
          THEN [lines[i] EXCEPT !.quantity = items[j].quantity, !.rooms = items[j].rooms]
          ELSE lines[i]]
Brought(items) ==
    Those(Taken(items), {i \in DOMAIN lines : lines[i].plan => lines[i].tariff \in Tariffs(items)})
    \o NewLines(items)

SyncQuoteWithPlan(items) ==
    /\ lines' = Brought(items)
    /\ synced' = items
    /\ Len(lines') <= MaxLines

QuotePlanNext == UpdateQuote \/ \E items \in Payloads : SyncQuoteWithPlan(items)

QuotePlanSpec == QuotePlanInit /\ [][QuotePlanNext]_quotePlanVars

-----------------------------------------------------------------------------
\* The rooms of a line never add up to more than the line, through every edit
\* that knows nothing of rooms (QuoteItemRoom).
RoomsFit == \A i \in DOMAIN lines : lines[i].rooms <= lines[i].quantity

Distinct(seq) == \A i, j \in DOMAIN seq : seq[i].tariff = seq[j].tariff => i = j

\* With one plan line for each tariff, a quote brought up to date has for its
\* plan lines exactly what the plan measures, those it had at their old price,
\* and the rest as it was (US-95).
SyncFollowsThePlan ==
    [][synced' # <<>> /\ Distinct(synced') /\ Distinct(PlanLines(lines)) =>
           /\ {[tariff |-> line.tariff, quantity |-> line.quantity, rooms |-> line.rooms] :
                 line \in ToSet(PlanLines(lines'))}
              = {[tariff |-> item.tariff, quantity |-> item.quantity, rooms |-> item.rooms] :
                 item \in ToSet(synced')}
           /\ \A old \in ToSet(PlanLines(lines)), new \in ToSet(PlanLines(lines')) :
                old.tariff = new.tariff => old.price = new.price
           /\ OtherLines(lines') = OtherLines(lines)]_quotePlanVars

\* What the architect added by hand is not touched.
HandLinesStay ==
    [][synced' # <<>> => HandLines(lines') = HandLines(lines)]_quotePlanVars
=============================================================================
