----------------------------- MODULE Companies -----------------------------
(***************************************************************************)
(* The rows of several companies in one database: which of them a request  *)
(* works on, what it may refer to, and what happens to the rest when one   *)
(* is deleted, or the whole account is (apps/team/tenancy.py, common/,     *)
(* apps/accounts/deletion.py), over the tables of Schema and Models.       *)
(*                                                                         *)
(* A company is the account of the person who owns it.  A row is named by  *)
(* its table and company: there is one of each at most.                    *)
(***************************************************************************)
EXTENDS Models, FiniteSets, TLC

CONSTANTS
    Person,     \* accounts, each a company if it has a workspace of its own
    HasOwn,     \* those with a workspace of their own
    Admin,      \* those who may delete other accounts, in the admin
    InPlay,     \* for each person, the tables their company's requests write
    Leaving,    \* the accounts that may be deleted
    Req,        \* requests under way at once
    MaxRows,    \* bound: rows a request writes
    None

ASSUME CompaniesAssumption ==
    /\ HasOwn \subseteq Person /\ Admin \subseteq Person /\ Leaving \subseteq Person
    /\ InPlay \in [Person -> SUBSET Table]
    /\ IsFiniteSet(Person)
    /\ None \notin Person \cup {"insert", "client", "tariff", "plan", "purge"}
    /\ MaxRows \in Nat

VARIABLES
    postgres,   \* FALSE in the local suite: SQLite has no policies
    rows,       \* committed rows
    active,     \* the companies whose membership is active
    job         \* what each request is doing

vars == <<postgres, rows, active, job>>

-----------------------------------------------------------------------------
(* Rows.  A row's refs give, for each column, the company of the row it    *)
(* refers to, or None.                                                     *)

Id(row) == <<row.table, row.company>>
Ids(set) == {Id(row) : row \in set}
Row(table, company, refs) == [table |-> table, company |-> company, refs |-> refs]
Target(row, column) == <<Ref(row.table)[column].to, row.refs[column]>>
ColumnsTo(row, ids) ==
    {c \in DOMAIN row.refs : row.refs[c] # None /\ Target(row, c) \in ids}

\* The rows above a row of an isolated table, reference by reference, up to
\* the one that names the account it belongs to.
Above(row, up, k) == IF k = 1 THEN row ELSE up[k]
WaysUp(set, row, path) ==
    {up \in [2..Len(path) -> set] :
       \A k \in DOMAIN up : Target(Above(row, up, k - 1), path[k - 1]) = Id(up[k])}
OwnerOf(set, row) ==
    LET path == Tables[row.table].path
        ways == WaysUp(set, row, path)
        top == Above(row, CHOOSE up \in ways : TRUE, Len(path))
    IN IF ways = {} THEN None ELSE top.refs[path[Len(path)]]
IsSharedTable(table) == Tables[table].path = Shared
IsShared(row) == IsSharedTable(row.table)

-----------------------------------------------------------------------------
(* The company of a request.                                               *)

WorksFor(p, c) ==
    \E row \in rows : row.table = "membership" /\ row.company = c /\ row.refs.user = p
Exists(p) == <<"user", p>> \in Ids(rows)

\* The company that the header names.
Chosen(p, header) ==
    IF header = p THEN IF p \in HasOwn THEN p ELSE None
    ELSE IF WorksFor(p, header) /\ header \in active THEN header ELSE None

\* Without one: one's own, or the first of those one works in.
Default(p) ==
    IF p \in HasOwn THEN {p}
    ELSE LET theirs == {c \in active : WorksFor(p, c)}
         IN IF theirs = {} THEN {None} ELSE theirs

AccountOf(p, header) == IF header # None THEN {Chosen(p, header)} ELSE Default(p)

-----------------------------------------------------------------------------
(* What a request sees: what is committed and what it wrote, of the        *)
(* company of its context.                                                 *)

Idle == [phase |-> "idle", op |-> None, person |-> None, company |-> None, step |-> 0,
         picked |-> {}, toEmpty |-> {}, gone |-> {}, nulled |-> {}, new |-> {},
         raced |-> FALSE]

Emptied(row, nulled) ==
    [row EXCEPT !.refs = [c \in DOMAIN @ |-> IF <<Id(row), c>> \in nulled THEN None ELSE @[c]]]
After(j) ==
    {Emptied(row, j.nulled) : row \in {x \in rows : Id(x) \notin j.gone}} \cup j.new

\* IsolateCompanies: a row of an isolated table is there for its company only.
Passes(j, set, row) == IsShared(row) \/ ~postgres \/ OwnerOf(set, row) = j.company
Seen(j) == LET all == After(j) IN {row \in all : Passes(j, all, row)}

FoundOfAnyone(j) == {row \in Seen(j) : ~IsShared(row)}
\* OwnedPrimaryKeyRelatedField: an id finds only what is of the request's company.
Found(j) == {row \in Seen(j) : ~IsShared(row) /\ OwnerOf(After(j), row) = j.company}

\* A row another request is deleting, or changing.
Held(r, id) ==
    \E q \in Req \ {r} : id \in job[q].gone \/ \E n \in job[q].nulled : n[1] = id

-----------------------------------------------------------------------------
(* Django's deletion of some rows: those that cascade from them, those     *)
(* that protect any of them, and the references it empties.                *)

By(rule, set, ids) ==
    {row \in set : \E c \in ColumnsTo(row, ids) : OnDelete(row.table, c) = rule}
WithCascades(set, some) == some \cup Ids(By(Cascade, set, some))
Collected(set, ids) ==
    LET from[some \in SUBSET Ids(set)] ==
            IF WithCascades(set, some) = some THEN some ELSE from[WithCascades(set, some)]
    IN from[ids]
IsProtected(set, ids) == By(Protect, set, ids) # {}
ToEmpty(set, ids) ==
    UNION {{<<Id(row), c>> : c \in {d \in ColumnsTo(row, ids) : OnDelete(row.table, d) = SetNull}} :
           row \in {x \in set : Id(x) \notin ids}}

\* It collects them, or is refused if a row protects one, and then deletes
\* them; in between others may commit.
Refused(r, op) == [Idle EXCEPT !.phase = "refused", !.op = op, !.raced = job[r].raced]
Collect(r, ids, op) ==
    LET set == Seen(job[r])
        all == Collected(set, ids)
    IN IF IsProtected(set, all)
       THEN job' = [job EXCEPT ![r] = Refused(r, op)]
       ELSE job' = [job EXCEPT ![r].phase = "deleting", ![r].op = op, ![r].person = None,
                               ![r].picked = all, ![r].toEmpty = ToEmpty(set, all)]

-----------------------------------------------------------------------------
(* Requests.                                                               *)

Init ==
    /\ postgres \in BOOLEAN
    /\ rows = {Row("user", p, NoColumns) : p \in Person}
              \cup {Row("organization", p, [user |-> p]) : p \in HasOwn}
    /\ active = {}
    /\ job = [r \in Req |-> Idle]

\* TenantContextMixin: the context is set once it is known who asks.
Enter(r, p, header) ==
    /\ job[r].phase = "idle" /\ Exists(p)
    /\ \E c \in AccountOf(p, header) :
          job' = [job EXCEPT ![r] = [Idle EXCEPT !.phase = "open", !.person = p, !.company = c]]
    /\ UNCHANGED <<postgres, rows, active>>

\* A row's columns: the account, or what the serializer's field finds; one
\* that may be empty may be left so.
Value(r, table, c) ==
    LET ref == Ref(table)[c]
        there == {row.company : row \in {x \in Found(job[r]) : x.table = ref.to}}
    IN IF ref.to = "user" THEN {job[r].company}
       ELSE there \cup IF ref.null THEN {None} ELSE {}

\* A request writes a few rows: a quote with its lines, a share, a payment.
Insert(r, table) ==
    LET j == job[r]
        id == <<table, j.company>>
        values == [c \in DOMAIN Ref(table) |-> Value(r, table, c)]
    IN /\ j.phase = "open" /\ j.op \in {None, "insert"} /\ j.step < MaxRows
       /\ j.company # None /\ table \in InPlay[j.company] /\ ~IsSharedTable(table)
       /\ id \notin Ids(rows) /\ \A q \in Req : id \notin Ids(job[q].new)
       /\ \E refs \in [DOMAIN Ref(table) -> Person \cup {None}] :
             /\ \A c \in DOMAIN refs : refs[c] \in values[c]
             /\ LET row == Row(table, j.company, refs)
                IN /\ Passes(j, After(j) \cup {row}, row)
                   /\ job' = [job EXCEPT ![r].op = "insert", ![r].person = None,
                                         ![r].new = @ \cup {row}, ![r].step = @ + 1]
       /\ UNCHANGED <<postgres, rows, active>>

\* delete_client, delete_tariff, delete_plans.
DeleteRow(r, table) ==
    LET ids == {Id(row) : row \in {x \in Found(job[r]) : x.table = table}}
    IN /\ job[r].phase = "open" /\ job[r].op = None
       /\ table \in {"client", "tariff", "plan"} /\ ids # {}
       /\ Collect(r, ids, table)
       /\ UNCHANGED <<postgres, rows, active>>

\* purge_account, of one's own account or from the admin: from here on the
\* context is the account's own company.
PurgeClientsFirst ==
    <<"client", "workerpayment", "payment", "project", "quote", "worker", "tariff", "plan",
      "planasset", "catalogmodel", "user">>
PurgeOrder ==
    <<"workerpayment", "payment", "project", "quote", "worker", "tariff", "client", "plan",
      "planasset", "catalogmodel", "user">>

BeginPurge(r, c) ==
    /\ job[r].phase = "open" /\ job[r].op = None
    /\ c \in Leaving /\ Exists(c) /\ (job[r].person = c \/ job[r].person \in Admin)
    /\ job' = [job EXCEPT ![r].op = "purge", ![r].person = None,
                             ![r].company = c, ![r].step = 1]
    /\ UNCHANGED <<postgres, rows, active>>

OfEveryAccount(r, table) == {Id(row) : row \in {x \in Seen(job[r]) : x.table = table}}
OfTheAccount(r, table) ==
    LET c == job[r].company
    IN IF table = "user" THEN {<<"user", c>>} \cap Ids(Seen(job[r]))
       ELSE {Id(row) : row \in {x \in Seen(job[r]) : x.table = table /\ x.refs.owner = c}}
PurgeStep(r) ==
    /\ job[r].phase = "open" /\ job[r].op = "purge" /\ job[r].step \in 1..Len(PurgeOrder)
    /\ LET ids == OfTheAccount(r, PurgeOrder[job[r].step])
       IN IF ids = {} THEN job' = [job EXCEPT ![r].step = @ + 1]
          ELSE Collect(r, ids, "purge")
    /\ UNCHANGED <<postgres, rows, active>>

\* The rows collected go, once nobody else is deleting or changing them.
Apply(r) ==
    LET j == job[r]
    IN /\ j.phase = "deleting"
       /\ \A id \in j.picked \cup {n[1] : n \in j.toEmpty} : ~Held(r, id)
       /\ job' = [job EXCEPT ![r].phase = "open", ![r].step = @ + 1,
                             ![r].gone = @ \cup j.picked, ![r].nulled = @ \cup j.toEmpty,
                             ![r].picked = {}, ![r].toEmpty = {}]
       /\ UNCHANGED <<postgres, rows, active>>

\* The references are checked when the transaction commits.
Dangling(set) ==
    \E row \in set : \E c \in DOMAIN row.refs :
       row.refs[c] # None /\ Target(row, c) \notin Ids(set)

Finished(j) ==
    /\ j.phase = "open"
    /\ j.op # None
    /\ j.op = "purge" => j.step > Len(PurgeOrder)

\* A row that refers to one under deletion waits for that deletion.  Others see
\* the commit at once: what it deleted is no longer theirs to delete.
Commit(r) ==
    LET j == job[r]
        set == After(j)
    IN /\ Finished(j)
       /\ \A row \in j.new : \A c \in DOMAIN row.refs : ~Held(r, Target(row, c))
       /\ IF Dangling(set)
          THEN /\ job' = [job EXCEPT ![r] = Refused(r, j.op)]
               /\ UNCHANGED rows
          ELSE /\ rows' = set
               /\ job' = [q \in Req |->
                            IF q = r THEN Idle
                            ELSE [job[q] EXCEPT
                                    !.picked = @ \ j.gone,
                                    !.raced = @ \/ (job[q].company = j.company /\ j.new # {})]]
       /\ UNCHANGED <<postgres, active>>

\* Answered, refused, or given up as the victim of a deadlock.
Leave(r) ==
    /\ job[r].phase # "idle"
    /\ job' = [job EXCEPT ![r] = Idle]
    /\ UNCHANGED <<postgres, rows, active>>

-----------------------------------------------------------------------------
(* The team: who works in whose company (Invitations).                     *)

Join(c, p) ==
    /\ c \in HasOwn /\ "membership" \in InPlay[c]
    /\ p \in Person \ HasOwn /\ Exists(c) /\ Exists(p)
    /\ <<"membership", c>> \notin Ids(rows)
    /\ \A r \in Req : \A x \in {c, p} : <<"user", x>> \notin job[r].gone
    /\ rows' = rows \cup {Row("membership", c, [account |-> c, user |-> p])}
    /\ active' = active \cup {c}
    /\ job' = [r \in Req |-> [job[r] EXCEPT !.raced = @ \/ job[r].company \in {c, p}]]
    /\ UNCHANGED postgres

Toggle(c) ==
    /\ <<"membership", c>> \in Ids(rows)
    /\ active' = IF c \in active THEN active \ {c} ELSE active \cup {c}
    /\ UNCHANGED <<postgres, rows, job>>

Next ==
    \/ \E r \in Req :
          \/ \E p \in Person : \E header \in Person \cup {None} : Enter(r, p, header)
          \/ \E t \in Table : Insert(r, t) \/ DeleteRow(r, t)
          \/ \E c \in Person : BeginPurge(r, c)
          \/ PurgeStep(r) \/ Apply(r) \/ Commit(r) \/ Leave(r)
    \/ \E c, p \in Person : Join(c, p)
    \/ \E c \in Person : Toggle(c)

Spec == Init /\ [][Next]_vars

-----------------------------------------------------------------------------
\* A row refers to rows of its own company and no other, with the policies of
\* PostgreSQL or without (common/fields.py, common/rls.py).
OneCompanyEach ==
    \A row \in rows : ~IsShared(row) =>
       \A c \in DOMAIN row.refs : row.refs[c] \in {row.company, None}

\* What a transaction deletes or empties is of its company, however far it
\* cascades and whatever others commit between its steps, with the policies or
\* without; and of other companies, that its account worked there
\* (apps/accounts/deletion.py, the on_delete of the models).
DeletesItsOwn ==
    [][\A row \in rows \ rows' :
          \E r \in Req :
             /\ job[r].phase = "open" /\ job'[r] = Idle
             /\ \/ row.company = job[r].company
                \/ IsShared(row) /\ \E c \in DOMAIN row.refs : row.refs[c] = job[r].company]_rows

\* Deleting an account, or a plan, is refused only if somebody wrote in that
\* company meanwhile: the order of purge_account meets no protected row.
OnlyRacesRefuse ==
    \A r \in Req :
       job[r].phase = "refused" /\ job[r].op \in {"purge", "plan"} => job[r].raced
=============================================================================
