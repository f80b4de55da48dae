-------------------------- MODULE CompaniesProofs --------------------------
(***************************************************************************)
(* The rows of a company stay apart from those of the others, for any      *)
(* companies, collaborators and requests; a deletion reaches no row of     *)
(* another company, and that of an account meets no row that another       *)
(* protects. Of the tables the argument uses what TLC evaluates of them in *)
(* every run: PoliciesReachTheAccount, ReferencesAreNamed,                 *)
(* SharedTablesAreKnown and ModelsAreMigrated, and the on_delete of each   *)
(* column.                                                                 *)
(*                                                                         *)
(* A policy looks at the row at the end of its path, and nothing else      *)
(* keeps the rows on the way in one company: that is what has to be shown  *)
(* of every row written, committed or not, together. A deletion collects   *)
(* the least set that its cascades close, which is why it stays in the     *)
(* company and why, taken in the order of purge_account, it leaves nothing *)
(* that protects.  Of the tables without a policy, such as memberships,    *)
(* the rows in its hands are there still when it commits, since no two     *)
(* requests have deleted the same one: they refer to its account.          *)
(***************************************************************************)
EXTENDS Companies, FiniteSetTheorems, TLAPS

\* A row of a table with the columns of the table, those of an isolated one
\* within its company.
Sound(row) ==
    /\ row = Row(row.table, row.company, row.refs)
    /\ row.table \in Table /\ row.company # None
    /\ DOMAIN row.refs = DOMAIN Ref(row.table)
    /\ row.refs = [c \in DOMAIN row.refs |-> row.refs[c]]
    /\ ~IsShared(row) => \A c \in DOMAIN row.refs : row.refs[c] \in {row.company, None}

AllSound(set) == \A row \in set : Sound(row)

\* So are the committed rows, and those a request has written.
WrittenApart ==
    /\ DOMAIN job = Req
    /\ \A r \in Req : "new" \in DOMAIN job[r]
    /\ AllSound(rows)
    /\ \A r \in Req : AllSound(job[r].new)

-----------------------------------------------------------------------------
LEMMA SmallestNumber ==
  ASSUME NEW T \in SUBSET Nat, T # {}
  PROVE  \E n \in T : \A m \in T : n <= m
<1> DEFINE R == OpToRel(<, Nat)
<1>1. IsWellFoundedOn(R, Nat)
  BY NatLessThanWellFounded
<1>2. PICK n \in T : \A m \in T : <<m, n>> \notin R
  <2> HIDE DEF R
  <2> QED BY <1>1, WFMin
<1>3. \A m \in T : ~(m < n)
  BY <1>2 DEF OpToRel
<1> QED BY <1>3

\* A row on the way up is of the same company, in an isolated table whose policy
\* is what is left of the way.
OnTheWay(set, row, path, x, k) ==
    LET q == Tables[x.table].path
    IN /\ x \in set /\ ~IsShared(x) /\ x.company = row.company
       /\ Len(q) = Len(path) - k + 1
       /\ \A j \in 1..Len(q) : q[j] = path[k + j - 1]

LEMMA PolicyIsPath ==
  ASSUME NEW row, Sound(row), ~IsShared(row)
  PROVE  /\ Tables[row.table].path \in Seq(STRING)
         /\ Len(Tables[row.table].path) \in Nat \ {0}
<1>1. Tables[row.table].path \in Seq(STRING) /\ Tables[row.table].path # <<>>
  BY PoliciesReachTheAccount DEF Sound, IsShared, IsSharedTable, Shared
<1> QED BY <1>1

\* From a row on the way, one column that is never empty leads further up, to a
\* row of the same company, in an isolated table.
LEMMA StepUp ==
  ASSUME NEW set, AllSound(set), NEW row, NEW path, NEW n \in Nat, n = Len(path),
         NEW k \in 1..n, k + 1 \in 1..n, NEW x, OnTheWay(set, row, path, x, k)
  PROVE  /\ path[k] \in DOMAIN Ref(x.table) /\ ~Ref(x.table)[path[k]].null
         /\ \A y \in set : Target(x, path[k]) = Id(y) => OnTheWay(set, row, path, y, k + 1)
<1>1. PICK q : q = Tables[x.table].path
  OBVIOUS
<1>2. /\ x \in set /\ ~IsShared(x) /\ x.company = row.company /\ Sound(x)
      /\ Len(q) = n - k + 1 /\ \A j \in 1..Len(q) : q[j] = path[k + j - 1]
  BY <1>1 DEF AllSound, OnTheWay
<1>3. q \in Seq(STRING) /\ q # Shared
  BY <1>1, <1>2, PoliciesReachTheAccount DEF Sound, IsShared, IsSharedTable
<1>4. Head(q) = path[k] /\ Tail(q) # <<>>
  <2>1. Len(q) >= 2 /\ 1 \in 1..Len(q) /\ k + 1 - 1 = k
    BY <1>2
  <2>2. q[1] = path[k]
    BY <1>2, <2>1
  <2>3. q \in Seq(STRING) /\ q # <<>>
    BY <1>3 DEF Shared
  <2>4. Head(q) = q[1]
    BY <2>3
  <2>5. Len(q) \in Nat /\ Len(Tail(q)) = Len(q) - 1 /\ Len(<<>>) = 0
    BY <2>3
  <2>6. Tail(q) # <<>>
    <3>1. PICK m \in Nat : m = Len(q)
      BY <2>5
    <3>2. m >= 2
      BY <2>1, <3>1, Zenon
    <3>3. m - 1 # 0
      BY <3>2
    <3> QED BY <2>5, <3>1, <3>3, Zenon
  <2> QED BY <2>2, <2>4, <2>6
<1>5. /\ path[k] \in DOMAIN Ref(x.table) /\ ~Ref(x.table)[path[k]].null
      /\ Ref(x.table)[path[k]].to \in Table
      /\ Tables[Ref(x.table)[path[k]].to].path = Tail(q)
  <2>1. /\ Head(q) \in DOMAIN Ref(x.table) /\ ~Ref(x.table)[Head(q)].null
        /\ IF Tail(q) = <<>> THEN Ref(x.table)[Head(q)].to = "user"
           ELSE /\ Ref(x.table)[Head(q)].to \in Table
                /\ Tables[Ref(x.table)[Head(q)].to].path = Tail(q)
    BY <1>1, <1>2, <1>3, PoliciesReachTheAccount, Zenon DEF Sound
  <2> QED BY <1>4, <2>1
<1>6. ASSUME NEW y \in set, Target(x, path[k]) = Id(y)
      PROVE  OnTheWay(set, row, path, y, k + 1)
  <2>1. Sound(y)
    BY DEF AllSound
  <2>2. y.table = Ref(x.table)[path[k]].to /\ y.company = x.refs[path[k]]
    BY <1>6 DEF Target, Id
  <2>3. y.company = row.company
    BY <1>2, <1>5, <2>1, <2>2 DEF Sound
  <2>4. Tables[y.table].path = Tail(q)
    BY <1>5, <2>2
  <2>5. ~IsShared(y)
    BY <1>4, <2>4 DEF IsShared, IsSharedTable, Shared
  <2>6. /\ Len(Tail(q)) = n - (k + 1) + 1
        /\ \A j \in 1..Len(Tail(q)) : Tail(q)[j] = path[(k + 1) + j - 1]
    <3>1. /\ Len(Tail(q)) = Len(q) - 1
          /\ \A j \in 1..Len(Tail(q)) : Tail(q)[j] = q[j + 1] /\ j + 1 \in 1..Len(q)
      BY <1>3 DEF Shared
    <3>2. \A j \in 1..Len(Tail(q)) : Tail(q)[j] = path[k + (j + 1) - 1]
      BY <1>2, <3>1
    <3>3. \A j \in 1..Len(Tail(q)) : k + (j + 1) - 1 = (k + 1) + j - 1
      BY <3>1
    <3>4. Len(q) - 1 = n - (k + 1) + 1
      BY <1>2
    <3> QED BY <3>1, <3>2, <3>3, <3>4
  <2> QED BY <2>3, <2>4, <2>5, <2>6 DEF OnTheWay
<1> QED BY <1>5, <1>6

\* The row at the end of the way names its account in the one column left.
LEMMA EndOfTheWay ==
  ASSUME NEW set, AllSound(set), NEW row, NEW path, NEW n \in Nat, n = Len(path), n # 0,
         NEW x, OnTheWay(set, row, path, x, n)
  PROVE  /\ Sound(x) /\ x \in set /\ ~IsShared(x) /\ x.company = row.company
         /\ path[n] \in DOMAIN Ref(x.table) /\ ~Ref(x.table)[path[n]].null
<1>1. PICK q : q = Tables[x.table].path
  OBVIOUS
<1>2. /\ x \in set /\ ~IsShared(x) /\ x.company = row.company /\ Sound(x)
      /\ Len(q) = 1 /\ q[1] = path[n]
  <2>1. /\ x \in set /\ ~IsShared(x) /\ x.company = row.company
        /\ Len(q) = n - n + 1 /\ \A j \in 1..Len(q) : q[j] = path[n + j - 1]
    BY <1>1 DEF OnTheWay
  <2>2. n - n + 1 = 1 /\ n + 1 - 1 = n
    OBVIOUS
  <2> QED BY <2>1, <2>2 DEF AllSound
<1>3. q \in Seq(STRING) /\ q # Shared
  BY <1>1, <1>2, PoliciesReachTheAccount DEF Sound, IsShared, IsSharedTable
<1>4. Head(q) \in DOMAIN Ref(x.table) /\ ~Ref(x.table)[Head(q)].null
  BY <1>1, <1>2, <1>3, PoliciesReachTheAccount, Zenon DEF Sound
<1>5. Head(q) = q[1]
  BY <1>2, <1>3
<1> QED BY <1>2, <1>4, <1>5

\* The way up from a sound row stays in its company, through isolated tables,
\* whose policies are what is left of its own.
LEMMA WayUp ==
  ASSUME NEW set, AllSound(set), NEW row \in set, ~IsShared(row),
         NEW path, path = Tables[row.table].path,
         NEW up \in WaysUp(set, row, path)
  PROVE  \A k \in 1..Len(path) : OnTheWay(set, row, path, Above(row, up, k), k)
<1> DEFINE n == Len(path)
           Good(k) == OnTheWay(set, row, path, Above(row, up, k), k)
<1>1. path \in Seq(STRING) /\ n \in Nat \ {0}
  BY PolicyIsPath DEF AllSound
<1>2. Good(1)
  BY <1>1 DEF Above, OnTheWay
<1>3. ASSUME NEW k \in 1..n, k + 1 \in 1..n, Good(k) PROVE Good(k + 1)
  <2>1. PICK x : x = Above(row, up, k)
    OBVIOUS
  <2>2. PICK y : y = Above(row, up, k + 1)
    OBVIOUS
  <2>3. y \in set /\ Target(x, path[k]) = Id(y)
    <3>1. up \in [2..n -> set] /\ k + 1 \in 2..n
      BY <1>1, <1>3 DEF WaysUp
    <3>2. y = up[k + 1]
      BY <1>1, <2>2 DEF Above
    <3>3. Target(Above(row, up, (k + 1) - 1), path[(k + 1) - 1]) = Id(up[k + 1])
      BY <3>1 DEF WaysUp
    <3>4. (k + 1) - 1 = k
      OBVIOUS
    <3> QED BY <2>1, <3>1, <3>2, <3>3, <3>4
  <2> HIDE DEF n
  <2>4. OnTheWay(set, row, path, y, k + 1)
    BY <1>1, <1>3, <2>1, <2>3, StepUp DEF n
  <2> QED BY <2>2, <2>4
<1>4. \A k \in 1..n : Good(k)
  <2> DEFINE T == {k \in 1..n : ~Good(k)}
  <2> SUFFICES ASSUME T # {} PROVE FALSE
    OBVIOUS
  <2> HIDE DEF Good
  <2>1. PICK k \in T : \A m \in T : k <= m
    <3>1. T \in SUBSET Nat
      BY <1>1
    <3> HIDE DEF T
    <3> QED BY <3>1, SmallestNumber
  <2>2. k - 1 \in 1..n /\ (k - 1) + 1 = k
    BY <1>1, <1>2, <2>1
  <2>3. Good(k - 1)
    BY <2>1, <2>2
  <2> QED BY <1>3, <2>1, <2>2, <2>3
<1> QED BY <1>4

\* What a policy says of a sound row is its company.
LEMMA OwnerIsCompany ==
  ASSUME NEW set, AllSound(set), NEW row \in set, ~IsShared(row), OwnerOf(set, row) # None
  PROVE  OwnerOf(set, row) = row.company
<1>1. PICK path : path = Tables[row.table].path
  OBVIOUS
<1>2. PICK up \in WaysUp(set, row, path) :
        OwnerOf(set, row) = Above(row, up, Len(path)).refs[path[Len(path)]]
  BY <1>1 DEF OwnerOf
<1>3. PICK x : x = Above(row, up, Len(path))
  OBVIOUS
<1>4. Len(path) \in Nat \ {0}
  BY <1>1, PolicyIsPath DEF AllSound
<1>5. OnTheWay(set, row, path, x, Len(path))
  BY <1>1, <1>3, <1>4, WayUp
<1>6. /\ Sound(x) /\ ~IsShared(x) /\ x.company = row.company
      /\ path[Len(path)] \in DOMAIN Ref(x.table)
  <2>1. PICK n \in Nat : n = Len(path)
    BY <1>4
  <2>2. /\ Sound(x) /\ ~IsShared(x) /\ x.company = row.company
        /\ path[n] \in DOMAIN Ref(x.table)
    BY <1>4, <1>5, <2>1, EndOfTheWay
  <2> QED BY <2>1, <2>2
<1> QED BY <1>2, <1>3, <1>6 DEF Sound

-----------------------------------------------------------------------------
(* The rows of every step. *)

LEMMA NewIsSound ==
  ASSUME NEW table \in Table, NEW company, company # None,
         NEW refs, DOMAIN refs = DOMAIN Ref(table), refs = [c \in DOMAIN refs |-> refs[c]],
         ~IsSharedTable(table) => \A c \in DOMAIN refs : refs[c] \in {company, None}
  PROVE  Sound(Row(table, company, refs))
  BY DEF Sound, Row, IsShared

\* A row with some of its references emptied is sound.
LEMMA EmptiedIsSound ==
  ASSUME NEW row, Sound(row), NEW nulled PROVE Sound(Emptied(row, nulled))
<1> DEFINE refs == [c \in DOMAIN row.refs |-> IF <<Id(row), c>> \in nulled THEN None
                                              ELSE row.refs[c]]
<1>1. row = [table |-> row.table, company |-> row.company, refs |-> row.refs]
  BY DEF Sound, Row
<1>2. Emptied(row, nulled) = [table |-> row.table, company |-> row.company, refs |-> refs]
  <2>1. Emptied(row, nulled) = [row EXCEPT !.refs = refs]
    BY DEF Emptied
  <2> HIDE DEF refs
  <2>2. [[table |-> row.table, company |-> row.company, refs |-> row.refs]
           EXCEPT !.refs = refs]
          = [table |-> row.table, company |-> row.company, refs |-> refs]
    OBVIOUS
  <2> QED BY <1>1, <2>1, <2>2, Zenon
<1>3. /\ row.table \in Table /\ row.company # None /\ DOMAIN refs = DOMAIN Ref(row.table)
      /\ refs = [c \in DOMAIN refs |-> refs[c]]
      /\ ~IsSharedTable(row.table) => \A c \in DOMAIN refs : refs[c] \in {row.company, None}
  BY DEF Sound, IsShared
<1> HIDE DEF refs
<1>4. Sound(Row(row.table, row.company, refs))
  BY <1>3, NewIsSound
<1> QED BY <1>2, <1>4 DEF Row

LEMMA AfterIsSound ==
  ASSUME AllSound(rows), NEW j, AllSound(j.new) PROVE AllSound(After(j))
  BY EmptiedIsSound DEF AllSound, After

\* What a request finds in the other tables is of its company.
LEMMA FoundIsOwn ==
  ASSUME AllSound(rows), NEW j, AllSound(j.new), j.company # None, NEW row \in Found(j)
  PROVE  row.company = j.company
<1>1. row \in After(j) /\ ~IsShared(row) /\ OwnerOf(After(j), row) = j.company
  BY DEF Found, Seen
<1> QED BY <1>1, AfterIsSound, OwnerIsCompany

LEMMA InsertIsSound ==
  ASSUME WrittenApart, NEW r \in Req, NEW table \in Table, Insert(r, table)
  PROVE  WrittenApart'
<1>1. PICK refs \in [DOMAIN Ref(table) -> Person \cup {None}] :
        /\ \A c \in DOMAIN refs : refs[c] \in Value(r, table, c)
        /\ job' = [job EXCEPT ![r].op = "insert", ![r].person = None,
                     ![r].new = @ \cup {Row(table, job[r].company, refs)}, ![r].step = @ + 1]
  BY DEF Insert
<1>2. /\ job[r].company # None /\ ~IsSharedTable(table) /\ rows' = rows
  BY DEF Insert
<1>3. ASSUME NEW c \in DOMAIN refs PROVE refs[c] \in {job[r].company, None}
  <2>1. \A row \in Found(job[r]) : row.company = job[r].company
    BY <1>2, FoundIsOwn DEF WrittenApart
  <2>2. refs[c] \in Value(r, table, c)
    BY <1>1
  <2> QED BY <2>1, <2>2 DEF Value
<1>4. Sound(Row(table, job[r].company, refs))
  BY <1>2, <1>3, NewIsSound
<1>5. /\ DOMAIN job' = Req
      /\ \A q \in Req : /\ "new" \in DOMAIN job'[q]
                        /\ job'[q].new = IF q = r THEN job[r].new \cup {Row(table, job[r].company, refs)}
                                         ELSE job[q].new
  BY <1>1 DEF WrittenApart
<1> QED BY <1>2, <1>4, <1>5 DEF WrittenApart, AllSound

\* The other steps of a request write no row, and forget what they wrote or not.
LEMMA StepsKeepNew ==
  ASSUME WrittenApart, NEW r \in Req,
         \/ \E p \in Person : \E header \in Person \cup {None} : Enter(r, p, header)
         \/ \E t \in Table : DeleteRow(r, t)
         \/ \E c \in Person : BeginPurge(r, c)
         \/ PurgeStep(r) \/ Apply(r) \/ Leave(r)
  PROVE  WrittenApart'
<1>0. /\ DOMAIN job = Req /\ (\A q \in Req : "new" \in DOMAIN job[q])
      /\ AllSound(rows) /\ (\A q \in Req : AllSound(job[q].new))
  BY DEF WrittenApart
<1>1. "new" \in DOMAIN Idle /\ Idle.new = {}
  BY DEF Idle
<1>2. ASSUME NEW next, job' = [job EXCEPT ![r] = next], "new" \in DOMAIN next,
             next.new \in {{}, job[r].new}, rows' = rows
      PROVE  WrittenApart'
  <2>1. /\ DOMAIN job' = Req
        /\ \A q \in Req : job'[q] = IF q = r THEN next ELSE job[q]
    BY <1>0, <1>2
  <2> QED BY <1>0, <1>2, <2>1 DEF WrittenApart, AllSound
<1>3. ASSUME NEW ids, NEW op, Collect(r, ids, op), rows' = rows PROVE WrittenApart'
  <2>1. CASE job' = [job EXCEPT ![r] = Refused(r, op)]
    <3>1. "new" \in DOMAIN Refused(r, op) /\ Refused(r, op).new = {}
      BY DEF Refused, Idle
    <3> QED BY <1>2, <1>3, <2>1, <3>1
  <2>2. CASE ~(job' = [job EXCEPT ![r] = Refused(r, op)])
    <3> DEFINE all == Collected(Seen(job[r]), ids)
               next == [job[r] EXCEPT !.phase = "deleting", !.op = op, !.person = None,
                                      !.picked = all, !.toEmpty = ToEmpty(Seen(job[r]), all)]
    <3>1. job' = [job EXCEPT ![r] = next]
      BY <1>3, <2>2 DEF Collect
    <3>2. "new" \in DOMAIN next /\ next.new = job[r].new
      BY <1>0
    <3> HIDE DEF next
    <3> QED BY <1>2, <1>3, <3>1, <3>2
  <2> QED BY <2>1, <2>2
<1>4. ASSUME NEW p \in Person, NEW header \in Person \cup {None}, Enter(r, p, header)
      PROVE  WrittenApart'
  <2>1. PICK c \in AccountOf(p, header) :
          job' = [job EXCEPT ![r] = [Idle EXCEPT !.phase = "open", !.person = p, !.company = c]]
    BY <1>4 DEF Enter
  <2>2. PICK next : next = [Idle EXCEPT !.phase = "open", !.person = p, !.company = c]
    OBVIOUS
  <2>3. "new" \in DOMAIN next /\ next.new = {}
    BY <2>2 DEF Idle
  <2> QED BY <1>2, <1>4, <2>1, <2>2, <2>3 DEF Enter
<1>5. ASSUME NEW t \in Table, DeleteRow(r, t) PROVE WrittenApart'
  BY <1>3, <1>5 DEF DeleteRow
<1>6. ASSUME NEW c \in Person, BeginPurge(r, c) PROVE WrittenApart'
  <2>1. PICK next : next = [job[r] EXCEPT !.op = "purge", !.person = None,
                                          !.company = c, !.step = 1]
    OBVIOUS
  <2>2. job' = [job EXCEPT ![r] = next]
    BY <1>6, <2>1 DEF BeginPurge
  <2>3. "new" \in DOMAIN next /\ next.new = job[r].new
    BY <1>0, <2>1
  <2> QED BY <1>2, <1>6, <2>2, <2>3 DEF BeginPurge
<1>7. ASSUME PurgeStep(r) PROVE WrittenApart'
  <2>1. CASE job' = [job EXCEPT ![r].step = @ + 1]
    <3>1. PICK next : next = [job[r] EXCEPT !.step = @ + 1]
      OBVIOUS
    <3>2. job' = [job EXCEPT ![r] = next]
      BY <2>1, <3>1
    <3>3. "new" \in DOMAIN next /\ next.new = job[r].new
      BY <1>0, <3>1
    <3> QED BY <1>2, <1>7, <3>2, <3>3 DEF PurgeStep
  <2>2. CASE ~(job' = [job EXCEPT ![r].step = @ + 1])
    <3>1. \E ids : Collect(r, ids, "purge")
      BY <1>7, <2>2 DEF PurgeStep
    <3> QED BY <1>3, <1>7, <3>1 DEF PurgeStep
  <2> QED BY <2>1, <2>2
<1>8. ASSUME Apply(r) PROVE WrittenApart'
  <2>1. PICK next : next = [job[r] EXCEPT !.phase = "open", !.step = @ + 1,
                              !.gone = @ \cup job[r].picked, !.nulled = @ \cup job[r].toEmpty,
                              !.picked = {}, !.toEmpty = {}]
    OBVIOUS
  <2>2. job' = [job EXCEPT ![r] = next]
    BY <1>8, <2>1 DEF Apply
  <2>3. "new" \in DOMAIN next /\ next.new = job[r].new
    BY <1>0, <2>1
  <2> QED BY <1>2, <1>8, <2>2, <2>3 DEF Apply
<1>9. ASSUME Leave(r) PROVE WrittenApart'
  BY <1>1, <1>2, <1>9 DEF Leave
<1> QED BY <1>4, <1>5, <1>6, <1>7, <1>8, <1>9

\* Of the tables that requests do not write: users, their workspaces and those
\* who work in them.
LEMMA AccountTables ==
  /\ {"user", "organization", "membership"} \subseteq Table
  /\ \A t \in {"user", "organization", "membership"} :
       IsSharedTable(t) /\ \A c \in DOMAIN Ref(t) : Ref(t)[c].to = "user"
  /\ DOMAIN Ref("user") = {}
  /\ DOMAIN Ref("organization") = {"user"}
  /\ DOMAIN Ref("membership") = {"account", "user"}
<1>1. /\ \A t \in {"user", "organization", "membership"} :
           /\ t \in Table /\ IsSharedTable(t)
           /\ \A c \in DOMAIN Ref(t) : Ref(t)[c].to = "user"
  <2>1. {"user", "organization", "membership"} \subseteq SharedTables
    BY DEF SharedTables
  <2>2. \A t \in SharedTables : t \in Table /\ Tables[t].path = Shared
    BY SharedTablesAreKnown
  <2> QED BY <2>1, <2>2, SharedTablesAreKnown DEF IsSharedTable
<1>2. /\ DOMAIN Ref("user") = DOMAIN AllModels["user"].gone
      /\ DOMAIN Ref("organization") = DOMAIN AllModels["organization"].gone
      /\ DOMAIN Ref("membership") = DOMAIN AllModels["membership"].gone
  BY <1>1, ModelsAreMigrated
<1>3. /\ AllModels["user"] = User /\ AllModels["organization"] = Organization
      /\ AllModels["membership"] = Membership
  BY DEF AllModels
<1>4. /\ DOMAIN User.gone = {} /\ DOMAIN Organization.gone = {"user"}
      /\ DOMAIN Membership.gone = {"account", "user"}
  BY DEF User, Organization, Membership, Model
<1> QED BY <1>1, <1>2, <1>3, <1>4

LEMMA InitApart == ASSUME Init PROVE WrittenApart
<1>1. ASSUME NEW p \in Person PROVE Sound(Row("user", p, NoColumns))
  <2>1. DOMAIN NoColumns = {} /\ NoColumns = [c \in {} |-> NoColumns[c]]
    BY DEF NoColumns
  <2>2. /\ "user" \in Table /\ IsSharedTable("user") /\ p # None /\ DOMAIN Ref("user") = {}
    BY AccountTables, CompaniesAssumption
  <2> QED BY <2>1, <2>2, NewIsSound
<1>2. ASSUME NEW p \in HasOwn PROVE Sound(Row("organization", p, [user |-> p]))
  <2>1. DOMAIN [user |-> p] = {"user"}
    OBVIOUS
  <2>2. /\ "organization" \in Table /\ IsSharedTable("organization") /\ p # None
        /\ DOMAIN Ref("organization") = {"user"}
    BY AccountTables, CompaniesAssumption
  <2>3. [user |-> p] = [c \in {"user"} |-> [user |-> p][c]]
    OBVIOUS
  <2> QED BY <2>1, <2>2, <2>3, NewIsSound
<1>3. AllSound(rows)
  BY <1>1, <1>2 DEF AllSound, Init
<1>4. DOMAIN job = Req /\ \A r \in Req : job[r] = Idle
  BY DEF Init
<1>5. "new" \in DOMAIN Idle /\ Idle.new = {}
  BY DEF Idle
<1> QED BY <1>3, <1>4, <1>5 DEF WrittenApart, AllSound

LEMMA CommitIsSound ==
  ASSUME WrittenApart, NEW r \in Req, Commit(r) PROVE WrittenApart'
<1>0. /\ DOMAIN job = Req /\ (\A q \in Req : "new" \in DOMAIN job[q])
      /\ AllSound(rows) /\ (\A q \in Req : AllSound(job[q].new))
  BY DEF WrittenApart
<1>1. "new" \in DOMAIN Idle /\ Idle.new = {}
  BY DEF Idle
<1>2. CASE Dangling(After(job[r]))
  <2>1. job' = [job EXCEPT ![r] = Refused(r, job[r].op)] /\ rows' = rows
    BY <1>2 DEF Commit
  <2>2. "new" \in DOMAIN Refused(r, job[r].op) /\ Refused(r, job[r].op).new = {}
    BY DEF Refused, Idle
  <2>3. \A q \in Req : job'[q] = IF q = r THEN Refused(r, job[r].op) ELSE job[q]
    BY <1>0, <2>1
  <2> QED BY <1>0, <2>1, <2>2, <2>3 DEF WrittenApart, AllSound
<1>3. CASE ~Dangling(After(job[r]))
  <2> DEFINE next(q) == [job[q] EXCEPT
                           !.picked = @ \ job[r].gone,
                           !.raced = @ \/ (job[q].company = job[r].company /\ job[r].new # {})]
  <2>1. rows' = After(job[r]) /\ job' = [q \in Req |-> IF q = r THEN Idle ELSE next(q)]
    BY <1>3 DEF Commit
  <2>2. AllSound(rows')
    BY <1>0, <2>1, AfterIsSound
  <2>3. \A q \in Req : "new" \in DOMAIN next(q) /\ next(q).new = job[q].new
    BY <1>0
  <2> HIDE DEF next
  <2> QED BY <1>0, <1>1, <2>1, <2>2, <2>3 DEF WrittenApart, AllSound
<1> QED BY <1>2, <1>3

LEMMA JoinIsSound ==
  ASSUME WrittenApart, NEW c \in Person, NEW p \in Person, Join(c, p) PROVE WrittenApart'
<1>0. /\ DOMAIN job = Req /\ (\A q \in Req : "new" \in DOMAIN job[q])
      /\ AllSound(rows) /\ (\A q \in Req : AllSound(job[q].new))
  BY DEF WrittenApart
<1>1. Sound(Row("membership", c, [account |-> c, user |-> p]))
  <2>1. DOMAIN [account |-> c, user |-> p] = {"account", "user"}
    OBVIOUS
  <2> QED BY <2>1, AccountTables, CompaniesAssumption, NewIsSound
<1> DEFINE next(q) == [job[q] EXCEPT !.raced = @ \/ job[q].company \in {c, p}]
<1>2. /\ rows' = rows \cup {Row("membership", c, [account |-> c, user |-> p])}
      /\ job' = [q \in Req |-> next(q)]
  BY DEF Join
<1>3. \A q \in Req : "new" \in DOMAIN next(q) /\ next(q).new = job[q].new
  BY <1>0
<1> HIDE DEF next
<1> QED BY <1>0, <1>1, <1>2, <1>3 DEF WrittenApart, AllSound

LEMMA NextIsSound == WrittenApart /\ [Next]_vars => WrittenApart'
<1> SUFFICES ASSUME WrittenApart, [Next]_vars PROVE WrittenApart'
  OBVIOUS
<1>1. ASSUME NEW r \in Req, NEW t \in Table, Insert(r, t) PROVE WrittenApart'
  BY <1>1, InsertIsSound
<1>2. ASSUME NEW r \in Req,
             \/ \E p \in Person : \E header \in Person \cup {None} : Enter(r, p, header)
             \/ \E t \in Table : DeleteRow(r, t)
             \/ \E c \in Person : BeginPurge(r, c)
             \/ PurgeStep(r) \/ Apply(r) \/ Leave(r)
      PROVE  WrittenApart'
  BY <1>2, StepsKeepNew
<1>3. ASSUME NEW r \in Req, Commit(r) PROVE WrittenApart'
  BY <1>3, CommitIsSound
<1>4. ASSUME NEW c \in Person, NEW p \in Person, Join(c, p) PROVE WrittenApart'
  BY <1>4, JoinIsSound
<1>5. CASE rows' = rows /\ job' = job
  BY <1>5 DEF WrittenApart
<1>6. ASSUME NEW c \in Person, Toggle(c) PROVE WrittenApart'
  BY <1>5, <1>6 DEF Toggle
<1>7. CASE UNCHANGED vars
  BY <1>5, <1>7 DEF vars
<1>8. CASE Next
  <2>1. CASE \E r \in Req :
               \/ \E p \in Person : \E header \in Person \cup {None} : Enter(r, p, header)
               \/ \E t \in Table : Insert(r, t) \/ DeleteRow(r, t)
               \/ \E c \in Person : BeginPurge(r, c)
               \/ PurgeStep(r) \/ Apply(r) \/ Commit(r) \/ Leave(r)
    BY <1>1, <1>2, <1>3, <2>1
  <2>2. CASE \E c, p \in Person : Join(c, p)
    BY <1>4, <2>2
  <2>3. CASE \E c \in Person : Toggle(c)
    BY <1>6, <2>3
  <2> QED BY <1>8, <2>1, <2>2, <2>3 DEF Next
<1> QED BY <1>7, <1>8

-----------------------------------------------------------------------------
\* Whatever requests run at once, committed rows refer to rows of their own
\* company, with policies in the database or without (common/fields.py,
\* common/rls.py).
THEOREM CompaniesStayApart == Spec => []OneCompanyEach
<1>1. Init => WrittenApart
  BY InitApart
<1>2. WrittenApart /\ [Next]_vars => WrittenApart'
  BY NextIsSound
<1>3. WrittenApart => OneCompanyEach
  BY DEF WrittenApart, AllSound, Sound, OneCompanyEach
<1> QED BY <1>1, <1>2, <1>3, PTL DEF Spec

\* A row refers to rows that are there: the database checks it when a transaction
\* commits (the references of the migrations).
RowsHaveParents ==
    \A row \in rows : \A c \in DOMAIN row.refs :
       row.refs[c] # None => Target(row, c) \in Ids(rows)

LEMMA AlwaysParents == Spec => []RowsHaveParents
<1>1. ASSUME Init PROVE RowsHaveParents
  <2>1. ASSUME NEW row \in rows, NEW c \in DOMAIN row.refs
        PROVE  Target(row, c) \in Ids(rows)
    <3>1. CASE \E p \in Person : row = Row("user", p, NoColumns)
      BY <3>1 DEF Row, NoColumns
    <3>2. CASE \E p \in HasOwn : row = Row("organization", p, [user |-> p])
      <4>1. PICK p \in HasOwn : row = Row("organization", p, [user |-> p])
        BY <3>2
      <4>2. c = "user" /\ Target(row, c) = <<"user", p>>
        BY <4>1, AccountTables DEF Row, Target
      <4>3. Row("user", p, NoColumns) \in rows
        BY <1>1, CompaniesAssumption DEF Init
      <4>4. Id(Row("user", p, NoColumns)) = <<"user", p>>
        BY DEF Id, Row
      <4> QED BY <4>2, <4>3, <4>4 DEF Ids
    <3> QED BY <1>1, <3>1, <3>2 DEF Init
  <2> QED BY <2>1 DEF RowsHaveParents
<1>2. ASSUME RowsHaveParents, NEW c \in Person, NEW p \in Person, Join(c, p)
      PROVE  RowsHaveParents'
  <2> DEFINE new == Row("membership", c, [account |-> c, user |-> p])
  <2>1. rows' = rows \cup {new} /\ <<"user", c>> \in Ids(rows) /\ <<"user", p>> \in Ids(rows)
    BY <1>2 DEF Join, Exists
  <2>2. Ids(rows) \subseteq Ids(rows')
    BY <2>1 DEF Ids
  <2>3. \A d \in DOMAIN new.refs : Target(new, d) \in Ids(rows)
    <3>1. \A d \in DOMAIN new.refs : d \in {"account", "user"}
      BY DEF Row
    <3>2. Target(new, "account") = <<"user", c>> /\ Target(new, "user") = <<"user", p>>
      BY AccountTables DEF Row, Target
    <3> QED BY <2>1, <3>1, <3>2
  <2> HIDE DEF new
  <2> QED BY <1>2, <2>1, <2>2, <2>3 DEF RowsHaveParents
<1>3. ASSUME RowsHaveParents, NEW r \in Req, Commit(r) PROVE RowsHaveParents'
  <2>1. CASE Dangling(After(job[r]))
    BY <1>3, <2>1 DEF Commit, RowsHaveParents
  <2>2. CASE ~Dangling(After(job[r]))
    BY <1>3, <2>2 DEF Commit, RowsHaveParents, Dangling
  <2> QED BY <2>1, <2>2
<1>4. ASSUME RowsHaveParents, rows' = rows PROVE RowsHaveParents'
  BY <1>4 DEF RowsHaveParents
<1>5. ASSUME NEW r \in Req, NEW t \in Table, Insert(r, t) \/ DeleteRow(r, t) PROVE rows' = rows
  BY <1>5 DEF Insert, DeleteRow
<1>6. ASSUME NEW r \in Req,
             \/ \E p \in Person : \E header \in Person \cup {None} : Enter(r, p, header)
             \/ \E c \in Person : BeginPurge(r, c)
             \/ PurgeStep(r) \/ Apply(r) \/ Leave(r)
      PROVE  rows' = rows
  BY <1>6 DEF Enter, BeginPurge, PurgeStep, Apply, Leave
<1>7. ASSUME NEW c \in Person, Toggle(c) PROVE rows' = rows
  BY <1>7 DEF Toggle
<1>8. ASSUME RowsHaveParents, [Next]_vars PROVE RowsHaveParents'
  <2>1. CASE UNCHANGED vars
    BY <1>4, <1>8, <2>1 DEF vars
  <2>2. ASSUME NEW r \in Req,
               \/ \E p \in Person : \E header \in Person \cup {None} : Enter(r, p, header)
               \/ \E t \in Table : Insert(r, t) \/ DeleteRow(r, t)
               \/ \E c \in Person : BeginPurge(r, c)
               \/ PurgeStep(r) \/ Apply(r) \/ Commit(r) \/ Leave(r)
        PROVE  RowsHaveParents'
    BY <1>3, <1>4, <1>5, <1>6, <1>8, <2>2
  <2>3. ASSUME NEW c \in Person, NEW p \in Person, Join(c, p) PROVE RowsHaveParents'
    BY <1>2, <1>8, <2>3
  <2>4. ASSUME NEW c \in Person, Toggle(c) PROVE RowsHaveParents'
    BY <1>4, <1>7, <1>8, <2>4
  <2> QED BY <1>8, <2>1, <2>2, <2>3, <2>4 DEF Next
<1> QED BY <1>1, <1>8, PTL DEF Spec

\* A request of the API finds rows of its own company only, and with the policies
\* of the database sees no other row of an isolated table
\* (OwnedPrimaryKeyRelatedField, tenant_isolation).  The platform operator, who
\* reads all companies in the admin and writes none, is not one.
SeesItsOwn ==
    \A r \in Req : job[r].company # None =>
       /\ \A row \in Found(job[r]) : row.company = job[r].company
       /\ postgres => \A row \in Seen(job[r]) : IsShared(row) \/ row.company = job[r].company

\* Whatever others commit between two steps of it, a request works on its own
\* company (common/fields.py, common/rls.py).
THEOREM RequestsSeeTheirOwn == Spec => []SeesItsOwn
<1>1. Init => WrittenApart
  BY InitApart
<1>2. WrittenApart /\ [Next]_vars => WrittenApart'
  BY NextIsSound
<1>3. WrittenApart => SeesItsOwn
  <2> SUFFICES ASSUME WrittenApart, NEW r \in Req, job[r].company # None
               PROVE  /\ \A row \in Found(job[r]) : row.company = job[r].company
                      /\ postgres => \A row \in Seen(job[r]) :
                           IsShared(row) \/ row.company = job[r].company
    BY DEF SeesItsOwn
  <2>1. AllSound(rows) /\ AllSound(job[r].new)
    BY DEF WrittenApart
  <2>2. \A row \in Found(job[r]) : row.company = job[r].company
    BY <2>1, FoundIsOwn
  <2>3. ASSUME postgres, NEW row \in Seen(job[r]), ~IsShared(row)
        PROVE  row.company = job[r].company
    <3>1. row \in After(job[r]) /\ OwnerOf(After(job[r]), row) = job[r].company
      BY <2>3 DEF Seen, Passes
    <3> QED BY <2>1, <2>3, <3>1, AfterIsSound, OwnerIsCompany
  <2> QED BY <2>2, <2>3
<1> QED BY <1>1, <1>2, <1>3, PTL DEF Spec

-----------------------------------------------------------------------------
(* What Django collects: the least set of rows there are that has those it *)
(* starts from and all that cascade from them.                             *)

LEMMA ImageIsFinite ==
  ASSUME NEW S, IsFiniteSet(S), NEW f
  PROVE  IsFiniteSet({f[x] : x \in S})
<1> DEFINE T == {f[x] : x \in S}
           g == [x \in S |-> f[x]]
<1>1. g \in Surjection(S, T)
  BY DEF Surjection
<1> HIDE DEF g, T
<1> QED BY <1>1, FS_Surjection DEF T

LEMMA IdsAreFinite == ASSUME NEW set, IsFiniteSet(set) PROVE IsFiniteSet(Ids(set))
<1> DEFINE f == [row \in set |-> Id(row)]
<1>1. Ids(set) = {f[row] : row \in set}
  BY DEF Ids
<1> HIDE DEF f
<1> QED BY <1>1, ImageIsFinite

IsCollector(set, from) ==
    from = [some \in SUBSET Ids(set) |->
              IF WithCascades(set, some) = some THEN some ELSE from[WithCascades(set, some)]]

LEMMA CollectedIs ==
  ASSUME NEW set, NEW ids
  PROVE  Collected(set, ids) = (CHOOSE from : IsCollector(set, from))[ids]
BY DEF Collected, IsCollector

LEMMA WithCascadesAdds ==
  ASSUME NEW set, NEW some \in SUBSET Ids(set)
  PROVE  WithCascades(set, some) \in SUBSET Ids(set) /\ some \subseteq WithCascades(set, some)
BY DEF WithCascades, By, Ids

\* What is left to collect becomes less with every round.
LEMMA LessIsLeft ==
  ASSUME NEW set, IsFiniteSet(Ids(set)), NEW some \in SUBSET Ids(set)
  PROVE  LET left == Cardinality(Ids(set) \ some)
             next == Cardinality(Ids(set) \ WithCascades(set, some))
         IN left \in Nat /\ next \in Nat /\ (WithCascades(set, some) # some => next <= left - 1)
<1> DEFINE L == Ids(set) \ some
           M == Ids(set) \ WithCascades(set, some)
<1>1. L \in SUBSET Ids(set) /\ M \in SUBSET L
  BY WithCascadesAdds
<1>2. IsFiniteSet(L)
  BY <1>1, FS_Subset
<1>3. /\ Cardinality(L) \in Nat /\ Cardinality(M) \in Nat
      /\ Cardinality(M) <= Cardinality(L)
      /\ Cardinality(L) = Cardinality(M) => L = M
  BY <1>1, <1>2, FS_Subset, FS_CardinalityType
<1>4. WithCascades(set, some) # some => L # M
  BY WithCascadesAdds
<1> HIDE DEF L, M
<1>5. WithCascades(set, some) # some => Cardinality(M) <= Cardinality(L) - 1
  BY <1>3, <1>4
<1> QED BY <1>3, <1>5 DEF L, M

LEMMA CollectorExists ==
  ASSUME NEW set, IsFiniteSet(Ids(set))
  PROVE  \E from : IsCollector(set, from)
<1> DEFINE Left(some) == Cardinality(Ids(set) \ some)
           Upto(n) == {some \in SUBSET Ids(set) : Left(some) <= n}
           Is(n, g) == g = [some \in Upto(n) |-> IF WithCascades(set, some) = some THEN some
                                                 ELSE g[WithCascades(set, some)]]
           T == {n \in Nat : ~ \E g : Is(n, g)}
<1>1. \A some \in SUBSET Ids(set) :
        /\ Left(some) \in Nat /\ WithCascades(set, some) \in SUBSET Ids(set)
        /\ WithCascades(set, some) # some =>
             /\ Left(WithCascades(set, some)) \in Nat
             /\ Left(WithCascades(set, some)) <= Left(some) - 1
  BY LessIsLeft, WithCascadesAdds
<1>2. \E g : Is(0, g)
  <2>1. \A some \in Upto(0) : WithCascades(set, some) = some
    <3> HIDE DEF Left
    <3> QED BY <1>1
  <2>2. Is(0, [some \in Upto(0) |-> some])
    BY <2>1
  <2> QED BY <2>2
<1>3. ASSUME NEW n \in Nat, n # 0, NEW g, Is(n - 1, g)
      PROVE  \E h : Is(n, h)
  <2> DEFINE h == [some \in Upto(n) |-> IF WithCascades(set, some) = some THEN some
                                        ELSE g[WithCascades(set, some)]]
  <2>0. Upto(n - 1) \subseteq Upto(n)
    <3> HIDE DEF Left
    <3> QED BY <1>1, <1>3
  <2>1. ASSUME NEW some \in Upto(n - 1) PROVE h[some] = g[some]
    <3>1. some \in Upto(n)
      BY <2>0
    <3>2. h[some] = IF WithCascades(set, some) = some THEN some
                    ELSE g[WithCascades(set, some)]
      BY <3>1
    <3>3. g[some] = IF WithCascades(set, some) = some THEN some
                    ELSE g[WithCascades(set, some)]
      BY <1>3, <2>1
    <3> QED BY <3>2, <3>3
  <2>2. ASSUME NEW some \in Upto(n), WithCascades(set, some) # some
        PROVE  g[WithCascades(set, some)] = h[WithCascades(set, some)]
    <3>1. WithCascades(set, some) \in Upto(n - 1)
      <4> HIDE DEF Left
      <4> QED BY <1>1, <1>3, <2>2
    <3> HIDE DEF h, Upto
    <3> QED BY <2>1, <3>1
  <2>3. h = [some \in Upto(n) |-> IF WithCascades(set, some) = some THEN some
                                  ELSE h[WithCascades(set, some)]]
    <3> HIDE DEF Upto
    <3> QED BY <2>2
  <2> QED BY <2>3
<1>4. T = {}
  <2>1. SUFFICES ASSUME T # {} PROVE FALSE
    OBVIOUS
  <2>2. PICK n \in T : \A m \in T : n <= m
    <3>1. T \in SUBSET Nat
      OBVIOUS
    <3> HIDE DEF T
    <3> QED BY <2>1, <3>1, SmallestNumber
  <2>3. n # 0
    <3> HIDE DEF Is
    <3> QED BY <1>2, <2>2
  <2>4. n - 1 \in Nat /\ n - 1 \notin T
    <3>1. n \in Nat /\ ~(n <= n - 1)
      OBVIOUS
    <3> HIDE DEF T
    <3> QED BY <2>2, <2>3, <3>1
  <2> HIDE DEF Is
  <2> QED BY <1>3, <2>2, <2>3, <2>4
<1>5. Cardinality(Ids(set)) \in Nat
  BY FS_CardinalityType
<1>6. PICK g : Is(Cardinality(Ids(set)), g)
  <2> HIDE DEF Is
  <2> QED BY <1>4, <1>5
<1>7. Upto(Cardinality(Ids(set))) = SUBSET Ids(set)
  <2>1. ASSUME NEW some \in SUBSET Ids(set) PROVE Left(some) <= Cardinality(Ids(set))
    <3>1. Ids(set) \ some \in SUBSET Ids(set)
      OBVIOUS
    <3> QED BY <3>1, FS_Subset
  <2> HIDE DEF Left
  <2> QED BY <2>1
<1> QED BY <1>6, <1>7 DEF IsCollector

\* No row cascades out of a set.
Closed(set, B) ==
    \A row \in set : \A c \in DOMAIN row.refs :
       /\ row.refs[c] # None /\ Target(row, c) \in B
       /\ OnDelete(row.table, c) = Cascade
       => Id(row) \in B

LEMMA ClosedMeans ==
  ASSUME NEW set, NEW some
  PROVE  WithCascades(set, some) = some <=> Closed(set, some)
BY DEF Closed, WithCascades, By, Ids, ColumnsTo

\* What is collected is closed, and within every closed set that has the rows it
\* starts from.
LEMMA CollectedIsLeast ==
  ASSUME NEW set, IsFiniteSet(set), NEW ids \in SUBSET Ids(set)
  PROVE  /\ ids \subseteq Collected(set, ids) /\ Collected(set, ids) \subseteq Ids(set)
         /\ Closed(set, Collected(set, ids))
         /\ \A B : Closed(set, B) /\ ids \subseteq B => Collected(set, ids) \subseteq B
<1>1. IsFiniteSet(Ids(set))
  BY IdsAreFinite
<1>2. PICK from : IsCollector(set, from) /\ Collected(set, ids) = from[ids]
  BY <1>1, CollectedIs, CollectorExists
<1>3. \A some \in SUBSET Ids(set) :
        from[some] = IF WithCascades(set, some) = some THEN some
                     ELSE from[WithCascades(set, some)]
  <2>1. from = [some \in SUBSET Ids(set) |->
              IF WithCascades(set, some) = some THEN some ELSE from[WithCascades(set, some)]]
    BY <1>2 DEF IsCollector
  <2> QED BY <2>1
<1> DEFINE Least(some) ==
             /\ some \subseteq from[some] /\ from[some] \subseteq Ids(set)
             /\ Closed(set, from[some])
             /\ \A B : Closed(set, B) /\ some \subseteq B => from[some] \subseteq B
           Left(some) == Cardinality(Ids(set) \ some)
           T == {n \in Nat : \E some \in SUBSET Ids(set) : Left(some) = n /\ ~Least(some)}
<1>4. \A some \in SUBSET Ids(set) :
        /\ Left(some) \in Nat /\ WithCascades(set, some) \in SUBSET Ids(set)
        /\ some \subseteq WithCascades(set, some)
        /\ WithCascades(set, some) # some =>
             /\ Left(WithCascades(set, some)) \in Nat
             /\ Left(WithCascades(set, some)) <= Left(some) - 1
  BY <1>1, LessIsLeft, WithCascadesAdds
<1>5. ASSUME NEW some \in SUBSET Ids(set), Least(WithCascades(set, some)) \/
             WithCascades(set, some) = some
      PROVE  Least(some)
  <2>1. CASE WithCascades(set, some) = some
    BY <1>3, <2>1, ClosedMeans
  <2>2. CASE WithCascades(set, some) # some
    <3>1. from[some] = from[WithCascades(set, some)] /\ Least(WithCascades(set, some))
      BY <1>3, <1>5, <2>2
    <3>2. ASSUME NEW B, Closed(set, B), some \subseteq B
          PROVE  WithCascades(set, some) \subseteq B
      BY <3>2 DEF Closed, WithCascades, By, Ids, ColumnsTo
    <3>3. some \subseteq WithCascades(set, some)
      BY <1>4
    <3> QED BY <3>1, <3>2, <3>3
  <2> QED BY <2>1, <2>2
<1>6. T = {}
  <2>1. SUFFICES ASSUME T # {} PROVE FALSE
    OBVIOUS
  <2>2. PICK n \in T : \A m \in T : n <= m
    <3>1. T \in SUBSET Nat
      OBVIOUS
    <3> HIDE DEF T
    <3> QED BY <2>1, <3>1, SmallestNumber
  <2> HIDE DEF Least, Left
  <2>3. PICK some \in SUBSET Ids(set) : Left(some) = n /\ ~Least(some)
    BY <2>2
  <2>4. WithCascades(set, some) # some /\ ~Least(WithCascades(set, some))
    BY <1>5, <2>3
  <2>5. Left(WithCascades(set, some)) \in T
    BY <1>4, <2>4
  <2> QED BY <1>4, <2>2, <2>3, <2>4, <2>5
<1>7. Least(ids)
  <2>1. Left(ids) \in Nat
    BY <1>4
  <2> HIDE DEF Least, Left
  <2> QED BY <1>6, <2>1
<1> QED BY <1>2, <1>7

-----------------------------------------------------------------------------
(* The references between the tables, and what Django does along each.     *)

Edges ==
    {<<"quote", "client", Protect>>, <<"quote", "plan", SetNull>>,
     <<"quoteitem", "quote", Cascade>>, <<"quoteitem", "tariff", Protect>>,
     <<"room", "quote_item", Cascade>>, <<"project", "quote", Protect>>,
     <<"progress", "project", Cascade>>, <<"progress", "quote_item", Protect>>,
     <<"progress", "worker", Protect>>, <<"evidence", "progress", Cascade>>,
     <<"payment", "project", Cascade>>, <<"payment", "quote_item", SetNull>>,
     <<"workerservice", "worker", Cascade>>, <<"workerservice", "tariff", Cascade>>,
     <<"assignment", "project", Cascade>>, <<"assignment", "quote_item", Cascade>>,
     <<"assignment", "worker", Protect>>, <<"workerpayment", "worker", Protect>>,
     <<"workerpayment", "project", SetNull>>}
ToAnAccount == {"owner", "account", "user"}
AlongAnEdge(t) ==
    \A c \in DOMAIN AllModels[t].gone :
       \/ c \in ToAnAccount /\ OnDelete(t, c) = Cascade
       \/ <<t, c, OnDelete(t, c)>> \in Edges

LEMMA EdgesAreKnown == \A t \in Table : AlongAnEdge(t)
<1>1. \A t \in {"user", "subscription", "organization", "otpcode", "acceptance", "membership",
                "invitation"} : AlongAnEdge(t)
  BY DEF AlongAnEdge, OnDelete, AllModels, ToAnAccount, User, Subscription, Organization,
         OtpCode, LegalAcceptance, Membership, Invitation, Model
<1>2. \A t \in {"tariff", "client", "plan", "photo", "planasset", "catalogmodel", "worker",
                "foliosetting", "foliocounter", "issuedfolio"} : AlongAnEdge(t)
  BY DEF AlongAnEdge, OnDelete, AllModels, ToAnAccount, Tariff, Client, Plan, PhotoConversion,
         PlanAsset, CatalogModel, Worker, FolioSetting, FolioCounter, IssuedFolio, Model
<1>3. \A t \in {"quote", "quoteitem", "room", "project", "progress"} : AlongAnEdge(t)
  BY DEF AlongAnEdge, OnDelete, AllModels, ToAnAccount, Edges, Quote, QuoteItem, QuoteItemRoom,
         Project, Progress, Model
<1>4. \A t \in {"evidence", "payment", "workerservice", "assignment", "workerpayment"} :
        AlongAnEdge(t)
  BY DEF AlongAnEdge, OnDelete, AllModels, ToAnAccount, Edges, Evidence, Payment, WorkerService,
         Assignment, WorkerPayment, Model
<1>5. \A t \in DOMAIN AllModels :
        \/ t \in {"user", "subscription", "organization", "otpcode", "acceptance", "membership",
                  "invitation"}
        \/ t \in {"tariff", "client", "plan", "photo", "planasset", "catalogmodel", "worker",
                  "foliosetting", "foliocounter", "issuedfolio"}
        \/ t \in {"quote", "quoteitem", "room", "project", "progress"}
        \/ t \in {"evidence", "payment", "workerservice", "assignment", "workerpayment"}
  BY DEF AllModels
<1> QED BY <1>1, <1>2, <1>3, <1>4, <1>5, ModelsAreMigrated

\* A row of an isolated table refers to accounts and to rows of isolated tables.
Within(t) == t = "user" \/ ~IsSharedTable(t)

LEMMA TablesWithin ==
  ASSUME NEW t \in Table, ~IsSharedTable(t), NEW c \in DOMAIN Ref(t)
  PROVE  Within(Ref(t)[c].to)
<1>1. \A x \in {"tariff", "client", "plan", "quote", "quoteitem", "project", "progress",
                "worker"} : x \in Table /\ ~IsSharedTable(x)
  <2>1. \A x \in {"tariff", "client", "plan", "quote", "quoteitem", "project", "progress",
                  "worker"} : x \in Table /\ x \notin SharedTables
    BY ModelsAreMigrated DEF AllModels, SharedTables
  <2> QED BY <2>1, SharedTablesAreKnown DEF IsSharedTable
<1>2. c \in DOMAIN TableOf /\ Ref(t)[c].to = TableOf[c]
  BY ReferencesAreNamed
<1>3. \A d \in DOMAIN TableOf :
        TableOf[d] \in {"user", "tariff", "client", "plan", "quote", "quoteitem", "project",
                        "progress", "worker"}
  BY DEF TableOf
<1> QED BY <1>1, <1>2, <1>3 DEF Within

\* The tables purge_account empties one after the other, by their owner.
LEMMA PurgedTables ==
  \A k \in 1..Len(PurgeOrder) :
     /\ PurgeOrder[k] \in Table
     /\ PurgeOrder[k] # "user" =>
          /\ ~IsSharedTable(PurgeOrder[k])
          /\ "owner" \in DOMAIN Ref(PurgeOrder[k]) /\ ~Ref(PurgeOrder[k])["owner"].null
          /\ Ref(PurgeOrder[k])["owner"].to = "user"
<1>1. \A k \in 1..Len(PurgeOrder) :
        PurgeOrder[k] \in {"workerpayment", "payment", "project", "quote", "worker", "tariff",
                           "client", "plan", "planasset", "catalogmodel", "user"}
  BY DEF PurgeOrder
<1> DEFINE T == {"workerpayment", "payment", "project", "quote", "worker", "tariff", "client",
                 "plan", "planasset", "catalogmodel"}
<1>2. T \subseteq Table /\ "user" \in Table
  BY ModelsAreMigrated DEF AllModels
<1>3. \A t \in T : ~IsSharedTable(t)
  BY <1>2, SharedTablesAreKnown DEF IsSharedTable, SharedTables
<1>4. \A t \in T : "owner" \in DOMAIN AllModels[t].gone
  BY DEF AllModels, Model, WorkerPayment, Payment, Project, Quote, Worker, Tariff, Client, Plan,
         PlanAsset, CatalogModel
<1>5. \A t \in T : <<t, "owner">> \notin MayLack
  BY DEF MayLack
<1>6. \A t \in T : /\ "owner" \in DOMAIN Ref(t) /\ ~Ref(t)["owner"].null
                   /\ Ref(t)["owner"].to = "user"
  <2>1. TableOf["owner"] = "user"
    BY DEF TableOf
  <2> QED BY <1>2, <1>4, <1>5, <2>1, ModelsAreMigrated, ReferencesAreNamed
<1> HIDE DEF T
<1>7. \A k \in 1..Len(PurgeOrder) : PurgeOrder[k] = "user" \/ PurgeOrder[k] \in T
  BY <1>1 DEF T
<1> QED BY <1>2, <1>3, <1>6, <1>7

\* The columns through which a line, a progress and an assignment go with what
\* they belong to, and those that protect a row.
LEMMA WorkColumns ==
  /\ {"quoteitem", "progress", "assignment"} \subseteq Table
  /\ "quote" \in DOMAIN Ref("quoteitem") /\ ~Ref("quoteitem")["quote"].null
  /\ Ref("quoteitem")["quote"].to = "quote"
  /\ \A t \in {"progress", "assignment"} :
       /\ "project" \in DOMAIN Ref(t) /\ ~Ref(t)["project"].null
       /\ Ref(t)["project"].to = "project"
<1>1. {"quoteitem", "progress", "assignment"} \subseteq Table
  BY ModelsAreMigrated DEF AllModels
<1>2. /\ "quote" \in DOMAIN AllModels["quoteitem"].gone
      /\ \A t \in {"progress", "assignment"} : "project" \in DOMAIN AllModels[t].gone
  BY DEF AllModels, Model, QuoteItem, Progress, Assignment
<1>3. /\ "quote" \in DOMAIN Ref("quoteitem")
      /\ \A t \in {"progress", "assignment"} : "project" \in DOMAIN Ref(t)
  BY <1>1, <1>2, ModelsAreMigrated
<1>4. /\ <<"quoteitem", "quote">> \notin MayLack
      /\ \A t \in {"progress", "assignment"} : <<t, "project">> \notin MayLack
  BY DEF MayLack
<1>5. TableOf["quote"] = "quote" /\ TableOf["project"] = "project"
  BY DEF TableOf
<1> QED BY <1>1, <1>3, <1>4, <1>5, ReferencesAreNamed

-----------------------------------------------------------------------------
(* Where no reference dangles and only columns that may be empty are, the  *)
(* policy sees every row of its company.                                   *)

Whole(row) == \A c \in DOMAIN row.refs : row.refs[c] = None => Ref(row.table)[c].null
AllWhole(set) == \A row \in set : Whole(row)
HasParents(set) ==
    \A row \in set : \A c \in DOMAIN row.refs :
       row.refs[c] # None => Target(row, c) \in Ids(set)

\* As far up as row k of the way.
WayTo(set, row, path, k, up) ==
    /\ up \in [2..k -> set]
    /\ \A i \in 2..k : Target(Above(row, up, i - 1), path[i - 1]) = Id(up[i])
    /\ OnTheWay(set, row, path, Above(row, up, k), k)

LEMMA WayExists ==
  ASSUME NEW set, AllSound(set), AllWhole(set), HasParents(set),
         NEW row \in set, ~IsShared(row), NEW path, path = Tables[row.table].path
  PROVE  WaysUp(set, row, path) # {}
<1> DEFINE n == Len(path)
           Good(k) == \E up : WayTo(set, row, path, k, up)
<1>1. path \in Seq(STRING) /\ n \in Nat \ {0}
  BY PolicyIsPath DEF AllSound
<1>2. Good(1)
  <2>1. OnTheWay(set, row, path, row, 1)
    BY <1>1 DEF OnTheWay
  <2> DEFINE up == [i \in 2..1 |-> row]
  <2>2. up \in [2..1 -> set] /\ \A i \in 2..1 : FALSE
    OBVIOUS
  <2> HIDE DEF up
  <2>3. Above(row, up, 1) = row
    BY DEF Above
  <2>4. WayTo(set, row, path, 1, up)
    BY <2>1, <2>2, <2>3 DEF WayTo
  <2> QED BY <2>4
<1>3. ASSUME NEW k \in 1..n, k + 1 \in 1..n, Good(k) PROVE Good(k + 1)
  <2>1. PICK up : WayTo(set, row, path, k, up)
    BY <1>3
  <2>2. PICK x : x = Above(row, up, k)
    OBVIOUS
  <2>3. OnTheWay(set, row, path, x, k)
    BY <2>1, <2>2 DEF WayTo
  <2>4. /\ path[k] \in DOMAIN Ref(x.table) /\ ~Ref(x.table)[path[k]].null
        /\ \A y \in set : Target(x, path[k]) = Id(y) => OnTheWay(set, row, path, y, k + 1)
    <3>1. PICK m \in Nat : m = n
      BY <1>1
    <3> HIDE DEF n
    <3> QED BY <1>1, <1>3, <2>3, <3>1, StepUp DEF n
  <2>5. x \in set /\ Sound(x) /\ Whole(x)
    BY <2>3 DEF OnTheWay, AllSound, AllWhole
  <2>6. path[k] \in DOMAIN x.refs /\ x.refs[path[k]] # None
    BY <2>4, <2>5 DEF Sound, Whole
  <2>7. PICK y \in set : Target(x, path[k]) = Id(y)
    BY <2>5, <2>6 DEF HasParents, Ids
  <2> DEFINE more == [i \in 2..(k + 1) |-> IF i = k + 1 THEN y ELSE up[i]]
  <2>8. up \in [2..k -> set] /\ k + 1 \in 2..(k + 1) /\ k \in Nat \ {0}
    BY <1>1, <1>3, <2>1 DEF WayTo
  <2>9. more \in [2..(k + 1) -> set]
    BY <2>7, <2>8
  <2>10. more[k + 1] = y /\ \A i \in 2..k : more[i] = up[i]
    BY <2>8
  <2> HIDE DEF more
  <2>11. \A i \in 1..k : Above(row, more, i) = Above(row, up, i)
    BY <2>8, <2>10 DEF Above
  <2>12. Above(row, more, k) = x /\ Above(row, more, k + 1) = y
    BY <2>2, <2>8, <2>10, <2>11 DEF Above
  <2>13. ASSUME NEW i \in 2..(k + 1)
         PROVE  Target(Above(row, more, i - 1), path[i - 1]) = Id(more[i])
    <3>1. CASE i = k + 1
      <4>1. i - 1 = k
        BY <2>8, <3>1
      <4> QED BY <2>7, <2>10, <2>12, <3>1, <4>1
    <3>2. CASE i # k + 1
      <4>1. i \in 2..k /\ i - 1 \in 1..k
        BY <2>8, <3>2
      <4> QED BY <2>1, <2>10, <2>11, <4>1 DEF WayTo
    <3> QED BY <3>1, <3>2
  <2>14. OnTheWay(set, row, path, y, k + 1)
    BY <2>4, <2>7
  <2>15. WayTo(set, row, path, k + 1, more)
    BY <2>9, <2>12, <2>13, <2>14 DEF WayTo
  <2> QED BY <2>15
<1>4. Good(n)
  <2> HIDE DEF Good
  <2> DEFINE T == {k \in 1..n : ~Good(k)}
  <2>0. n \in 1..n
    BY <1>1
  <2> SUFFICES ASSUME T # {} PROVE FALSE
    BY <2>0
  <2>1. PICK k \in T : \A m \in T : k <= m
    <3>1. T \in SUBSET Nat
      BY <1>1
    <3> HIDE DEF T
    <3> QED BY <3>1, SmallestNumber
  <2>2. k - 1 \in 1..n /\ (k - 1) + 1 = k
    BY <1>1, <1>2, <2>1
  <2>3. Good(k - 1)
    BY <2>1, <2>2
  <2> QED BY <1>3, <2>1, <2>2, <2>3
<1>5. PICK up : WayTo(set, row, path, n, up)
  BY <1>4
<1>6. up \in WaysUp(set, row, path)
  BY <1>5 DEF WayTo, WaysUp
<1> QED BY <1>6

LEMMA OwnerIsThere ==
  ASSUME NEW set, AllSound(set), AllWhole(set), HasParents(set),
         NEW row \in set, ~IsShared(row)
  PROVE  OwnerOf(set, row) = row.company
<1>1. PICK path : path = Tables[row.table].path
  OBVIOUS
<1>2. PICK up \in WaysUp(set, row, path) :
        OwnerOf(set, row) = Above(row, up, Len(path)).refs[path[Len(path)]]
  BY <1>1, WayExists DEF OwnerOf
<1>3. PICK n \in Nat : n = Len(path) /\ n # 0
  BY <1>1, PolicyIsPath DEF AllSound
<1>4. PICK x : x = Above(row, up, n)
  OBVIOUS
<1>5. OnTheWay(set, row, path, x, n)
  BY <1>1, <1>3, <1>4, WayUp
<1>6. /\ Sound(x) /\ x \in set
      /\ path[n] \in DOMAIN Ref(x.table) /\ ~Ref(x.table)[path[n]].null
  BY <1>3, <1>5, EndOfTheWay
<1>7. x.refs[path[n]] # None
  BY <1>6 DEF AllWhole, Whole, Sound
<1>8. OwnerOf(set, row) # None
  BY <1>2, <1>3, <1>4, <1>7
<1> QED BY <1>8, OwnerIsCompany

-----------------------------------------------------------------------------
(* A deletion that nobody raced leaves no reference behind, and that of an *)
(* account meets no row that protects another.  Of a request that deletes: *)
(* every row left that refers to one on its way out has been emptied       *)
(* there, and the tables purge_account is past have no row of the account  *)
(* left.                                                                   *)

DeleteOps == {"client", "tariff", "plan", "purge"}
Going(j) == j.gone \cup j.picked
Emptying(j) == j.nulled \cup j.toEmpty

Covered(set, j) ==
    \A x \in set : Id(x) \notin Going(j) =>
       \A c \in DOMAIN x.refs :
          x.refs[c] # None /\ Target(x, c) \in Going(j) => <<Id(x), c>> \in Emptying(j)

Behind(j) == IF j.phase = "deleting" THEN 1..j.step ELSE 1..(j.step - 1)
Swept(set, j) ==
    j.op = "purge" =>
       \A i \in Behind(j) : \A x \in set :
          x.table = PurgeOrder[i] /\ x.company = j.company => Id(x) \in Going(j)

\* What a request deletes or empties is of its company.
RowsOf(pairs) == {n[1] : n \in pairs}
OwnIds(ids, company) == \A id \in ids : Within(id[1]) => id[2] = company
MayBeEmpty(pairs) == \A n \in pairs : Ref(n[1][1])[n[2]].null

Written(j) ==
    /\ IsFiniteSet(j.new) /\ AllWhole(j.new)
    /\ \A row \in j.new : row.company = j.company /\ ~IsShared(row)
    /\ j.op # "insert" => j.new = {}
Deleted(j) ==
    /\ OwnIds(Going(j), j.company) /\ OwnIds(RowsOf(Emptying(j)), j.company)
    /\ MayBeEmpty(Emptying(j))
    /\ j.phase # "deleting" => j.picked = {} /\ j.toEmpty = {}
    /\ j.op \notin DeleteOps => j.gone = {} /\ j.nulled = {}
Ordered(j) ==
    /\ j.phase = "deleting" => j.op \in DeleteOps
    /\ j.op = "purge" /\ j.phase = "open" => j.step \in 1..(Len(PurgeOrder) + 1)
    /\ j.op = "purge" /\ j.phase = "deleting" => j.step \in 1..Len(PurgeOrder)
    /\ (j.raced \/ j.op = "purge") /\ j.phase \in {"open", "deleting"} => j.company # None
Sane(j) ==
    /\ DOMAIN Idle \subseteq DOMAIN j
    /\ j.phase \in {"idle", "open", "deleting", "refused"}
    /\ j.op \in {None, "insert"} \cup DeleteOps
    /\ j.step \in Nat /\ j.raced \in BOOLEAN
    /\ Written(j) /\ Deleted(j) /\ Ordered(j)

Thorough(set, j) ==
    ~j.raced /\ j.phase \in {"open", "deleting"} => Covered(set, j) /\ Swept(set, j)
Excused(j) == j.phase = "refused" /\ j.op \in {"purge", "plan"} => j.raced

InGoodOrder ==
    /\ IsFiniteSet(rows) /\ AllWhole(rows)
    /\ \A r \in Req : Sane(job[r]) /\ Thorough(rows, job[r]) /\ Excused(job[r])

LEMMA FieldsOfAJob ==
  DOMAIN Idle = {"phase", "op", "person", "company", "step", "picked", "toEmpty", "gone",
                 "nulled", "new", "raced"}
BY DEF Idle

LEMMA EmptiedIs ==
  ASSUME NEW row, Sound(row), NEW nulled
  PROVE  LET x == Emptied(row, nulled)
         IN /\ x.table = row.table /\ x.company = row.company /\ Id(x) = Id(row)
            /\ DOMAIN x.refs = DOMAIN row.refs
            /\ IsShared(x) <=> IsShared(row)
            /\ \A c \in DOMAIN row.refs :
                 x.refs[c] = IF <<Id(row), c>> \in nulled THEN None ELSE row.refs[c]
<1> DEFINE refs == [c \in DOMAIN row.refs |-> IF <<Id(row), c>> \in nulled THEN None
                                              ELSE row.refs[c]]
<1>1. row = [table |-> row.table, company |-> row.company, refs |-> row.refs]
  BY DEF Sound, Row
<1>2. Emptied(row, nulled) = [table |-> row.table, company |-> row.company, refs |-> refs]
  <2>1. Emptied(row, nulled) = [row EXCEPT !.refs = refs]
    BY DEF Emptied
  <2> HIDE DEF refs
  <2>2. [[table |-> row.table, company |-> row.company, refs |-> row.refs]
           EXCEPT !.refs = refs]
          = [table |-> row.table, company |-> row.company, refs |-> refs]
    OBVIOUS
  <2> QED BY <1>1, <2>1, <2>2, Zenon
<1> QED BY <1>2 DEF Id, IsShared

\* What is left of the committed rows, emptied where it may be, is whole.
Left(set, gone, nulled) == {Emptied(x, nulled) : x \in {y \in set : Id(y) \notin gone}}

LEMMA LeftIsWhole ==
  ASSUME NEW set, AllSound(set), AllWhole(set), IsFiniteSet(set), NEW gone, NEW nulled,
         MayBeEmpty(nulled)
  PROVE  AllWhole(Left(set, gone, nulled)) /\ IsFiniteSet(Left(set, gone, nulled))
<1>1. ASSUME NEW x \in set PROVE Whole(Emptied(x, nulled))
  <2> DEFINE y == Emptied(x, nulled)
  <2>1. Sound(x) /\ Whole(x)
    BY DEF AllSound, AllWhole
  <2>2. /\ y.table = x.table /\ DOMAIN y.refs = DOMAIN x.refs
        /\ \A c \in DOMAIN x.refs :
             y.refs[c] = IF <<Id(x), c>> \in nulled THEN None ELSE x.refs[c]
    BY <2>1, EmptiedIs
  <2>3. ASSUME NEW c \in DOMAIN x.refs, <<Id(x), c>> \in nulled PROVE Ref(x.table)[c].null
    BY <2>3 DEF MayBeEmpty, Id
  <2> HIDE DEF y
  <2> QED BY <2>1, <2>2, <2>3 DEF Whole, y
<1>2. IsFiniteSet(Left(set, gone, nulled))
  <2> DEFINE S == {y \in set : Id(y) \notin gone}
             f == [x \in S |-> Emptied(x, nulled)]
  <2>1. IsFiniteSet(S)
    BY FS_Subset
  <2>2. {f[x] : x \in S} = {Emptied(x, nulled) : x \in S}
    OBVIOUS
  <2> HIDE DEF S, f
  <2>3. IsFiniteSet({f[x] : x \in S})
    BY <2>1, ImageIsFinite
  <2> QED BY <2>2, <2>3 DEF S, Left
<1> QED BY <1>1, <1>2 DEF AllWhole, Left

\* A deletion as far as it is done: what the request would see is what the
\* database would check, and its policy sees the whole company.
Ready(j) ==
    /\ AllSound(rows) /\ AllWhole(rows) /\ HasParents(rows) /\ IsFiniteSet(rows)
    /\ Sane(j) /\ j.phase = "open" /\ j.op # "insert" /\ Covered(rows, j)

LEMMA WhatIsLeft ==
  ASSUME NEW j, Ready(j)
  PROVE  /\ AllSound(After(j)) /\ AllWhole(After(j)) /\ HasParents(After(j))
         /\ \A row \in After(j) : \E x \in rows :
              /\ Sound(x) /\ Whole(x) /\ Id(x) \notin j.gone
              /\ row = Emptied(x, j.nulled)
         /\ \A x \in rows : Id(x) \notin j.gone => Emptied(x, j.nulled) \in After(j)
<1>1. /\ j.new = {} /\ j.picked = {} /\ j.toEmpty = {} /\ MayBeEmpty(j.nulled)
      /\ Going(j) = j.gone /\ Emptying(j) = j.nulled
  BY DEF Ready, Sane, Written, Deleted, Going, Emptying
<1>2. After(j) = Left(rows, j.gone, j.nulled)
  BY <1>1 DEF After, Left
<1>3. AllSound(After(j)) /\ AllWhole(After(j))
  BY <1>1, <1>2, AfterIsSound, LeftIsWhole DEF Ready, AllSound
<1>4. ASSUME NEW row \in After(j)
      PROVE  \E x \in rows : /\ Sound(x) /\ Whole(x) /\ Id(x) \notin j.gone
                             /\ row = Emptied(x, j.nulled)
  BY <1>2 DEF Ready, AllSound, AllWhole, Left
<1>5. \A x \in rows : Id(x) \notin j.gone => Emptied(x, j.nulled) \in After(j)
  BY <1>2 DEF Left
<1>6. ASSUME NEW row \in After(j), NEW c \in DOMAIN row.refs, row.refs[c] # None
      PROVE  Target(row, c) \in Ids(After(j))
  <2>1. PICK x \in rows : /\ Sound(x) /\ Id(x) \notin j.gone /\ row = Emptied(x, j.nulled)
    BY <1>4
  <2>2. /\ c \in DOMAIN x.refs /\ <<Id(x), c>> \notin j.nulled
        /\ x.refs[c] = row.refs[c] /\ row.table = x.table
    BY <1>6, <2>1, EmptiedIs
  <2>3. Target(row, c) = Target(x, c) /\ Target(x, c) \in Ids(rows)
    BY <1>6, <2>2 DEF Target, Ready, HasParents
  <2>4. Target(x, c) \notin j.gone
    BY <1>1, <1>6, <2>1, <2>2 DEF Ready, Covered
  <2>5. PICK y \in rows : Id(y) = Target(x, c)
    BY <2>3 DEF Ids
  <2>6. Emptied(y, j.nulled) \in After(j) /\ Id(Emptied(y, j.nulled)) = Id(y)
    BY <1>5, <2>4, <2>5, EmptiedIs DEF Ready, AllSound
  <2> QED BY <2>3, <2>5, <2>6 DEF Ids
<1> QED BY <1>3, <1>4, <1>5, <1>6 DEF HasParents

LEMMA CompanyIsSeen ==
  ASSUME NEW j, Ready(j), NEW row \in After(j)
  PROVE  /\ row \in Seen(j) <=> IsShared(row) \/ ~postgres \/ row.company = j.company
         /\ row \in Found(j) <=> ~IsShared(row) /\ row.company = j.company
<1>1. ~IsShared(row) => OwnerOf(After(j), row) = row.company
  BY WhatIsLeft, OwnerIsThere
<1> QED BY <1>1 DEF Seen, Passes, Found

LEMMA SeenIsSound ==
  ASSUME AllSound(rows), IsFiniteSet(rows), NEW j, AllSound(j.new), Sane(j), AllWhole(rows)
  PROVE  AllSound(Seen(j)) /\ IsFiniteSet(Seen(j)) /\ IsFiniteSet(After(j))
<1>1. AllSound(After(j))
  BY AfterIsSound
<1>2. IsFiniteSet(After(j))
  <2>1. MayBeEmpty(j.nulled) /\ IsFiniteSet(j.new)
    BY DEF Sane, Written, Deleted, MayBeEmpty, Emptying
  <2>2. IsFiniteSet(Left(rows, j.gone, j.nulled))
    BY <2>1, LeftIsWhole
  <2>3. After(j) = Left(rows, j.gone, j.nulled) \cup j.new
    BY DEF After, Left
  <2> QED BY <2>1, <2>2, <2>3, FS_Union
<1>3. Seen(j) \in SUBSET After(j)
  BY DEF Seen
<1> QED BY <1>1, <1>2, <1>3, FS_Subset DEF AllSound

-----------------------------------------------------------------------------
(* What is collected: of the company, and in which tables.                 *)

\* Between isolated tables a deletion cascades within the company.
LEMMA CollectedIsOwn ==
  ASSUME NEW set, AllSound(set), IsFiniteSet(set), NEW ids \in SUBSET Ids(set), NEW company,
         OwnIds(ids, company)
  PROVE  OwnIds(Collected(set, ids), company)
<1> DEFINE B == {id \in Ids(set) : Within(id[1]) => id[2] = company}
<1>1. ASSUME NEW row \in set, NEW c \in DOMAIN row.refs, row.refs[c] # None,
             Target(row, c) \in B, Within(row.table)
      PROVE  row.company = company
  <2>1. Sound(row) /\ c \in DOMAIN Ref(row.table) /\ row.table \in Table
    BY DEF AllSound, Sound
  <2>2. row.table # "user"
    BY <2>1, AccountTables
  <2>3. ~IsSharedTable(row.table) /\ row.refs[c] = row.company
    BY <1>1, <2>1, <2>2 DEF Within, Sound, IsShared
  <2>4. Within(Ref(row.table)[c].to)
    BY <2>1, <2>3, TablesWithin
  <2> QED BY <1>1, <2>3, <2>4 DEF Target
<1>2. Closed(set, B)
  <2>1. ASSUME NEW row \in set, NEW c \in DOMAIN row.refs, row.refs[c] # None,
               Target(row, c) \in B
        PROVE  Id(row) \in B
    <3>1. Id(row) \in Ids(set) /\ Id(row)[1] = row.table /\ Id(row)[2] = row.company
      BY DEF Id, Ids
    <3> QED BY <1>1, <2>1, <3>1
  <2> HIDE DEF B
  <2> QED BY <2>1 DEF Closed
<1>3. ids \subseteq B
  BY DEF OwnIds
<1> HIDE DEF B
<1>4. Collected(set, ids) \subseteq B
  BY <1>2, <1>3, CollectedIsLeast
<1> QED BY <1>4 DEF B, OwnIds

\* Nothing outside these tables cascades from a row of them.
CascadesStay(T) ==
    \A t \in Table : \A c \in DOMAIN Ref(t) :
       OnDelete(t, c) = Cascade /\ Ref(t)[c].to \in T => t \in T
WorkTables == {"workerpayment", "payment", "project", "progress", "evidence", "assignment"}
QuoteTables == WorkTables \cup {"quote", "quoteitem", "room"}

LEMMA CascadesOfTheTables ==
  CascadesStay(WorkTables) /\ CascadesStay(QuoteTables) /\ CascadesStay({"plan"})
<1> SUFFICES ASSUME NEW t \in Table, NEW c \in DOMAIN Ref(t), OnDelete(t, c) = Cascade
             PROVE  /\ Ref(t)[c].to \in WorkTables => t \in WorkTables
                    /\ Ref(t)[c].to \in QuoteTables => t \in QuoteTables
                    /\ Ref(t)[c].to \in {"plan"} => t \in {"plan"}
  BY DEF CascadesStay
<1>1. Ref(t)[c].to = TableOf[c]
  BY ReferencesAreNamed
<1>2. c \in ToAnAccount \/ <<t, c, Cascade>> \in Edges
  BY EdgesAreKnown, ModelsAreMigrated DEF AlongAnEdge
<1>3. CASE c \in ToAnAccount
  BY <1>1, <1>3 DEF ToAnAccount, TableOf, WorkTables, QuoteTables
<1>4. CASE <<t, c, Cascade>> \in Edges
  <2>1. <<t, c>> \in {<<"quoteitem", "quote">>, <<"room", "quote_item">>,
                      <<"progress", "project">>, <<"evidence", "progress">>,
                      <<"payment", "project">>, <<"workerservice", "worker">>,
                      <<"workerservice", "tariff">>, <<"assignment", "project">>,
                      <<"assignment", "quote_item">>}
    BY <1>4 DEF Edges, Cascade, Protect, SetNull
  <2> QED BY <1>1, <2>1 DEF TableOf, WorkTables, QuoteTables
<1> QED BY <1>2, <1>3, <1>4

LEMMA CollectedStays ==
  ASSUME NEW set, AllSound(set), IsFiniteSet(set), NEW ids \in SUBSET Ids(set), NEW T,
         CascadesStay(T), \A id \in ids : id[1] \in T
  PROVE  \A id \in Collected(set, ids) : id[1] \in T
<1> DEFINE B == {id \in Ids(set) : id[1] \in T}
<1>1. ASSUME NEW row \in set, NEW c \in DOMAIN row.refs, Target(row, c) \in B,
             OnDelete(row.table, c) = Cascade
      PROVE  Id(row) \in B
  <2>1. row.table \in Table /\ c \in DOMAIN Ref(row.table)
    BY DEF AllSound, Sound
  <2>2. Ref(row.table)[c].to \in T
    BY <1>1 DEF Target
  <2>3. row.table \in T
    BY <1>1, <2>1, <2>2 DEF CascadesStay
  <2> QED BY <2>3 DEF Id, Ids
<1>2. ids \subseteq B
  OBVIOUS
<1> HIDE DEF B
<1>3. Closed(set, B)
  BY <1>1 DEF Closed
<1>4. Collected(set, ids) \subseteq B
  BY <1>2, <1>3, CollectedIsLeast
<1> QED BY <1>4 DEF B

\* The rows that protect others, and the tables of those.
LEMMA WhatProtects ==
  ASSUME NEW t \in Table, NEW c \in DOMAIN Ref(t), OnDelete(t, c) = Protect
  PROVE  /\ <<t, Ref(t)[c].to>> \in
               {<<"quote", "client">>, <<"quoteitem", "tariff">>, <<"project", "quote">>,
                <<"progress", "quoteitem">>, <<"progress", "worker">>,
                <<"assignment", "worker">>, <<"workerpayment", "worker">>}
         /\ ~IsSharedTable(t)
<1>1. Ref(t)[c].to = TableOf[c]
  BY ReferencesAreNamed
<1>2. <<t, c, Protect>> \in Edges
  <2>1. Cascade # Protect
    BY DEF Cascade, Protect
  <2> QED BY <2>1, EdgesAreKnown, ModelsAreMigrated DEF AlongAnEdge
<1>3. <<t, c>> \in {<<"quote", "client">>, <<"quoteitem", "tariff">>, <<"project", "quote">>,
                    <<"progress", "quote_item">>, <<"progress", "worker">>,
                    <<"assignment", "worker">>, <<"workerpayment", "worker">>}
  BY <1>2 DEF Edges, Cascade, Protect, SetNull
<1>4. t \notin SharedTables
  BY <1>3 DEF SharedTables
<1>5. ~IsSharedTable(t)
  BY <1>4, SharedTablesAreKnown DEF IsSharedTable
<1> QED BY <1>1, <1>3, <1>5 DEF TableOf

-----------------------------------------------------------------------------
(* One table of purge_account after the other.                             *)

\* What is left refers to nothing gone through a column that is never empty.
LEMMA NoneIsOrphaned ==
  ASSUME NEW j, Ready(j), NEW x \in rows, Id(x) \notin j.gone,
         NEW c \in DOMAIN x.refs, ~Ref(x.table)[c].null
  PROVE  Target(x, c) \in Ids(rows) /\ Target(x, c) \notin j.gone
<1>1. /\ j.picked = {} /\ j.toEmpty = {} /\ MayBeEmpty(j.nulled)
      /\ Going(j) = j.gone /\ Emptying(j) = j.nulled
  BY DEF Ready, Sane, Deleted, Going, Emptying
<1>2. x.refs[c] # None
  BY DEF Ready, AllWhole, Whole
<1>3. <<Id(x), c>> \notin j.nulled
  BY <1>1 DEF MayBeEmpty, Id
<1> QED BY <1>1, <1>2, <1>3 DEF Ready, HasParents, Covered

\* Of the tables a purge is past, no row of the account is left, nor of those
\* that need one.
LEMMA NoneIsLeft ==
  ASSUME NEW j, Ready(j), Swept(rows, j), j.op = "purge",
         NEW k \in 1..Len(PurgeOrder), j.step = k,
         NEW x \in rows, Id(x) \notin j.gone, x.company = j.company
  PROVE  /\ x.table = "workerpayment" => k = 1
         /\ x.table \in {"project", "progress", "assignment"} => k <= 3
         /\ x.table \in {"quote", "quoteitem"} => k <= 4
<1>1. /\ Len(PurgeOrder) = 11 /\ PurgeOrder[1] = "workerpayment"
      /\ PurgeOrder[3] = "project" /\ PurgeOrder[4] = "quote"
  BY DEF PurgeOrder
<1>2. ASSUME NEW i \in 1..Len(PurgeOrder), i < k, NEW y \in rows, y.table = PurgeOrder[i],
             y.company = j.company
      PROVE  Id(y) \in j.gone
  <2>1. Behind(j) = 1..(k - 1) /\ Going(j) = j.gone
    BY DEF Behind, Going, Ready, Sane, Deleted
  <2>2. i \in 1..(k - 1)
    BY <1>1, <1>2
  <2> QED BY <1>2, <2>1, <2>2 DEF Swept
<1>3. Sound(x)
  BY DEF Ready, AllSound
<1>4. ASSUME NEW i \in 1..Len(PurgeOrder), i < k, NEW c \in DOMAIN Ref(x.table),
             ~Ref(x.table)[c].null, Ref(x.table)[c].to = PurgeOrder[i], ~IsShared(x)
      PROVE  FALSE
  <2>1. c \in DOMAIN x.refs /\ x.refs[c] = x.company
    BY <1>3, <1>4 DEF Sound, Whole, Ready, AllWhole
  <2>2. Target(x, c) \in Ids(rows) /\ Target(x, c) \notin j.gone
    BY <1>4, <2>1, NoneIsOrphaned
  <2>3. Target(x, c) = <<PurgeOrder[i], j.company>>
    BY <1>4, <2>1 DEF Target
  <2>4. PICK y \in rows : Id(y) = Target(x, c)
    BY <2>2 DEF Ids
  <2>5. y.table = PurgeOrder[i] /\ y.company = j.company
    BY <2>3, <2>4 DEF Id
  <2> QED BY <1>2, <1>4, <2>2, <2>4, <2>5
<1>5. x.table = "workerpayment" => k = 1
  BY <1>1, <1>2
<1>6. x.table = "project" => k <= 3
  BY <1>1, <1>2
<1>7. x.table = "quote" => k <= 4
  BY <1>1, <1>2
<1>8. x.table \in {"progress", "assignment", "quoteitem"} => ~IsShared(x)
  <2>1. {"progress", "assignment", "quoteitem"} \cap SharedTables = {}
    BY DEF SharedTables
  <2> QED BY <2>1, WorkColumns, SharedTablesAreKnown DEF IsShared, IsSharedTable
<1>9. x.table \in {"progress", "assignment"} => k <= 3
  <2>1. ASSUME x.table \in {"progress", "assignment"}, ~(k <= 3) PROVE FALSE
    <3>1. 3 < k /\ 3 \in 1..Len(PurgeOrder)
      BY <1>1, <2>1
    <3>2. /\ "project" \in DOMAIN Ref(x.table) /\ ~Ref(x.table)["project"].null
          /\ Ref(x.table)["project"].to = PurgeOrder[3]
      BY <1>1, <2>1, WorkColumns
    <3> QED BY <1>4, <1>8, <2>1, <3>1, <3>2
  <2> QED BY <2>1
<1>10. x.table = "quoteitem" => k <= 4
  <2>1. ASSUME x.table = "quoteitem", ~(k <= 4) PROVE FALSE
    <3>1. 4 < k /\ 4 \in 1..Len(PurgeOrder)
      BY <1>1, <2>1
    <3>2. /\ "quote" \in DOMAIN Ref(x.table) /\ ~Ref(x.table)["quote"].null
          /\ Ref(x.table)["quote"].to = PurgeOrder[4]
      BY <1>1, <2>1, WorkColumns
    <3> QED BY <1>4, <1>8, <2>1, <3>1, <3>2
  <2> QED BY <2>1
<1> QED BY <1>5, <1>6, <1>7, <1>9, <1>10

\* The order of purge_account: when a table's turn comes, what protects its rows
\* or any that go with them is gone.
LEMMA NothingProtects ==
  ASSUME NEW j, Ready(j), Swept(rows, j), j.op = "purge",
         NEW k \in 1..Len(PurgeOrder), j.step = k,
         NEW ids \in SUBSET Ids(Seen(j)), \A id \in ids : id[1] = PurgeOrder[k],
         OwnIds(ids, j.company)
  PROVE  ~IsProtected(Seen(j), Collected(Seen(j), ids))
<1> DEFINE all == Collected(Seen(j), ids)
<1>0. AllSound(Seen(j)) /\ IsFiniteSet(Seen(j))
  BY SeenIsSound DEF Ready, Sane, Written, AllSound
<1> SUFFICES ASSUME NEW row \in Seen(j), NEW c \in ColumnsTo(row, all),
                    OnDelete(row.table, c) = Protect
             PROVE  FALSE
  BY DEF IsProtected, By
<1>1. /\ Sound(row) /\ row.table \in Table /\ c \in DOMAIN Ref(row.table)
      /\ c \in DOMAIN row.refs /\ row.refs[c] # None /\ Target(row, c) \in all
  BY <1>0 DEF AllSound, Sound, ColumnsTo
<1> HIDE DEF all
<1>2. PICK to : to = Ref(row.table)[c].to
  OBVIOUS
<1>3. /\ <<row.table, to>> \in
            {<<"quote", "client">>, <<"quoteitem", "tariff">>, <<"project", "quote">>,
             <<"progress", "quoteitem">>, <<"progress", "worker">>,
             <<"assignment", "worker">>, <<"workerpayment", "worker">>}
      /\ ~IsSharedTable(row.table)
  BY <1>1, <1>2, WhatProtects
<1>4. Target(row, c) = <<to, row.company>>
  BY <1>1, <1>2, <1>3 DEF Sound, IsShared, Target
<1>5. row.company = j.company
  <2>1. OwnIds(all, j.company)
    BY <1>0, CollectedIsOwn DEF all
  <2>2. Within(to)
    BY <1>1, <1>2, <1>3, TablesWithin
  <2> QED BY <1>1, <1>4, <2>1, <2>2 DEF OwnIds
<1>6. PICK x \in rows : /\ Sound(x) /\ Id(x) \notin j.gone /\ row = Emptied(x, j.nulled)
  BY WhatIsLeft DEF Seen
<1>7. x.table = row.table /\ x.company = j.company
  BY <1>5, <1>6, EmptiedIs
<1>8. /\ row.table = "workerpayment" => k = 1
      /\ row.table \in {"project", "progress", "assignment"} => k <= 3
      /\ row.table \in {"quote", "quoteitem"} => k <= 4
  BY <1>6, <1>7, NoneIsLeft
<1>9. k <= 3 => to \in WorkTables
  <2>1. ASSUME k <= 3 PROVE to \in WorkTables
    <3>1. PurgeOrder[k] \in WorkTables
      BY <2>1 DEF PurgeOrder, WorkTables
    <3>2. \A id \in all : id[1] \in WorkTables
      BY <1>0, <3>1, CascadesOfTheTables, CollectedStays DEF all
    <3> QED BY <1>1, <1>4, <3>2
  <2> QED BY <2>1
<1>10. k = 4 => to \in QuoteTables
  <2>1. ASSUME k = 4 PROVE to \in QuoteTables
    <3>1. PurgeOrder[k] \in QuoteTables
      BY <2>1 DEF PurgeOrder, QuoteTables
    <3>2. \A id \in all : id[1] \in QuoteTables
      BY <1>0, <3>1, CascadesOfTheTables, CollectedStays DEF all
    <3> QED BY <1>1, <1>4, <3>2
  <2> QED BY <2>1
<1>11. row.table \in {"workerpayment", "project", "progress", "assignment"} =>
         k <= 3 /\ to \notin WorkTables
  BY <1>3, <1>8 DEF WorkTables
<1>12. row.table \in {"quote", "quoteitem"} =>
         k <= 4 /\ to \notin WorkTables /\ to \notin QuoteTables
  BY <1>3, <1>8 DEF WorkTables, QuoteTables
<1>13. row.table \in {"workerpayment", "project", "progress", "assignment"} \cup
                     {"quote", "quoteitem"}
  BY <1>3
<1>14. k <= 4 => k <= 3 \/ k = 4
  OBVIOUS
<1> QED BY <1>9, <1>10, <1>11, <1>12, <1>13, <1>14

-----------------------------------------------------------------------------
(* The steps of the request that deletes.                                  *)

LEMMA RulesAreThree ==
  ASSUME NEW t \in Table, NEW c \in DOMAIN Ref(t)
  PROVE  OnDelete(t, c) \in {Cascade, Protect, SetNull}
<1>1. (c \in ToAnAccount /\ OnDelete(t, c) = Cascade) \/ <<t, c, OnDelete(t, c)>> \in Edges
  BY EdgesAreKnown, ModelsAreMigrated DEF AlongAnEdge
<1> QED BY <1>1 DEF Edges

LEMMA WhatIsEmptied ==
  ASSUME NEW set, AllSound(set), NEW ids PROVE MayBeEmpty(ToEmpty(set, ids))
<1>1. ASSUME NEW n \in ToEmpty(set, ids) PROVE Ref(n[1][1])[n[2]].null
  <2>1. PICK row \in set : n \in {<<Id(row), c>> : c \in {d \in ColumnsTo(row, ids) :
                                                      OnDelete(row.table, d) = SetNull}}
    BY DEF ToEmpty
  <2>2. PICK c \in ColumnsTo(row, ids) : n = <<Id(row), c>> /\ OnDelete(row.table, c) = SetNull
    BY <2>1
  <2>3. row.table \in Table /\ c \in DOMAIN Ref(row.table)
    BY <2>2 DEF AllSound, Sound, ColumnsTo
  <2>4. n[1][1] = row.table /\ n[2] = c
    BY <2>2 DEF Id
  <2> QED BY <2>2, <2>3, <2>4, ModelsAreMigrated
<1> QED BY <1>1 DEF MayBeEmpty

LEMMA EmptiedAreOwn ==
  ASSUME NEW set, AllSound(set), NEW ids, NEW company, OwnIds(ids, company)
  PROVE  OwnIds(RowsOf(ToEmpty(set, ids)), company)
<1>1. ASSUME NEW n \in ToEmpty(set, ids), Within(n[1][1]) PROVE n[1][2] = company
  <2>1. PICK row \in set : n \in {<<Id(row), c>> : c \in {d \in ColumnsTo(row, ids) :
                                                      OnDelete(row.table, d) = SetNull}}
    BY DEF ToEmpty
  <2>2. PICK c \in ColumnsTo(row, ids) : n = <<Id(row), c>>
    BY <2>1
  <2>3. /\ row.table \in Table /\ c \in DOMAIN Ref(row.table) /\ Sound(row)
        /\ c \in DOMAIN row.refs /\ row.refs[c] # None /\ Target(row, c) \in ids
    BY <2>2 DEF AllSound, Sound, ColumnsTo
  <2>4. n[1][1] = row.table /\ n[1][2] = row.company
    BY <2>2 DEF Id
  <2>5. row.table # "user"
    BY <2>3, AccountTables
  <2>6. ~IsSharedTable(row.table) /\ row.refs[c] = row.company
    BY <1>1, <2>3, <2>4, <2>5 DEF Within, Sound, IsShared
  <2>7. Within(Ref(row.table)[c].to)
    BY <2>3, <2>6, TablesWithin
  <2> QED BY <2>3, <2>4, <2>6, <2>7 DEF OwnIds, Target
<1> QED BY <1>1 DEF OwnIds, RowsOf

\* Once collected, every row left that refers to one collected is to be emptied,
\* those the policy hides included: they are of other companies.
LEMMA CollectCovers ==
  ASSUME NEW j, Ready(j), NEW ids \in SUBSET Ids(Seen(j)), OwnIds(ids, j.company),
         NEW all, all = Collected(Seen(j), ids), ~IsProtected(Seen(j), all),
         NEW next, next.gone = j.gone, next.nulled = j.nulled, next.picked = all,
         next.toEmpty = ToEmpty(Seen(j), all)
  PROVE  Covered(rows, next)
<1>0. AllSound(Seen(j)) /\ IsFiniteSet(Seen(j))
  BY SeenIsSound DEF Ready, Sane, Written, AllSound
<1>1. Closed(Seen(j), all) /\ OwnIds(all, j.company)
  BY <1>0, CollectedIsLeast, CollectedIsOwn
<1>2. /\ Going(next) = j.gone \cup all /\ Emptying(next) = j.nulled \cup ToEmpty(Seen(j), all)
      /\ Going(j) = j.gone /\ Emptying(j) = j.nulled
  BY DEF Going, Emptying, Ready, Sane, Deleted
<1> SUFFICES ASSUME NEW x \in rows, Id(x) \notin j.gone, Id(x) \notin all,
                    NEW c \in DOMAIN x.refs, x.refs[c] # None,
                    Target(x, c) \in j.gone \cup all, <<Id(x), c>> \notin j.nulled
             PROVE  <<Id(x), c>> \in ToEmpty(Seen(j), all)
  BY <1>2 DEF Covered
<1>3. Target(x, c) \in all
  BY <1>2 DEF Ready, Covered
<1>4. Sound(x)
  BY DEF Ready, AllSound
<1>5. PICK row \in After(j) : row = Emptied(x, j.nulled)
  BY WhatIsLeft
<1>6. /\ row.table = x.table /\ row.company = x.company /\ Id(row) = Id(x)
      /\ c \in DOMAIN row.refs /\ row.refs[c] = x.refs[c] /\ (IsShared(row) <=> IsShared(x))
  BY <1>4, <1>5, EmptiedIs
<1>7. row \in Seen(j)
  <2>1. CASE IsShared(row)
    BY <2>1, CompanyIsSeen
  <2>2. CASE ~IsShared(row)
    <3>1. /\ x.table \in Table /\ c \in DOMAIN Ref(x.table) /\ ~IsSharedTable(x.table)
          /\ x.refs[c] = x.company
      BY <1>4, <1>6, <2>2 DEF Sound, IsShared
    <3>2. Within(Ref(x.table)[c].to)
      BY <3>1, TablesWithin
    <3>3. x.company = j.company
      BY <1>1, <1>3, <3>1, <3>2 DEF OwnIds, Target
    <3> QED BY <1>6, <3>3, CompanyIsSeen
  <2> QED BY <2>1, <2>2
<1>8. Target(row, c) = Target(x, c) /\ c \in ColumnsTo(row, all)
  BY <1>3, <1>6 DEF Target, ColumnsTo
<1>9. OnDelete(row.table, c) # Cascade
  BY <1>1, <1>3, <1>6, <1>7, <1>8 DEF Closed
<1>10. OnDelete(row.table, c) # Protect
  BY <1>7, <1>8 DEF IsProtected, By
<1>11. OnDelete(row.table, c) = SetNull
  BY <1>4, <1>6, <1>9, <1>10, RulesAreThree DEF Sound
<1>12. <<Id(row), c>> \in ToEmpty(Seen(j), all)
  BY <1>6, <1>7, <1>8, <1>11 DEF ToEmpty
<1> QED BY <1>6, <1>12

\* A step of one request, among the others.
Fine(j) == Sane(j) /\ Thorough(rows, j) /\ Excused(j)

LEMMA OneJob ==
  ASSUME WrittenApart, InGoodOrder, NEW r \in Req, NEW next, job' = [job EXCEPT ![r] = next],
         rows' = rows, Fine(next)
  PROVE  InGoodOrder'
<1>1. \A q \in Req : job'[q] = IF q = r THEN next ELSE job[q]
  BY DEF WrittenApart
<1>2. \A q \in Req : Sane(job'[q]) /\ Thorough(rows, job'[q]) /\ Excused(job'[q])
  BY <1>1 DEF InGoodOrder, Fine
<1> QED BY <1>2 DEF InGoodOrder

LEMMA NotYet ==
  ASSUME NEW j, DOMAIN Idle \subseteq DOMAIN j, j.phase \in {"idle", "refused"},
         j.op \in {None, "insert"} \cup DeleteOps, j.step \in Nat, j.raced \in BOOLEAN,
         j.new = {}, j.gone = {}, j.picked = {}, j.nulled = {}, j.toEmpty = {}
  PROVE  Sane(j) /\ Thorough(rows, j)
<1>1. Written(j)
  BY FS_EmptySet DEF Written, AllWhole
<1>2. Deleted(j)
  BY DEF Deleted, OwnIds, RowsOf, MayBeEmpty, Going, Emptying
<1>3. Ordered(j)
  BY DEF Ordered
<1> QED BY <1>1, <1>2, <1>3 DEF Sane, Thorough

LEMMA RefusedIs ==
  ASSUME NEW r \in Req, NEW op \in {"insert"} \cup DeleteOps, job[r].raced \in BOOLEAN,
         op \in {"purge", "plan"} => job[r].raced
  PROVE  Fine(Refused(r, op))
<1> DEFINE j == Refused(r, op)
<1>1. /\ DOMAIN j = DOMAIN Idle /\ j.phase = "refused" /\ j.op = op /\ j.step = 0
      /\ j.raced = job[r].raced
      /\ j.new = {} /\ j.gone = {} /\ j.picked = {} /\ j.nulled = {} /\ j.toEmpty = {}
  BY DEF Refused, Idle
<1> HIDE DEF j
<1>2. Sane(j) /\ Thorough(rows, j)
  <2>1. /\ DOMAIN Idle \subseteq DOMAIN j /\ j.phase \in {"idle", "refused"}
        /\ j.op \in {None, "insert"} \cup DeleteOps /\ j.step \in Nat /\ j.raced \in BOOLEAN
    BY <1>1
  <2> QED BY <1>1, <2>1, NotYet
<1>3. Excused(j)
  BY <1>1 DEF Excused
<1> QED BY <1>2, <1>3 DEF Fine, j

LEMMA IdleIs == Fine(Idle)
<1>1. /\ Idle.phase = "idle" /\ Idle.op = None /\ Idle.step = 0 /\ Idle.raced \in BOOLEAN
      /\ Idle.new = {} /\ Idle.gone = {} /\ Idle.picked = {} /\ Idle.nulled = {}
      /\ Idle.toEmpty = {}
  BY DEF Idle
<1>2. Sane(Idle) /\ Thorough(rows, Idle)
  <2> DEFINE j == Idle
  <2>1. /\ DOMAIN Idle \subseteq DOMAIN j /\ j.phase \in {"idle", "refused"}
        /\ j.op \in {None, "insert"} \cup DeleteOps /\ j.step \in Nat /\ j.raced \in BOOLEAN
        /\ j.new = {} /\ j.gone = {} /\ j.picked = {} /\ j.nulled = {} /\ j.toEmpty = {}
    BY <1>1
  <2> HIDE DEF j
  <2>2. Sane(j) /\ Thorough(rows, j)
    BY <2>1, NotYet
  <2> QED BY <2>2 DEF j
<1> QED BY <1>1, <1>2 DEF Fine, Excused

LEMMA IsReady ==
  ASSUME WrittenApart, RowsHaveParents, InGoodOrder, NEW r \in Req,
         job[r].phase = "open", job[r].op # "insert", ~job[r].raced
  PROVE  Ready(job[r]) /\ Swept(rows, job[r])
BY DEF WrittenApart, RowsHaveParents, InGoodOrder, Thorough, Ready, HasParents

\* What the steps of a deletion have in common: the rows it is about are of the
\* company; those of a plan are protected by nobody; those of an account are all
\* there are in the table whose turn it is.
LEMMA CollectKeeps ==
  ASSUME WrittenApart, RowsHaveParents, InGoodOrder, NEW r \in Req, NEW op \in DeleteOps,
         NEW ids \in SUBSET Ids(Seen(job[r])), Collect(r, ids, op), rows' = rows,
         job[r].phase = "open", job[r].op # "insert",
         OwnIds(ids, job[r].company),
         op = "plan" => \A id \in ids : id[1] = "plan",
         op = "purge" =>
            /\ job[r].op = "purge" /\ job[r].step \in 1..Len(PurgeOrder)
            /\ \A id \in ids : id[1] = PurgeOrder[job[r].step]
            /\ ~job[r].raced =>
                 \A x \in rows :
                    /\ x.table = PurgeOrder[job[r].step] /\ x.company = job[r].company
                    => Id(x) \in job[r].gone \cup ids
  PROVE  InGoodOrder'
<1> DEFINE j == job[r]
           set == Seen(j)
           all == Collected(set, ids)
<1>0. /\ Sane(j) /\ AllSound(rows) /\ AllSound(j.new) /\ AllWhole(rows) /\ IsFiniteSet(rows)
      /\ j.raced \in BOOLEAN
  BY DEF WrittenApart, InGoodOrder, Sane
<1>1. AllSound(set) /\ IsFiniteSet(set)
  BY <1>0, SeenIsSound
<1>2. /\ ids \subseteq all /\ OwnIds(all, j.company)
  BY <1>1, CollectedIsLeast, CollectedIsOwn
<1>3. ~j.raced => Ready(j) /\ Swept(rows, j)
  BY IsReady
<1> HIDE DEF j, set, all
<1>4. ASSUME IsProtected(set, all) PROVE InGoodOrder'
  <2>1. job' = [job EXCEPT ![r] = Refused(r, op)]
    BY <1>4 DEF Collect, j, set, all
  <2>2. op = "purge" => j.raced
    <3>1. ASSUME op = "purge", ~j.raced PROVE FALSE
      <4>1. PICK k \in 1..Len(PurgeOrder) : k = j.step
        BY <3>1 DEF j
      <4>2. Ready(j) /\ Swept(rows, j) /\ j.op = "purge"
        BY <1>3, <3>1 DEF j
      <4>3. \A id \in ids : id[1] = PurgeOrder[k]
        BY <3>1, <4>1 DEF j
      <4>4. ids \in SUBSET Ids(Seen(j)) /\ OwnIds(ids, j.company)
        BY DEF j
      <4>5. ~IsProtected(Seen(j), Collected(Seen(j), ids))
        BY <4>1, <4>2, <4>3, <4>4, NothingProtects
      <4> QED BY <1>4, <4>5 DEF set, all
    <3> QED BY <3>1, <1>0
  <2>3. op = "plan" => j.raced
    <3>1. ASSUME op = "plan" PROVE FALSE
      <4>1. \A id \in ids : id[1] \in {"plan"}
        BY <3>1
      <4>2. ids \in SUBSET Ids(set)
        BY DEF set, j
      <4>3. \A id \in all : id[1] \in {"plan"}
        BY <1>1, <4>1, <4>2, CascadesOfTheTables, CollectedStays DEF all
      <4>4. PICK row \in set : \E c \in ColumnsTo(row, all) : OnDelete(row.table, c) = Protect
        BY <1>4 DEF IsProtected, By
      <4>5. PICK c \in ColumnsTo(row, all) : OnDelete(row.table, c) = Protect
        BY <4>4
      <4>6. /\ row.table \in Table /\ c \in DOMAIN Ref(row.table)
            /\ Target(row, c) \in all
        BY <1>1, <4>5 DEF AllSound, Sound, ColumnsTo
      <4>7. Ref(row.table)[c].to = "plan"
        BY <4>3, <4>6 DEF Target
      <4> QED BY <4>5, <4>6, <4>7, WhatProtects
    <3> QED BY <3>1
  <2>4. Fine(Refused(r, op))
    BY <1>0, <2>2, <2>3, RefusedIs DEF j
  <2> QED BY <2>1, <2>4, OneJob
<1>5. ASSUME ~IsProtected(set, all) PROVE InGoodOrder'
  <2>1. PICK next : next = [j EXCEPT !.phase = "deleting", !.op = op, !.person = None,
                                     !.picked = all, !.toEmpty = ToEmpty(set, all)]
    OBVIOUS
  <2>2. job' = [job EXCEPT ![r] = next]
    BY <1>5, <2>1 DEF Collect, j, set, all
  <2>3. /\ DOMAIN Idle \subseteq DOMAIN next /\ next.phase = "deleting" /\ next.op = op
        /\ next.picked = all /\ next.toEmpty = ToEmpty(set, all)
        /\ next.gone = j.gone /\ next.nulled = j.nulled /\ next.company = j.company
        /\ next.step = j.step /\ next.new = j.new /\ (next.raced <=> j.raced)
        /\ next.raced \in BOOLEAN
    BY <1>0, <2>1, FieldsOfAJob DEF Sane
  <2>4. j.new = {} /\ j.picked = {} /\ j.toEmpty = {} /\ j.step \in Nat
    BY <1>0 DEF Sane, Written, Deleted, j
  <2>5. Written(next)
    BY <2>3, <2>4, FS_EmptySet DEF Written, AllWhole
  <2>6. OwnIds(j.gone, j.company) /\ MayBeEmpty(j.nulled)
    BY <1>0 DEF Sane, Deleted, OwnIds, MayBeEmpty, Going, Emptying
  <2>7. OwnIds(Going(next), next.company)
    BY <1>2, <2>3, <2>6 DEF OwnIds, Going
  <2>8. MayBeEmpty(Emptying(next))
    <3>1. MayBeEmpty(ToEmpty(set, all))
      BY <1>1, WhatIsEmptied
    <3> QED BY <2>3, <2>6, <3>1 DEF MayBeEmpty, Emptying
  <2>9. Deleted(next)
    <3>1. OwnIds(RowsOf(ToEmpty(set, all)), j.company)
      BY <1>1, <1>2, EmptiedAreOwn
    <3>2. OwnIds(RowsOf(j.nulled), j.company)
      BY <1>0 DEF Sane, Deleted, OwnIds, RowsOf, Emptying
    <3>3. OwnIds(RowsOf(Emptying(next)), next.company)
      BY <2>3, <3>1, <3>2 DEF OwnIds, RowsOf, Emptying
    <3> QED BY <2>3, <2>7, <2>8, <3>3 DEF Deleted
  <2>10. Ordered(next)
    BY <1>0, <2>3 DEF Sane, Ordered, j
  <2>11. Sane(next)
    BY <2>3, <2>4, <2>5, <2>9, <2>10 DEF Sane
  <2>12. ASSUME ~next.raced PROVE Covered(rows, next) /\ Swept(rows, next)
    <3>1. Ready(j) /\ Swept(rows, j)
      BY <1>3, <2>3, <2>12
    <3>2. ids \in SUBSET Ids(Seen(j)) /\ OwnIds(ids, j.company)
      BY DEF j
    <3>3. all = Collected(Seen(j), ids) /\ ~IsProtected(Seen(j), all)
          /\ next.toEmpty = ToEmpty(Seen(j), all)
      BY <1>5, <2>3 DEF all, set
    <3>4. Covered(rows, next)
      BY <2>3, <3>1, <3>2, <3>3, CollectCovers
    <3>5. ASSUME next.op = "purge", NEW i \in Behind(next), NEW x \in rows,
                 x.table = PurgeOrder[i], x.company = next.company
          PROVE  Id(x) \in Going(next)
      <4>1. /\ j.op = "purge" /\ j.step \in 1..Len(PurgeOrder)
            /\ x.table = PurgeOrder[j.step] => Id(x) \in j.gone \cup ids
        BY <2>3, <2>12, <3>5 DEF j
      <4>2. Going(next) = j.gone \cup all /\ Going(j) = j.gone
        BY <2>3, <2>4 DEF Going
      <4>3. i \in 1..j.step /\ Behind(j) = 1..(j.step - 1)
        BY <2>3, <3>5 DEF Behind, j
      <4>4. CASE i = j.step
        BY <1>2, <3>5, <4>1, <4>2, <4>4
      <4>5. CASE i # j.step
        <5>1. i \in Behind(j)
          BY <2>4, <4>3, <4>5
        <5>2. Id(x) \in j.gone
          BY <2>3, <3>1, <3>5, <4>1, <4>2, <5>1 DEF Swept
        <5> QED BY <4>2, <5>2
      <4> QED BY <4>4, <4>5
    <3> QED BY <3>4, <3>5 DEF Swept
  <2>13. Fine(next)
    BY <2>3, <2>11, <2>12 DEF Fine, Thorough, Excused
  <2> QED BY <2>2, <2>13, OneJob
<1> QED BY <1>4, <1>5

\* What is deleted by name is of the company.
LEMMA FoundToDelete ==
  ASSUME WrittenApart, RowsHaveParents, InGoodOrder, NEW r \in Req,
         job[r].phase = "open", job[r].op # "insert"
  PROVE  \A row \in Found(job[r]) : /\ row.company = job[r].company /\ row \in Seen(job[r])
                                    /\ ~IsShared(row)
<1>1. CASE job[r].raced
  <2>1. job[r].company # None /\ AllSound(rows) /\ AllSound(job[r].new)
    BY <1>1 DEF InGoodOrder, Sane, Ordered, WrittenApart
  <2> QED BY <2>1, FoundIsOwn DEF Found
<1>2. CASE ~job[r].raced
  <2>1. Ready(job[r])
    BY <1>2, IsReady
  <2> QED BY <2>1, CompanyIsSeen DEF Found, Seen
<1> QED BY <1>1, <1>2

\* delete_client, delete_tariff, delete_plans.
LEMMA DeleteRowKeeps ==
  ASSUME WrittenApart, RowsHaveParents, InGoodOrder, NEW r \in Req, NEW t \in Table,
         DeleteRow(r, t)
  PROVE  InGoodOrder'
<1> DEFINE ids == {Id(row) : row \in {x \in Found(job[r]) : x.table = t}}
<1>1. /\ job[r].phase = "open" /\ job[r].op = None /\ t \in {"client", "tariff", "plan"}
      /\ Collect(r, ids, t) /\ rows' = rows
  BY DEF DeleteRow
<1>2. job[r].op # "insert"
  BY <1>1, CompaniesAssumption
<1>3. \A row \in Found(job[r]) : row.company = job[r].company /\ row \in Seen(job[r])
  BY <1>1, <1>2, FoundToDelete
<1>4. ids \in SUBSET Ids(Seen(job[r]))
  BY <1>3 DEF Ids
<1>5. OwnIds(ids, job[r].company) /\ \A id \in ids : id[1] = t
  BY <1>3 DEF OwnIds, Id
<1>6. t \in DeleteOps /\ t # "purge"
  BY <1>1 DEF DeleteOps
<1> HIDE DEF ids
<1> QED BY <1>1, <1>2, <1>4, <1>5, <1>6, CollectKeeps

\* The rows of the account in the table whose turn it is.
LEMMA TheTurn ==
  ASSUME WrittenApart, RowsHaveParents, InGoodOrder, NEW r \in Req,
         job[r].phase = "open", job[r].op = "purge",
         NEW k \in 1..Len(PurgeOrder), k = job[r].step,
         NEW ids, ids = OfTheAccount(r, PurgeOrder[k])
  PROVE  /\ ids \in SUBSET Ids(Seen(job[r])) /\ OwnIds(ids, job[r].company)
         /\ \A id \in ids : id[1] = PurgeOrder[k]
         /\ ~job[r].raced =>
              \A x \in rows : x.table = PurgeOrder[k] /\ x.company = job[r].company
                              => Id(x) \in job[r].gone \cup ids
<1> DEFINE j == job[r]
           c == j.company
<1>0. /\ Sane(j) /\ AllSound(rows) /\ AllSound(j.new) /\ AllWhole(rows) /\ IsFiniteSet(rows)
      /\ c # None
  BY DEF WrittenApart, InGoodOrder, Sane, Ordered
<1>1. AllSound(Seen(j))
  BY <1>0, SeenIsSound
<1> HIDE DEF j
<1>2. CASE PurgeOrder[k] = "user"
  <2>1. ids = {<<"user", c>>} \cap Ids(Seen(j))
    BY <1>2 DEF OfTheAccount, j
  <2>2. ASSUME ~j.raced, NEW x \in rows, x.table = "user", x.company = c, Id(x) \notin j.gone
        PROVE  Id(x) \in ids
    <3>1. Ready(j)
      BY <2>2, IsReady DEF j
    <3>2. PICK row \in After(j) : row = Emptied(x, j.nulled)
      BY <2>2, <3>1, WhatIsLeft
    <3>3. Id(row) = Id(x) /\ row.company = c
      BY <1>0, <2>2, <3>2, EmptiedIs DEF AllSound
    <3>4. row \in Seen(j)
      BY <3>1, <3>3, CompanyIsSeen
    <3>5. Id(x) = <<"user", c>>
      BY <2>2 DEF Id
    <3> QED BY <2>1, <3>3, <3>4, <3>5 DEF Ids
  <2> HIDE DEF c
  <2>3. OwnIds(ids, c) /\ ids \in SUBSET Ids(Seen(j)) /\ \A id \in ids : id[1] = "user"
    BY <2>1 DEF OwnIds
  <2> QED BY <1>2, <2>2, <2>3 DEF c, j
<1>3. CASE PurgeOrder[k] # "user"
  <2>1. ids = {Id(row) : row \in {x \in Seen(j) : x.table = PurgeOrder[k] /\ x.refs.owner = c}}
    BY <1>3 DEF OfTheAccount, j
  <2>2. /\ ~IsSharedTable(PurgeOrder[k]) /\ "owner" \in DOMAIN Ref(PurgeOrder[k])
        /\ ~Ref(PurgeOrder[k])["owner"].null
    BY <1>3, PurgedTables
  <2>3. ASSUME NEW row \in Seen(j), row.table = PurgeOrder[k], row.refs.owner = c
        PROVE  row.company = c
    BY <1>0, <1>1, <2>2, <2>3 DEF AllSound, Sound, IsShared
  <2>4. ASSUME ~j.raced, NEW x \in rows, x.table = PurgeOrder[k], x.company = c,
               Id(x) \notin j.gone
        PROVE  Id(x) \in ids
    <3>1. Ready(j)
      BY <2>4, IsReady DEF j
    <3>2. PICK row \in After(j) : row = Emptied(x, j.nulled)
      BY <2>4, <3>1, WhatIsLeft
    <3>3. Id(row) = Id(x) /\ row.company = c /\ row.table = PurgeOrder[k]
      BY <1>0, <2>4, <3>2, EmptiedIs DEF AllSound
    <3>4. row \in Seen(j)
      BY <3>1, <3>3, CompanyIsSeen
    <3>5. Sound(row) /\ Whole(row)
      BY <3>1, WhatIsLeft DEF AllSound, AllWhole
    <3>6. row.refs["owner"] = c
      BY <2>2, <3>3, <3>5 DEF Sound, Whole, IsShared
    <3> QED BY <2>1, <3>3, <3>4, <3>6
  <2>5. OwnIds(ids, c) /\ ids \in SUBSET Ids(Seen(j)) /\ \A id \in ids : id[1] = PurgeOrder[k]
    BY <2>1, <2>3 DEF OwnIds, Id, Ids
  <2> QED BY <2>4, <2>5 DEF c, j
<1> QED BY <1>2, <1>3

LEMMA PurgeStepKeeps ==
  ASSUME WrittenApart, RowsHaveParents, InGoodOrder, NEW r \in Req, PurgeStep(r)
  PROVE  InGoodOrder'
<1>1. /\ job[r].phase = "open" /\ job[r].op = "purge" /\ rows' = rows
      /\ job[r].step \in 1..Len(PurgeOrder)
  BY DEF PurgeStep
<1>2. PICK k \in 1..Len(PurgeOrder) : k = job[r].step
  BY <1>1
<1>3. PICK ids : ids = OfTheAccount(r, PurgeOrder[k])
  OBVIOUS
<1>4. /\ ids \in SUBSET Ids(Seen(job[r])) /\ OwnIds(ids, job[r].company)
      /\ \A id \in ids : id[1] = PurgeOrder[k]
      /\ ~job[r].raced =>
           \A x \in rows : x.table = PurgeOrder[k] /\ x.company = job[r].company
                           => Id(x) \in job[r].gone \cup ids
  BY <1>1, <1>2, <1>3, TheTurn
<1>5. CASE ids = {}
  <2>1. PICK j : j = job[r]
    OBVIOUS
  <2>2. PICK next : next = [j EXCEPT !.step = @ + 1]
    OBVIOUS
  <2>3. job' = [job EXCEPT ![r] = next]
    BY <1>2, <1>3, <1>5, <2>1, <2>2 DEF PurgeStep
  <2>4. Sane(j) /\ Thorough(rows, j)
    BY <2>1 DEF InGoodOrder
  <2>5. /\ DOMAIN Idle \subseteq DOMAIN next /\ next.phase = "open" /\ next.op = "purge"
        /\ next.step = j.step + 1 /\ next.gone = j.gone /\ next.nulled = j.nulled
        /\ next.picked = j.picked /\ next.toEmpty = j.toEmpty /\ next.new = j.new
        /\ next.company = j.company /\ (next.raced <=> j.raced) /\ next.raced \in BOOLEAN
    BY <1>1, <2>1, <2>2, <2>4, FieldsOfAJob DEF Sane
  <2>6. j.phase = "open" /\ j.op = "purge" /\ j.step = k /\ k + 1 \in 1..(Len(PurgeOrder) + 1)
    <3>1. Len(PurgeOrder) = 11
      BY DEF PurgeOrder
    <3> QED BY <1>1, <1>2, <2>1, <3>1
  <2>7. Written(next) /\ Deleted(next)
    BY <2>4, <2>5, <2>6 DEF Sane, Written, Deleted, Going, Emptying
  <2>8. Ordered(next)
    BY <2>4, <2>5, <2>6 DEF Sane, Ordered
  <2>9. Sane(next)
    BY <2>4, <2>5, <2>7, <2>8, <2>6 DEF Sane, DeleteOps
  <2>10. ASSUME ~next.raced PROVE Covered(rows, next) /\ Swept(rows, next)
    <3>1. Covered(rows, j) /\ Swept(rows, j)
      BY <2>4, <2>5, <2>6, <2>10 DEF Thorough
    <3>2. Going(next) = Going(j) /\ Emptying(next) = Emptying(j) /\ Going(j) = j.gone
      BY <2>4, <2>5, <2>6 DEF Going, Emptying, Sane, Deleted
    <3>3. Covered(rows, next)
      BY <3>1, <3>2 DEF Covered
    <3>4. ASSUME NEW i \in Behind(next), NEW x \in rows, x.table = PurgeOrder[i],
                 x.company = next.company
          PROVE  Id(x) \in Going(next)
      <4>1. i \in 1..k /\ Behind(j) = 1..(k - 1)
        BY <2>5, <2>6, <3>4 DEF Behind
      <4>2. CASE i = k
        BY <1>4, <1>5, <2>1, <2>5, <2>10, <3>2, <3>4, <4>2
      <4>3. CASE i # k
        <5>1. i \in Behind(j)
          BY <4>1, <4>3
        <5> QED BY <2>5, <2>6, <3>1, <3>2, <3>4, <5>1 DEF Swept
      <4> QED BY <4>2, <4>3
    <3> QED BY <3>3, <3>4 DEF Swept
  <2>11. Fine(next)
    BY <2>5, <2>9, <2>10 DEF Fine, Thorough, Excused
  <2> QED BY <1>1, <2>3, <2>11, OneJob
<1>6. CASE ids # {}
  <2>1. Collect(r, ids, "purge")
    BY <1>2, <1>3, <1>6 DEF PurgeStep
  <2>2. job[r].op # "insert" /\ "purge" \in DeleteOps
    BY <1>1 DEF DeleteOps
  <2> QED BY <1>1, <1>2, <1>4, <2>1, <2>2, CollectKeeps
<1> QED BY <1>5, <1>6

\* The rows collected go.
LEMMA ApplyKeeps ==
  ASSUME WrittenApart, InGoodOrder, NEW r \in Req, Apply(r) PROVE InGoodOrder'
<1>1. PICK j : j = job[r]
  OBVIOUS
<1>2. PICK next : next = [j EXCEPT !.phase = "open", !.step = @ + 1,
                            !.gone = @ \cup j.picked, !.nulled = @ \cup j.toEmpty,
                            !.picked = {}, !.toEmpty = {}]
  OBVIOUS
<1>3. job' = [job EXCEPT ![r] = next] /\ rows' = rows /\ j.phase = "deleting"
  BY <1>1, <1>2 DEF Apply
<1>4. Sane(j) /\ Thorough(rows, j)
  BY <1>1 DEF InGoodOrder
<1>5. /\ DOMAIN Idle \subseteq DOMAIN next /\ next.phase = "open" /\ next.op = j.op
      /\ next.step = j.step + 1 /\ next.gone = j.gone \cup j.picked
      /\ next.nulled = j.nulled \cup j.toEmpty
      /\ next.picked = {} /\ next.toEmpty = {} /\ next.new = j.new
      /\ next.company = j.company /\ (next.raced <=> j.raced) /\ next.raced \in BOOLEAN
  BY <1>2, <1>4, FieldsOfAJob DEF Sane
<1>6. Going(next) = Going(j) /\ Emptying(next) = Emptying(j)
  BY <1>5 DEF Going, Emptying
<1>7. j.op \in DeleteOps /\ j.step \in Nat /\ j.step + 1 \in Nat
  BY <1>3, <1>4 DEF Sane, Ordered
<1>8. Written(next) /\ Deleted(next)
  BY <1>4, <1>5, <1>6, <1>7 DEF Sane, Written, Deleted
<1>9. Ordered(next)
  <2>1. Len(PurgeOrder) = 11
    BY DEF PurgeOrder
  <2>2. ASSUME next.op = "purge" PROVE next.step \in 1..(Len(PurgeOrder) + 1)
    BY <1>3, <1>4, <1>5, <2>1, <2>2 DEF Sane, Ordered
  <2> QED BY <1>3, <1>4, <1>5, <2>2 DEF Sane, Ordered
<1>10. Sane(next)
  BY <1>4, <1>5, <1>7, <1>8, <1>9 DEF Sane
<1>11. ASSUME ~next.raced PROVE Covered(rows, next) /\ Swept(rows, next)
  <2>1. Covered(rows, j) /\ Swept(rows, j)
    BY <1>3, <1>4, <1>5, <1>11 DEF Thorough
  <2>2. Behind(next) = Behind(j)
    BY <1>3, <1>5, <1>7 DEF Behind
  <2> QED BY <1>5, <1>6, <2>1, <2>2 DEF Covered, Swept
<1>12. Fine(next)
  BY <1>5, <1>10, <1>11 DEF Fine, Thorough, Excused
<1> QED BY <1>3, <1>12, OneJob

\* A request that has deleted nothing yet.
LEMMA NothingGone ==
  ASSUME NEW j, DOMAIN Idle \subseteq DOMAIN j, j.phase = "open",
         j.op \in {None, "insert", "purge"}, j.step \in Nat, j.raced \in BOOLEAN,
         j.gone = {}, j.picked = {}, j.nulled = {}, j.toEmpty = {}, Written(j),
         j.op = "purge" => j.step = 1,
         j.raced \/ j.op = "purge" => j.company # None
  PROVE  Fine(j)
<1>1. Going(j) = {} /\ Emptying(j) = {}
  BY DEF Going, Emptying
<1>2. Deleted(j)
  BY <1>1 DEF Deleted, OwnIds, RowsOf, MayBeEmpty
<1>3. Ordered(j)
  <2>1. Len(PurgeOrder) = 11
    BY DEF PurgeOrder
  <2> QED BY <2>1 DEF Ordered
<1>4. j.op \in {None, "insert"} \cup DeleteOps
  BY DEF DeleteOps
<1>5. Sane(j)
  BY <1>2, <1>3, <1>4 DEF Sane
<1>6. Covered(rows, j)
  BY <1>1 DEF Covered
<1>7. Swept(rows, j)
  <2>1. j.op = "purge" => Behind(j) = {}
    BY DEF Behind
  <2> QED BY <2>1 DEF Swept
<1> QED BY <1>5, <1>6, <1>7 DEF Fine, Thorough, Excused

LEMMA BeginPurgeKeeps ==
  ASSUME WrittenApart, InGoodOrder, NEW r \in Req, NEW c \in Person, BeginPurge(r, c)
  PROVE  InGoodOrder'
<1>1. PICK j : j = job[r]
  OBVIOUS
<1>2. PICK next : next = [j EXCEPT !.op = "purge", !.person = None, !.company = c, !.step = 1]
  OBVIOUS
<1>3. /\ job' = [job EXCEPT ![r] = next] /\ rows' = rows /\ j.phase = "open" /\ j.op = None
      /\ c # None
  BY <1>1, <1>2, CompaniesAssumption DEF BeginPurge
<1>4. Sane(j) /\ j.op \notin DeleteOps /\ j.op # "insert"
  BY <1>1, <1>3, CompaniesAssumption DEF InGoodOrder, DeleteOps
<1>5. /\ DOMAIN Idle \subseteq DOMAIN next /\ next.phase = "open" /\ next.op = "purge"
      /\ next.step = 1 /\ next.gone = {} /\ next.nulled = {} /\ next.picked = {}
      /\ next.toEmpty = {} /\ next.new = {} /\ next.company = c /\ next.raced \in BOOLEAN
  BY <1>2, <1>3, <1>4, FieldsOfAJob DEF Sane, Written, Deleted
<1>6. Written(next)
  BY <1>5, FS_EmptySet DEF Written, AllWhole
<1>7. Fine(next)
  BY <1>3, <1>5, <1>6, NothingGone
<1> QED BY <1>3, <1>7, OneJob

LEMMA EnterKeeps ==
  ASSUME WrittenApart, InGoodOrder, NEW r \in Req, NEW p \in Person,
         NEW header \in Person \cup {None}, Enter(r, p, header)
  PROVE  InGoodOrder'
<1>1. PICK c \in AccountOf(p, header) :
        job' = [job EXCEPT ![r] = [Idle EXCEPT !.phase = "open", !.person = p, !.company = c]]
  BY DEF Enter
<1>2. PICK next : next = [Idle EXCEPT !.phase = "open", !.person = p, !.company = c]
  OBVIOUS
<1>3. /\ DOMAIN Idle \subseteq DOMAIN next /\ next.phase = "open" /\ next.op = None
      /\ next.step = 0 /\ next.gone = {} /\ next.nulled = {} /\ next.picked = {}
      /\ next.toEmpty = {} /\ next.new = {} /\ ~next.raced /\ next.raced \in BOOLEAN
  BY <1>2 DEF Idle
<1>4. Written(next)
  BY <1>3, FS_EmptySet DEF Written, AllWhole
<1>5. next.op # "purge"
  BY <1>3, CompaniesAssumption
<1>6. Fine(next)
  BY <1>3, <1>4, <1>5, NothingGone
<1> QED BY <1>1, <1>2, <1>6, OneJob DEF Enter

LEMMA InsertKeeps ==
  ASSUME WrittenApart, InGoodOrder, NEW r \in Req, NEW table \in Table, Insert(r, table)
  PROVE  InGoodOrder'
<1>1. PICK j : j = job[r]
  OBVIOUS
<1>2. PICK refs \in [DOMAIN Ref(table) -> Person \cup {None}] :
        /\ \A c \in DOMAIN refs : refs[c] \in Value(r, table, c)
        /\ job' = [job EXCEPT ![r].op = "insert", ![r].person = None,
                     ![r].new = @ \cup {Row(table, j.company, refs)}, ![r].step = @ + 1]
  BY <1>1 DEF Insert
<1>3. PICK row : row = Row(table, j.company, refs)
  OBVIOUS
<1>4. PICK next : next = [j EXCEPT !.op = "insert", !.person = None, !.new = @ \cup {row},
                                   !.step = @ + 1]
  OBVIOUS
<1>5. /\ job' = [job EXCEPT ![r] = next] /\ rows' = rows /\ j.phase = "open"
      /\ j.op \in {None, "insert"} /\ j.company # None /\ ~IsSharedTable(table)
  <2>1. job' = [job EXCEPT ![r] = next]
    BY <1>1, <1>2, <1>3, <1>4
  <2>2. /\ rows' = rows /\ j.phase = "open" /\ j.op \in {None, "insert"}
        /\ j.company # None /\ ~IsSharedTable(table)
    BY <1>1 DEF Insert
  <2> QED BY <2>1, <2>2
<1>6. Sane(j) /\ j.op \notin DeleteOps
  BY <1>1, <1>5, CompaniesAssumption DEF InGoodOrder, DeleteOps
<1>7. /\ DOMAIN Idle \subseteq DOMAIN next /\ next.phase = "open" /\ next.op = "insert"
      /\ next.step = j.step + 1 /\ next.gone = {} /\ next.nulled = {} /\ next.picked = {}
      /\ next.toEmpty = {} /\ next.new = j.new \cup {row} /\ next.company = j.company
      /\ next.raced \in BOOLEAN /\ j.step + 1 \in Nat
  BY <1>4, <1>5, <1>6, FieldsOfAJob DEF Sane, Deleted
<1>8. row.table = table /\ row.company = j.company /\ row.refs = refs
  BY <1>3 DEF Row
<1>9. Whole(row)
  <2>1. ASSUME NEW c \in DOMAIN refs, refs[c] = None, ~Ref(table)[c].null PROVE FALSE
    <3>1. refs[c] \in Value(r, table, c)
      BY <1>2
    <3>2. \A x \in Found(job[r]) : x.company # None
      BY AfterIsSound DEF WrittenApart, AllSound, Sound, Found, Seen
    <3> QED BY <1>1, <1>5, <2>1, <3>1, <3>2 DEF Value
  <2> QED BY <1>8, <2>1 DEF Whole
<1>10. Written(next)
  <2>1. IsFiniteSet(j.new) /\ AllWhole(j.new)
        /\ \A x \in j.new : x.company = j.company /\ ~IsShared(x)
    BY <1>6 DEF Sane, Written
  <2>2. IsFiniteSet(next.new)
    BY <1>7, <2>1, FS_AddElement
  <2>3. ~IsShared(row)
    BY <1>5, <1>8 DEF IsShared
  <2> QED BY <1>7, <1>8, <1>9, <2>1, <2>2, <2>3 DEF Written, AllWhole
<1>11. Fine(next)
  BY <1>5, <1>7, <1>10, NothingGone
<1> QED BY <1>5, <1>11, OneJob

-----------------------------------------------------------------------------
(* What others do to a deletion under way.                                 *)

\* Others commit a deletion: what it took is no longer there to delete, and what
\* it emptied refers to nothing.  Or they wrote, in another company.
LEMMA OthersCommit ==
  ASSUME AllSound(rows), NEW j, Sane(j), Thorough(rows, j), Excused(j),
         NEW by, Sane(by), AllSound(by.new),
         NEW next,
         DOMAIN next = DOMAIN j /\ next.phase = j.phase /\ next.op = j.op,
         next.company = j.company /\ next.step = j.step /\ next.gone = j.gone,
         next.nulled = j.nulled /\ next.toEmpty = j.toEmpty /\ next.new = j.new,
         next.picked = j.picked \ by.gone,
         next.raced \in BOOLEAN,
         next.raced <=> j.raced \/ (j.company = by.company /\ by.new # {})
  PROVE  Sane(next) /\ Thorough(After(by), next) /\ Excused(next)
<1>1. /\ Going(next) \subseteq Going(j) /\ Emptying(next) = Emptying(j)
      /\ \A id \in Going(j) : id \notin by.gone => id \in Going(next)
  BY DEF Going, Emptying
<1>2. by.new # {} => by.company # None
  BY DEF AllSound, Sound, Sane, Written
<1>3. Written(next) /\ Deleted(next)
  BY <1>1 DEF Sane, Written, Deleted, OwnIds
<1>4. Ordered(next)
  BY <1>2 DEF Sane, Ordered
<1>5. Sane(next)
  BY <1>3, <1>4 DEF Sane
<1>6. ASSUME ~next.raced, next.phase \in {"open", "deleting"}
      PROVE  Covered(After(by), next) /\ Swept(After(by), next)
  <2>1. Covered(rows, j) /\ Swept(rows, j)
    BY <1>6 DEF Thorough
  <2>2. ASSUME NEW y \in After(by), y \notin by.new
        PROVE  \E x \in rows : Sound(x) /\ Id(x) \notin by.gone /\ y = Emptied(x, by.nulled)
    BY <2>2 DEF After, AllSound
  <2>3. ASSUME NEW y \in by.new
        PROVE  Sound(y) /\ ~IsShared(y) /\ y.company = by.company /\ y.company # j.company
    BY <1>6, <2>3 DEF AllSound, Sane, Written
  <2>4. Covered(After(by), next)
    <3> SUFFICES ASSUME NEW y \in After(by), Id(y) \notin Going(next),
                        NEW c \in DOMAIN y.refs, y.refs[c] # None,
                        Target(y, c) \in Going(next)
                 PROVE  <<Id(y), c>> \in Emptying(j)
      BY <1>1 DEF Covered
    <3>1. CASE y \notin by.new
      <4>1. PICK x \in rows : Sound(x) /\ Id(x) \notin by.gone /\ y = Emptied(x, by.nulled)
        BY <2>2, <3>1
      <4>2. /\ y.table = x.table /\ Id(y) = Id(x) /\ c \in DOMAIN x.refs
            /\ x.refs[c] = y.refs[c]
        <5>1. /\ y.table = x.table /\ Id(y) = Id(x) /\ DOMAIN y.refs = DOMAIN x.refs
              /\ \A d \in DOMAIN x.refs :
                   y.refs[d] = IF <<Id(x), d>> \in by.nulled THEN None ELSE x.refs[d]
          BY <4>1, EmptiedIs
        <5> QED BY <5>1
      <4>3. Target(x, c) = Target(y, c)
        BY <4>2 DEF Target
      <4>4. Id(x) \notin Going(j)
        BY <1>1, <4>1, <4>2
      <4> QED BY <1>1, <2>1, <4>2, <4>3, <4>4 DEF Covered
    <3>2. CASE y \in by.new
      <4>1. /\ y.refs[c] = y.company /\ y.table \in Table /\ c \in DOMAIN Ref(y.table)
            /\ ~IsSharedTable(y.table) /\ y.company # j.company
        BY <2>3, <3>2 DEF Sound, IsShared
      <4>2. Within(Ref(y.table)[c].to)
        BY <4>1, TablesWithin
      <4>3. OwnIds(Going(j), j.company) /\ Target(y, c) \in Going(j)
        BY <1>1 DEF Sane, Deleted
      <4> QED BY <4>1, <4>2, <4>3 DEF OwnIds, Target
    <3> QED BY <3>1, <3>2
  <2>5. ASSUME next.op = "purge", NEW i \in Behind(next), NEW y \in After(by),
               y.table = PurgeOrder[i], y.company = next.company
        PROVE  Id(y) \in Going(next)
    <3>1. y \notin by.new
      BY <2>3, <2>5
    <3>2. PICK x \in rows : Sound(x) /\ Id(x) \notin by.gone /\ y = Emptied(x, by.nulled)
      BY <2>2, <3>1
    <3>3. y.table = x.table /\ Id(y) = Id(x) /\ y.company = x.company
      BY <3>2, EmptiedIs
    <3>4. Behind(next) = Behind(j)
      BY DEF Behind
    <3>5. Id(x) \in Going(j)
      BY <2>1, <2>5, <3>3, <3>4 DEF Swept
    <3> QED BY <1>1, <3>2, <3>3, <3>5
  <2> QED BY <2>4, <2>5 DEF Swept
<1>7. Excused(next)
  BY DEF Excused
<1> QED BY <1>5, <1>6, <1>7 DEF Thorough

LEMMA CommitKeeps ==
  ASSUME WrittenApart, RowsHaveParents, InGoodOrder, NEW r \in Req, Commit(r)
  PROVE  InGoodOrder'
<1>1. PICK j : j = job[r]
  OBVIOUS
<1>2. /\ Sane(j) /\ AllSound(j.new) /\ AllSound(rows) /\ AllWhole(rows) /\ IsFiniteSet(rows)
      /\ j.phase = "open" /\ j.op # None
  BY <1>1 DEF WrittenApart, InGoodOrder, Commit, Finished
<1>3. CASE Dangling(After(j))
  <2>1. job' = [job EXCEPT ![r] = Refused(r, j.op)] /\ rows' = rows
    BY <1>1, <1>3 DEF Commit
  <2>2. ASSUME j.op \in {"purge", "plan"}, ~j.raced PROVE FALSE
    <3>1. j.op # "insert"
      BY <2>2
    <3>2. Ready(j)
      BY <1>1, <1>2, <2>2, <3>1, IsReady
    <3>3. HasParents(After(j))
      BY <3>2, WhatIsLeft
    <3> QED BY <1>3, <3>3 DEF Dangling, HasParents
  <2>3. j.op \in {"insert"} \cup DeleteOps /\ j.raced \in BOOLEAN
    BY <1>2 DEF Sane
  <2>4. Fine(Refused(r, j.op))
    BY <1>1, <2>2, <2>3, RefusedIs
  <2> QED BY <2>1, <2>4, OneJob
<1>4. CASE ~Dangling(After(j))
  <2> DEFINE next(q) == [job[q] EXCEPT
                           !.picked = @ \ j.gone,
                           !.raced = @ \/ (job[q].company = j.company /\ j.new # {})]
  <2>1. rows' = After(j) /\ job' = [q \in Req |-> IF q = r THEN Idle ELSE next(q)]
    BY <1>1, <1>4 DEF Commit
  <2>2. IsFiniteSet(rows')
    BY <1>2, <2>1, SeenIsSound
  <2>3. AllWhole(rows')
    <3>1. After(j) = Left(rows, j.gone, j.nulled) \cup j.new
      BY DEF After, Left
    <3>2. MayBeEmpty(j.nulled) /\ AllWhole(j.new)
      BY <1>2 DEF Sane, Deleted, Written, MayBeEmpty, Emptying
    <3>3. AllWhole(Left(rows, j.gone, j.nulled))
      BY <1>2, <3>2, LeftIsWhole
    <3> QED BY <2>1, <3>1, <3>2, <3>3 DEF AllWhole
  <2>4. ASSUME NEW q \in Req, q # r
        PROVE  Sane(next(q)) /\ Thorough(After(j), next(q)) /\ Excused(next(q))
    <3>1. PICK k : k = job[q]
      OBVIOUS
    <3>2. Sane(k) /\ Thorough(rows, k) /\ Excused(k)
      BY <3>1 DEF InGoodOrder
    <3>3. PICK n : n = [k EXCEPT !.picked = @ \ j.gone,
                                 !.raced = @ \/ (k.company = j.company /\ j.new # {})]
      OBVIOUS
    <3>4. /\ DOMAIN n = DOMAIN k /\ n.phase = k.phase /\ n.op = k.op
          /\ n.company = k.company /\ n.step = k.step /\ n.gone = k.gone
          /\ n.nulled = k.nulled /\ n.toEmpty = k.toEmpty /\ n.new = k.new
          /\ n.picked = k.picked \ j.gone
      BY <3>2, <3>3, FieldsOfAJob DEF Sane
    <3>5. /\ n.raced \in BOOLEAN
          /\ n.raced <=> k.raced \/ (k.company = j.company /\ j.new # {})
      BY <3>2, <3>3, FieldsOfAJob DEF Sane
    <3>6. Sane(n) /\ Thorough(After(j), n) /\ Excused(n)
      BY <1>2, <3>2, <3>4, <3>5, OthersCommit
    <3>7. n = next(q)
      BY <3>1, <3>3
    <3> HIDE DEF next
    <3> QED BY <3>6, <3>7
  <2> HIDE DEF next
  <2>5. Sane(Idle) /\ Thorough(After(j), Idle) /\ Excused(Idle)
    <3>1. Idle.phase = "idle"
      BY DEF Idle
    <3> QED BY <3>1, IdleIs DEF Fine, Thorough
  <2>6. \A q \in Req : Sane(job'[q]) /\ Thorough(rows', job'[q]) /\ Excused(job'[q])
    BY <2>1, <2>4, <2>5
  <2> QED BY <2>2, <2>3, <2>6 DEF InGoodOrder
<1> QED BY <1>3, <1>4

\* A collaborator joins: of whoever is deleting one of the two accounts it is a
\* race, and it refers to no others.
LEMMA JoinKeeps ==
  ASSUME WrittenApart, InGoodOrder, NEW c \in Person, NEW p \in Person, Join(c, p)
  PROVE  InGoodOrder'
<1>1. PICK m : m = Row("membership", c, [account |-> c, user |-> p])
  OBVIOUS
<1> DEFINE next(q) == [job[q] EXCEPT !.raced = @ \/ job[q].company \in {c, p}]
<1>2. rows' = rows \cup {m} /\ job' = [q \in Req |-> next(q)]
  BY <1>1 DEF Join
<1>3. c # None /\ p # None
  BY CompaniesAssumption
<1>4. /\ m.table = "membership" /\ DOMAIN m.refs = {"account", "user"}
      /\ m.refs["account"] = c /\ m.refs["user"] = p
  BY <1>1 DEF Row
<1>5. Target(m, "account") = <<"user", c>> /\ Target(m, "user") = <<"user", p>>
  BY <1>4, AccountTables DEF Target
<1>6. Whole(m)
  BY <1>3, <1>4 DEF Whole
<1>7. IsFiniteSet(rows') /\ AllWhole(rows')
  BY <1>2, <1>6, FS_AddElement DEF InGoodOrder, AllWhole
<1>8. ASSUME NEW q \in Req
      PROVE  Sane(next(q)) /\ Thorough(rows \cup {m}, next(q)) /\ Excused(next(q))
  <2>1. PICK k : k = job[q]
    OBVIOUS
  <2>2. Sane(k) /\ Thorough(rows, k) /\ Excused(k)
    BY <2>1 DEF InGoodOrder
  <2>3. PICK n : n = [k EXCEPT !.raced = @ \/ k.company \in {c, p}]
    OBVIOUS
  <2>4. /\ DOMAIN n = DOMAIN k /\ n.phase = k.phase /\ n.op = k.op
        /\ n.company = k.company /\ n.step = k.step /\ n.gone = k.gone
        /\ n.nulled = k.nulled /\ n.toEmpty = k.toEmpty /\ n.new = k.new
        /\ n.picked = k.picked
    BY <2>2, <2>3, FieldsOfAJob DEF Sane
  <2>5. n.raced \in BOOLEAN /\ (n.raced <=> k.raced \/ k.company \in {c, p})
    BY <2>2, <2>3, FieldsOfAJob DEF Sane
  <2>6. Going(n) = Going(k) /\ Emptying(n) = Emptying(k) /\ Behind(n) = Behind(k)
    BY <2>4 DEF Going, Emptying, Behind
  <2>7. Written(n) /\ Deleted(n)
    BY <2>2, <2>4, <2>6 DEF Sane, Written, Deleted
  <2>8. Ordered(n)
    BY <1>3, <2>2, <2>4, <2>5 DEF Sane, Ordered
  <2>9. Sane(n)
    BY <2>2, <2>4, <2>5, <2>7, <2>8 DEF Sane
  <2>10. ASSUME ~n.raced, n.phase \in {"open", "deleting"}
         PROVE  Covered(rows \cup {m}, n) /\ Swept(rows \cup {m}, n)
    <3>1. Covered(rows, k) /\ Swept(rows, k) /\ k.company \notin {c, p}
      BY <2>2, <2>4, <2>5, <2>10 DEF Thorough
    <3>2. <<"user", c>> \notin Going(k) /\ <<"user", p>> \notin Going(k)
      <4>1. OwnIds(Going(k), k.company)
        BY <2>2 DEF Sane, Deleted
      <4> QED BY <3>1, <4>1 DEF OwnIds, Within
    <3>3. \A d \in DOMAIN m.refs : Target(m, d) \notin Going(k)
      BY <1>4, <1>5, <3>2
    <3>4. Covered(rows \cup {m}, n)
      BY <2>6, <3>1, <3>3 DEF Covered
    <3>5. n.op = "purge" => \A i \in Behind(k) : PurgeOrder[i] # "membership"
      <4>1. ASSUME n.op = "purge", NEW i \in Behind(k) PROVE PurgeOrder[i] # "membership"
        <5>1. Len(PurgeOrder) = 11
          BY DEF PurgeOrder
        <5>2. i \in 1..Len(PurgeOrder)
          BY <2>2, <2>4, <2>10, <4>1, <5>1 DEF Behind, Sane, Ordered
        <5> QED BY <5>2 DEF PurgeOrder
      <4> QED BY <4>1
    <3>6. Swept(rows \cup {m}, n)
      BY <1>4, <2>4, <2>6, <3>1, <3>5 DEF Swept
    <3> QED BY <3>4, <3>6
  <2>11. Excused(n)
    BY <2>2, <2>4, <2>5 DEF Excused
  <2>12. n = next(q)
    BY <2>1, <2>3
  <2> HIDE DEF next
  <2> QED BY <2>9, <2>10, <2>11, <2>12 DEF Thorough
<1> HIDE DEF next
<1>9. \A q \in Req : Sane(job'[q]) /\ Thorough(rows', job'[q]) /\ Excused(job'[q])
  BY <1>2, <1>8
<1> QED BY <1>7, <1>9 DEF InGoodOrder

LEMMA InitInOrder == ASSUME Init PROVE InGoodOrder
<1> DEFINE users == {Row("user", p, NoColumns) : p \in Person}
           organizations == {Row("organization", p, [user |-> p]) : p \in HasOwn}
<1>1. IsFiniteSet(users)
  <2> DEFINE f == [p \in Person |-> Row("user", p, NoColumns)]
  <2>1. users = {f[p] : p \in Person}
    OBVIOUS
  <2> HIDE DEF f, users
  <2> QED BY <2>1, CompaniesAssumption, ImageIsFinite
<1>2. IsFiniteSet(organizations)
  <2> DEFINE f == [p \in HasOwn |-> Row("organization", p, [user |-> p])]
  <2>1. organizations = {f[p] : p \in HasOwn}
    OBVIOUS
  <2>2. IsFiniteSet(HasOwn)
    BY CompaniesAssumption, FS_Subset
  <2> HIDE DEF f, organizations
  <2> QED BY <2>1, <2>2, ImageIsFinite
<1>3. AllWhole(users) /\ AllWhole(organizations)
  BY CompaniesAssumption DEF AllWhole, Whole, Row, NoColumns
<1>4. rows = users \cup organizations /\ \A r \in Req : job[r] = Idle
  BY DEF Init
<1> HIDE DEF users, organizations
<1>5. IsFiniteSet(rows) /\ AllWhole(rows)
  BY <1>1, <1>2, <1>3, <1>4, FS_Union DEF AllWhole
<1> QED BY <1>4, <1>5, IdleIs DEF InGoodOrder, Fine

LEMMA NextInOrder ==
  WrittenApart /\ RowsHaveParents /\ InGoodOrder /\ [Next]_vars => InGoodOrder'
<1> SUFFICES ASSUME WrittenApart, RowsHaveParents, InGoodOrder, [Next]_vars PROVE InGoodOrder'
  OBVIOUS
<1>1. ASSUME NEW r \in Req, NEW p \in Person, NEW header \in Person \cup {None},
             Enter(r, p, header)
      PROVE  InGoodOrder'
  BY <1>1, EnterKeeps
<1>2. ASSUME NEW r \in Req, NEW t \in Table, Insert(r, t) PROVE InGoodOrder'
  BY <1>2, InsertKeeps
<1>3. ASSUME NEW r \in Req, NEW t \in Table, DeleteRow(r, t) PROVE InGoodOrder'
  BY <1>3, DeleteRowKeeps
<1>4. ASSUME NEW r \in Req, NEW c \in Person, BeginPurge(r, c) PROVE InGoodOrder'
  BY <1>4, BeginPurgeKeeps
<1>5. ASSUME NEW r \in Req, PurgeStep(r) PROVE InGoodOrder'
  BY <1>5, PurgeStepKeeps
<1>6. ASSUME NEW r \in Req, Apply(r) PROVE InGoodOrder'
  BY <1>6, ApplyKeeps
<1>7. ASSUME NEW r \in Req, Commit(r) PROVE InGoodOrder'
  BY <1>7, CommitKeeps
<1>8. ASSUME NEW r \in Req, Leave(r) PROVE InGoodOrder'
  <2>1. job' = [job EXCEPT ![r] = Idle] /\ rows' = rows
    BY <1>8 DEF Leave
  <2> QED BY <2>1, IdleIs, OneJob
<1>9. ASSUME NEW c \in Person, NEW p \in Person, Join(c, p) PROVE InGoodOrder'
  BY <1>9, JoinKeeps
<1>10. ASSUME rows' = rows, job' = job PROVE InGoodOrder'
  BY <1>10 DEF InGoodOrder
<1>11. ASSUME NEW c \in Person, Toggle(c) PROVE InGoodOrder'
  BY <1>10, <1>11 DEF Toggle
<1>12. CASE UNCHANGED vars
  BY <1>10, <1>12 DEF vars
<1>13. CASE Next
  <2>1. CASE \E r \in Req :
               \/ \E p \in Person : \E header \in Person \cup {None} : Enter(r, p, header)
               \/ \E t \in Table : Insert(r, t) \/ DeleteRow(r, t)
               \/ \E c \in Person : BeginPurge(r, c)
               \/ PurgeStep(r) \/ Apply(r) \/ Commit(r) \/ Leave(r)
    BY <1>1, <1>2, <1>3, <1>4, <1>5, <1>6, <1>7, <1>8, <2>1
  <2>2. CASE \E c, p \in Person : Join(c, p)
    BY <1>9, <2>2
  <2>3. CASE \E c \in Person : Toggle(c)
    BY <1>11, <2>3
  <2> QED BY <1>13, <2>1, <2>2, <2>3 DEF Next
<1> QED BY <1>12, <1>13

LEMMA AlwaysInOrder == Spec => []InGoodOrder
<1>1. Init => WrittenApart /\ InGoodOrder
  BY InitApart, InitInOrder
<1>2. WrittenApart /\ [Next]_vars => WrittenApart'
  BY NextIsSound
<1>3. WrittenApart /\ RowsHaveParents /\ InGoodOrder /\ [Next]_vars => InGoodOrder'
  BY NextInOrder
<1>4. Spec => []RowsHaveParents
  BY AlwaysParents
<1> QED BY <1>1, <1>2, <1>3, <1>4, PTL DEF Spec

\* Deleting an account, or a plan, is refused only if somebody wrote in that
\* company meanwhile: purge_account comes to no row that another protects, and
\* leaves no reference behind (apps/accounts/deletion.py).
THEOREM PurgesMeetNoProtectedRow == Spec => []OnlyRacesRefuse
<1>1. InGoodOrder => OnlyRacesRefuse
  BY DEF InGoodOrder, Excused, OnlyRacesRefuse
<1>2. Spec => []InGoodOrder
  BY AlwaysInOrder
<1> QED BY <1>1, <1>2, PTL

-----------------------------------------------------------------------------
(* What a request deletes belongs to its company, or, among the tables     *)
(* without a policy, refers to its account.                                *)

Linked(x, company) == x.company = company \/ \E d \in DOMAIN x.refs : x.refs[d] = company

\* What a request is deleting is there; of the shared rows, those that refer to
\* its account.
Theirs(set, j) ==
    /\ Going(j) \subseteq Ids(set)
    /\ \A x \in set : IsShared(x) /\ Id(x) \in Going(j) => Linked(x, j.company)
OneOfEach(set) == \A x, y \in set : IsShared(x) /\ Id(x) = Id(y) => x = y

\* No two requests have deleted the same row.
InItsHands ==
    /\ OneOfEach(rows)
    /\ \A r \in Req : Theirs(rows, job[r])
    /\ \A r, q \in Req : r # q => job[r].gone \cap job[q].gone = {}

LEMMA SharedHaveAll ==
  ASSUME NEW t \in Table, IsSharedTable(t), NEW c \in DOMAIN Ref(t)
  PROVE  ~Ref(t)[c].null /\ Ref(t)[c].to = "user"
<1>1. t \in SharedTables
  BY SharedTablesAreKnown DEF IsSharedTable
<1>2. <<t, c>> \notin MayLack
  BY <1>1 DEF MayLack, SharedTables
<1> QED BY <1>1, <1>2, ReferencesAreNamed, SharedTablesAreKnown

\* A row is the same where nothing of it is emptied.
LEMMA NothingEmptied ==
  ASSUME NEW row, Sound(row), NEW nulled, \A c \in DOMAIN row.refs : <<Id(row), c>> \notin nulled
  PROVE  Emptied(row, nulled) = row
<1> DEFINE refs == [c \in DOMAIN row.refs |-> IF <<Id(row), c>> \in nulled THEN None
                                              ELSE row.refs[c]]
<1>1. row = [table |-> row.table, company |-> row.company, refs |-> row.refs]
  BY DEF Sound, Row
<1>2. refs = row.refs
  <2>1. refs = [c \in DOMAIN row.refs |-> row.refs[c]]
    OBVIOUS
  <2> QED BY <2>1 DEF Sound
<1>3. Emptied(row, nulled) = [row EXCEPT !.refs = refs]
  BY DEF Emptied
<1> HIDE DEF refs
<1>4. [[table |-> row.table, company |-> row.company, refs |-> row.refs] EXCEPT !.refs = row.refs]
        = [table |-> row.table, company |-> row.company, refs |-> row.refs]
  OBVIOUS
<1> QED BY <1>1, <1>2, <1>3, <1>4, Zenon

\* So a request changes no shared row, and writes none.
LEMMA SharedAreKept ==
  ASSUME AllSound(rows), NEW j, Sane(j)
  PROVE  /\ \A x \in rows : IsShared(x) => Emptied(x, j.nulled) = x
         /\ \A y \in After(j) : IsShared(y) => y \in rows /\ Id(y) \notin j.gone
<1>1. MayBeEmpty(j.nulled) /\ \A y \in j.new : ~IsShared(y)
  BY DEF Sane, Written, Deleted, MayBeEmpty, Emptying
<1>2. ASSUME NEW x \in rows, IsShared(x) PROVE Emptied(x, j.nulled) = x
  <2>1. Sound(x)
    BY DEF AllSound
  <2>2. ASSUME NEW c \in DOMAIN x.refs, <<Id(x), c>> \in j.nulled PROVE FALSE
    <3>1. x.table \in Table /\ c \in DOMAIN Ref(x.table)
      BY <2>1 DEF Sound
    <3>2. ~Ref(x.table)[c].null
      BY <1>2, <3>1, SharedHaveAll DEF IsShared
    <3>3. Ref(x.table)[c].null
      BY <1>1, <2>2 DEF MayBeEmpty, Id
    <3> QED BY <3>2, <3>3
  <2> QED BY <2>1, <2>2, NothingEmptied
<1>3. ASSUME NEW y \in After(j), IsShared(y) PROVE y \in rows /\ Id(y) \notin j.gone
  <2>1. PICK x \in rows : Id(x) \notin j.gone /\ y = Emptied(x, j.nulled)
    BY <1>1, <1>3 DEF After
  <2>2. IsShared(x)
    BY <1>3, <2>1, EmptiedIs DEF AllSound
  <2> QED BY <1>2, <2>1, <2>2
<1> QED BY <1>2, <1>3

\* A deletion of rows of the company reaches, of the shared rows, those that refer
\* to its account.
LEMMA CollectedIsTheirs ==
  ASSUME AllSound(rows), AllWhole(rows), IsFiniteSet(rows), OneOfEach(rows),
         NEW j, Sane(j), AllSound(j.new), j.op # "insert",
         NEW ids \in SUBSET Ids(Seen(j)), OwnIds(ids, j.company), \A id \in ids : Within(id[1])
  PROVE  /\ Collected(Seen(j), ids) \subseteq Ids(rows)
         /\ \A x \in rows : IsShared(x) /\ Id(x) \in Collected(Seen(j), ids) =>
              Linked(x, j.company)
<1> DEFINE B == {id \in Ids(Seen(j)) :
                   /\ id[1] = "user" => id[2] = j.company
                   /\ \A x \in rows : IsShared(x) /\ Id(x) = id => Linked(x, j.company)}
<1>1. AllSound(Seen(j)) /\ IsFiniteSet(Seen(j)) /\ Seen(j) \subseteq After(j)
  BY SeenIsSound DEF Seen
<1>2. ids \subseteq B
  <2>1. ASSUME NEW id \in ids PROVE id[1] = "user" => id[2] = j.company
    BY DEF OwnIds, Within
  <2>2. ASSUME NEW id \in ids, NEW x \in rows, IsShared(x), Id(x) = id
        PROVE  Linked(x, j.company)
    <3>1. x.table = "user" /\ x.company = id[2]
      BY <2>2 DEF Id, IsShared, Within
    <3> QED BY <2>2, <3>1 DEF OwnIds, Within, Id, Linked
  <2> QED BY <2>1, <2>2
<1>3. ASSUME NEW row \in Seen(j), NEW c \in DOMAIN row.refs, row.refs[c] # None,
             Target(row, c) \in B
      PROVE  Id(row) \in B
  <2>1. Sound(row) /\ row.table \in Table /\ c \in DOMAIN Ref(row.table)
    BY <1>1 DEF AllSound, Sound
  <2>2. row.table # "user"
    BY <2>1, AccountTables
  <2>3. ASSUME NEW x \in rows, IsShared(x), Id(x) = Id(row) PROVE Linked(x, j.company)
    <3>1. IsShared(row)
      BY <2>3 DEF Id, IsShared
    <3>2. row \in rows
      BY <1>1, <3>1, SharedAreKept
    <3>3. x = row
      BY <2>3, <3>2 DEF OneOfEach
    <3>4. Ref(row.table)[c].to = "user"
      BY <2>1, <3>1, SharedHaveAll DEF IsShared
    <3>5. row.refs[c] = j.company
      BY <1>3, <3>4 DEF Target
    <3> QED BY <3>3, <3>5 DEF Linked
  <2>4. Id(row) \in Ids(Seen(j)) /\ Id(row)[1] = row.table
    BY DEF Id, Ids
  <2> QED BY <2>2, <2>3, <2>4
<1> HIDE DEF B
<1>4. Closed(Seen(j), B)
  BY <1>3 DEF Closed
<1>5. Collected(Seen(j), ids) \subseteq B /\ Collected(Seen(j), ids) \subseteq Ids(Seen(j))
  BY <1>1, <1>2, <1>4, CollectedIsLeast
<1>6. Ids(Seen(j)) \subseteq Ids(rows)
  <2>1. j.new = {}
    BY DEF Sane, Written
  <2>2. ASSUME NEW y \in Seen(j) PROVE Id(y) \in Ids(rows)
    <3>1. PICK x \in rows : y = Emptied(x, j.nulled)
      BY <1>1, <2>1 DEF After
    <3> QED BY <3>1, EmptiedIs DEF AllSound, Ids
  <2> QED BY <2>2 DEF Ids
<1> QED BY <1>5, <1>6 DEF B

\* A step of one request: what it deletes is still its own, and nobody else's.
LEMMA OneHand ==
  ASSUME WrittenApart, InItsHands, NEW r \in Req, NEW next,
         job' = [job EXCEPT ![r] = next], rows' = rows, Theirs(rows, next),
         \A q \in Req \ {r} : next.gone \cap job[q].gone = {}
  PROVE  InItsHands'
<1>1. \A q \in Req : job'[q] = IF q = r THEN next ELSE job[q]
  BY DEF WrittenApart
<1>2. \A q \in Req : Theirs(rows', job'[q])
  BY <1>1 DEF InItsHands
<1>3. \A q, k \in Req : q # k => job'[q].gone \cap job'[k].gone = {}
  BY <1>1 DEF InItsHands
<1> QED BY <1>2, <1>3 DEF InItsHands

LEMMA EmptyHand ==
  ASSUME WrittenApart, InItsHands, NEW r \in Req, NEW next,
         job' = [job EXCEPT ![r] = next], rows' = rows, next.gone = {}, next.picked = {}
  PROVE  InItsHands'
<1>1. Theirs(rows, next)
  BY DEF Theirs, Going
<1> QED BY <1>1, OneHand

\* What it deletes does not change in the other steps.
LEMMA SameHand ==
  ASSUME WrittenApart, InItsHands, NEW r \in Req, NEW next,
         job' = [job EXCEPT ![r] = next], rows' = rows, next.gone = job[r].gone,
         Going(next) = Going(job[r]), next.company = job[r].company
  PROVE  InItsHands'
<1>1. Theirs(rows, next)
  BY DEF InItsHands, Theirs
<1> QED BY <1>1, OneHand DEF InItsHands

LEMMA CollectIsTheirs ==
  ASSUME WrittenApart, InGoodOrder, InItsHands, NEW r \in Req, NEW op,
         NEW ids \in SUBSET Ids(Seen(job[r])), Collect(r, ids, op), rows' = rows,
         job[r].phase = "open", job[r].op # "insert",
         OwnIds(ids, job[r].company), \A id \in ids : Within(id[1])
  PROVE  InItsHands'
<1>1. PICK j : j = job[r]
  OBVIOUS
<1>2. PICK all : all = Collected(Seen(j), ids)
  OBVIOUS
<1>3. /\ AllSound(rows) /\ AllWhole(rows) /\ IsFiniteSet(rows) /\ OneOfEach(rows)
      /\ Sane(j) /\ AllSound(j.new) /\ Theirs(rows, j) /\ j.picked = {}
  BY <1>1 DEF WrittenApart, InGoodOrder, InItsHands, Sane, Deleted
<1>4. CASE job' = [job EXCEPT ![r] = Refused(r, op)]
  <2>1. Refused(r, op).gone = {} /\ Refused(r, op).picked = {}
    BY DEF Refused, Idle
  <2> QED BY <1>4, <2>1, EmptyHand
<1>5. CASE ~(job' = [job EXCEPT ![r] = Refused(r, op)])
  <2>1. PICK next : next = [j EXCEPT !.phase = "deleting", !.op = op, !.person = None,
                                     !.picked = all, !.toEmpty = ToEmpty(Seen(j), all)]
    OBVIOUS
  <2>2. job' = [job EXCEPT ![r] = next]
    BY <1>1, <1>2, <1>5, <2>1 DEF Collect
  <2>3. next.gone = j.gone /\ next.picked = all /\ next.company = j.company
    BY <1>3, <2>1, FieldsOfAJob DEF Sane
  <2>4. /\ all \subseteq Ids(rows)
        /\ \A x \in rows : IsShared(x) /\ Id(x) \in all => Linked(x, j.company)
    BY <1>1, <1>2, <1>3, CollectedIsTheirs
  <2>5. Theirs(rows, next)
    BY <1>3, <2>3, <2>4 DEF Theirs, Going
  <2> QED BY <1>1, <2>2, <2>3, <2>5, OneHand DEF InItsHands
<1> QED BY <1>4, <1>5

LEMMA DeleteRowIsTheirs ==
  ASSUME WrittenApart, RowsHaveParents, InGoodOrder, InItsHands, NEW r \in Req,
         NEW t \in Table, DeleteRow(r, t)
  PROVE  InItsHands'
<1> DEFINE ids == {Id(row) : row \in {x \in Found(job[r]) : x.table = t}}
<1>1. /\ job[r].phase = "open" /\ job[r].op = None /\ Collect(r, ids, t) /\ rows' = rows
  BY DEF DeleteRow
<1>2. job[r].op # "insert"
  BY <1>1, CompaniesAssumption
<1>3. \A row \in Found(job[r]) : /\ row.company = job[r].company /\ row \in Seen(job[r])
                                 /\ ~IsShared(row)
  BY <1>1, <1>2, FoundToDelete
<1>4. ids \in SUBSET Ids(Seen(job[r]))
  BY <1>3 DEF Ids
<1>5. OwnIds(ids, job[r].company) /\ \A id \in ids : Within(id[1])
  BY <1>3 DEF OwnIds, Id, IsShared, Within
<1> HIDE DEF ids
<1> QED BY <1>1, <1>2, <1>4, <1>5, CollectIsTheirs

LEMMA PurgeStepIsTheirs ==
  ASSUME WrittenApart, RowsHaveParents, InGoodOrder, InItsHands, NEW r \in Req, PurgeStep(r)
  PROVE  InItsHands'
<1>1. /\ job[r].phase = "open" /\ job[r].op = "purge" /\ rows' = rows
      /\ job[r].step \in 1..Len(PurgeOrder)
  BY DEF PurgeStep
<1>2. PICK k \in 1..Len(PurgeOrder) : k = job[r].step
  BY <1>1
<1>3. PICK ids : ids = OfTheAccount(r, PurgeOrder[k])
  OBVIOUS
<1>4. CASE ids = {}
  <2>1. PICK next : next = [job[r] EXCEPT !.step = @ + 1]
    OBVIOUS
  <2>2. job' = [job EXCEPT ![r] = next]
    BY <1>2, <1>3, <1>4, <2>1 DEF PurgeStep
  <2>3. next.gone = job[r].gone /\ next.picked = job[r].picked /\ next.company = job[r].company
    BY <2>1, FieldsOfAJob DEF InGoodOrder, Sane
  <2> QED BY <1>1, <2>2, <2>3, SameHand DEF Going
<1>5. CASE ids # {}
  <2>0. job[r].phase = "open" /\ job[r].op = "purge" /\ k = job[r].step
    BY <1>1, <1>2
  <2>1. /\ ids \in SUBSET Ids(Seen(job[r])) /\ OwnIds(ids, job[r].company)
        /\ \A id \in ids : id[1] = PurgeOrder[k]
    BY <1>3, <2>0, TheTurn
  <2>2. Within(PurgeOrder[k])
    BY PurgedTables DEF Within
  <2>3. Collect(r, ids, "purge")
    BY <1>2, <1>3, <1>5 DEF PurgeStep
  <2>4. job[r].op # "insert"
    BY <1>1
  <2> QED BY <1>1, <2>1, <2>2, <2>3, <2>4, CollectIsTheirs
<1> QED BY <1>4, <1>5

LEMMA ApplyIsTheirs ==
  ASSUME WrittenApart, InGoodOrder, InItsHands, NEW r \in Req, Apply(r) PROVE InItsHands'
<1>1. PICK j : j = job[r]
  OBVIOUS
<1>2. PICK next : next = [j EXCEPT !.phase = "open", !.step = @ + 1,
                            !.gone = @ \cup j.picked, !.nulled = @ \cup j.toEmpty,
                            !.picked = {}, !.toEmpty = {}]
  OBVIOUS
<1>3. job' = [job EXCEPT ![r] = next] /\ rows' = rows
  BY <1>1, <1>2 DEF Apply
<1>4. next.gone = j.gone \cup j.picked /\ next.picked = {} /\ next.company = j.company
  BY <1>1, <1>2, FieldsOfAJob DEF InGoodOrder, Sane
<1>5. Theirs(rows, next)
  BY <1>1, <1>4 DEF InItsHands, Theirs, Going
<1>6. ASSUME NEW q \in Req \ {r} PROVE next.gone \cap job[q].gone = {}
  <2>1. \A id \in j.picked : id \notin job[q].gone
    BY <1>1 DEF Apply, Held
  <2>2. j.gone \cap job[q].gone = {}
    BY <1>1 DEF InItsHands
  <2> QED BY <1>4, <2>1, <2>2
<1> QED BY <1>3, <1>5, <1>6, OneHand

LEMMA CommitIsTheirs ==
  ASSUME WrittenApart, InGoodOrder, InItsHands, NEW r \in Req, Commit(r) PROVE InItsHands'
<1>1. PICK j : j = job[r]
  OBVIOUS
<1>2. Sane(j) /\ AllSound(rows) /\ OneOfEach(rows)
  BY <1>1 DEF WrittenApart, InGoodOrder, InItsHands
<1>3. CASE Dangling(After(j))
  <2>1. job' = [job EXCEPT ![r] = Refused(r, j.op)] /\ rows' = rows
    BY <1>1, <1>3 DEF Commit
  <2>2. Refused(r, j.op).gone = {} /\ Refused(r, j.op).picked = {}
    BY DEF Refused, Idle
  <2> QED BY <2>1, <2>2, EmptyHand
<1>4. CASE ~Dangling(After(j))
  <2> DEFINE next(q) == [job[q] EXCEPT
                           !.picked = @ \ j.gone,
                           !.raced = @ \/ (job[q].company = j.company /\ j.new # {})]
  <2>1. rows' = After(j) /\ job' = [q \in Req |-> IF q = r THEN Idle ELSE next(q)]
    BY <1>1, <1>4 DEF Commit
  <2>2. \A y \in After(j) : IsShared(y) => y \in rows
    BY <1>2, SharedAreKept
  <2>3. OneOfEach(After(j))
    BY <1>2, <2>2 DEF OneOfEach, Id, IsShared
  <2>4. ASSUME NEW x \in rows, Id(x) \notin j.gone PROVE Id(x) \in Ids(After(j))
    <3>1. Emptied(x, j.nulled) \in After(j)
      BY <2>4 DEF After
    <3>2. Id(Emptied(x, j.nulled)) = Id(x)
      BY <1>2, EmptiedIs DEF AllSound
    <3> QED BY <3>1, <3>2 DEF Ids
  <2>5. ASSUME NEW q \in Req, q # r
        PROVE  next(q).gone = job[q].gone /\ Theirs(After(j), next(q))
    <3>1. PICK n : n = next(q)
      OBVIOUS
    <3>2. n.gone = job[q].gone /\ n.picked = job[q].picked \ j.gone /\ n.company = job[q].company
      BY <3>1, FieldsOfAJob DEF InGoodOrder, Sane
    <3>3. Theirs(rows, job[q]) /\ job[q].gone \cap j.gone = {}
      BY <1>1, <2>5 DEF InItsHands
    <3>4. Going(n) \subseteq Going(job[q]) /\ Going(n) \cap j.gone = {}
      BY <3>2, <3>3 DEF Going
    <3> HIDE DEF next
    <3>5. Going(n) \subseteq Ids(After(j))
      <4>1. ASSUME NEW id \in Going(n) PROVE id \in Ids(After(j))
        <5>1. PICK x \in rows : id = Id(x)
          BY <3>3, <3>4, <4>1 DEF Theirs, Ids
        <5> QED BY <2>4, <3>4, <4>1, <5>1
      <4> QED BY <4>1
    <3>6. ASSUME NEW y \in After(j), IsShared(y), Id(y) \in Going(n) PROVE Linked(y, n.company)
      BY <2>2, <3>2, <3>3, <3>4, <3>6 DEF Theirs
    <3> QED BY <3>1, <3>2, <3>5, <3>6 DEF Theirs
  <2> HIDE DEF next
  <2>6. Idle.gone = {} /\ Idle.picked = {} /\ Theirs(After(j), Idle)
    BY DEF Idle, Theirs, Going
  <2>7. \A q \in Req : Theirs(rows', job'[q])
    BY <2>1, <2>5, <2>6
  <2>8. \A q \in Req : job'[q].gone = IF q = r THEN {} ELSE job[q].gone
    BY <2>1, <2>5, <2>6
  <2>9. \A q, k \in Req : q # k => job'[q].gone \cap job'[k].gone = {}
    BY <2>8 DEF InItsHands
  <2> QED BY <2>1, <2>3, <2>7, <2>9 DEF InItsHands
<1> QED BY <1>3, <1>4

\* A new collaborator is a row that nobody is deleting.
LEMMA JoinIsTheirs ==
  ASSUME WrittenApart, InGoodOrder, InItsHands, NEW c \in Person, NEW p \in Person, Join(c, p)
  PROVE  InItsHands'
<1>1. PICK m : m = Row("membership", c, [account |-> c, user |-> p])
  OBVIOUS
<1> DEFINE next(q) == [job[q] EXCEPT !.raced = @ \/ job[q].company \in {c, p}]
<1>2. /\ rows' = rows \cup {m} /\ job' = [q \in Req |-> next(q)]
      /\ Id(m) \notin Ids(rows)
  BY <1>1 DEF Join, Id, Row
<1>3. OneOfEach(rows \cup {m})
  BY <1>2 DEF InItsHands, OneOfEach, Ids
<1>4. ASSUME NEW q \in Req
      PROVE  next(q).gone = job[q].gone /\ Theirs(rows \cup {m}, next(q))
  <2>1. PICK n : n = next(q)
    OBVIOUS
  <2>2. n.gone = job[q].gone /\ n.picked = job[q].picked /\ n.company = job[q].company
    BY <2>1, FieldsOfAJob DEF InGoodOrder, Sane
  <2>3. Theirs(rows, job[q]) /\ Going(n) = Going(job[q])
    BY <2>2 DEF InItsHands, Going
  <2> HIDE DEF next
  <2>4. Ids(rows) \subseteq Ids(rows \cup {m})
    BY DEF Ids
  <2> QED BY <1>2, <2>1, <2>2, <2>3, <2>4 DEF Theirs
<1> HIDE DEF next
<1>5. \A q \in Req : Theirs(rows', job'[q]) /\ job'[q].gone = job[q].gone
  BY <1>2, <1>4
<1> QED BY <1>2, <1>3, <1>5 DEF InItsHands

\* Whoever has not begun to delete has deleted nothing.
LEMMA OthersAreTheirs ==
  ASSUME WrittenApart, InGoodOrder, InItsHands, NEW r \in Req,
         \/ \E p \in Person : \E header \in Person \cup {None} : Enter(r, p, header)
         \/ \E t \in Table : Insert(r, t)
         \/ \E c \in Person : BeginPurge(r, c)
         \/ Leave(r)
  PROVE  InItsHands'
<1>1. Idle.gone = {} /\ Idle.picked = {}
  BY DEF Idle
<1>2. PICK j : j = job[r]
  OBVIOUS
<1>3. DOMAIN Idle \subseteq DOMAIN j /\ Deleted(j)
  BY <1>2 DEF InGoodOrder, Sane
<1>4. ASSUME NEW p \in Person, NEW header \in Person \cup {None}, Enter(r, p, header)
      PROVE  InItsHands'
  <2>1. PICK c \in AccountOf(p, header) :
          job' = [job EXCEPT ![r] = [Idle EXCEPT !.phase = "open", !.person = p, !.company = c]]
    BY <1>4 DEF Enter
  <2>2. PICK next : next = [Idle EXCEPT !.phase = "open", !.person = p, !.company = c]
    OBVIOUS
  <2>3. next.gone = {} /\ next.picked = {}
    BY <2>2 DEF Idle
  <2>4. rows' = rows
    BY <1>4 DEF Enter
  <2> QED BY <2>1, <2>2, <2>3, <2>4, EmptyHand
<1>5. ASSUME NEW t \in Table, Insert(r, t) PROVE InItsHands'
  <2>1. PICK row : job' = [job EXCEPT ![r].op = "insert", ![r].person = None,
                                      ![r].new = @ \cup {row}, ![r].step = @ + 1]
    BY <1>5 DEF Insert
  <2>2. PICK next : next = [j EXCEPT !.op = "insert", !.person = None,
                                     !.new = @ \cup {row}, !.step = @ + 1]
    OBVIOUS
  <2>3. job' = [job EXCEPT ![r] = next] /\ rows' = rows
    BY <1>2, <1>5, <2>1, <2>2 DEF Insert
  <2>4. next.gone = j.gone /\ next.picked = j.picked /\ next.company = j.company
    BY <1>3, <2>2, FieldsOfAJob
  <2> QED BY <1>2, <2>3, <2>4, SameHand DEF Going
<1>6. ASSUME NEW c \in Person, BeginPurge(r, c) PROVE InItsHands'
  <2>1. PICK next : next = [j EXCEPT !.op = "purge", !.person = None, !.company = c, !.step = 1]
    OBVIOUS
  <2>2. job' = [job EXCEPT ![r] = next] /\ rows' = rows /\ j.phase = "open" /\ j.op = None
    BY <1>2, <1>6, <2>1 DEF BeginPurge
  <2>3. j.gone = {} /\ j.picked = {}
    <3>1. None \notin DeleteOps
      BY CompaniesAssumption DEF DeleteOps
    <3> QED BY <1>3, <2>2, <3>1 DEF Deleted
  <2>4. next.gone = {} /\ next.picked = {}
    BY <1>3, <2>1, <2>3, FieldsOfAJob
  <2> QED BY <2>2, <2>4, EmptyHand
<1>7. ASSUME Leave(r) PROVE InItsHands'
  BY <1>1, <1>7, EmptyHand DEF Leave
<1> QED BY <1>4, <1>5, <1>6, <1>7

LEMMA InitIsTheirs == ASSUME Init PROVE InItsHands
<1>1. /\ rows = {Row("user", p, NoColumns) : p \in Person}
                \cup {Row("organization", p, [user |-> p]) : p \in HasOwn}
      /\ \A r \in Req : job[r] = Idle
  BY DEF Init
<1>2. OneOfEach(rows)
  BY <1>1 DEF OneOfEach, Id, Row
<1>3. Idle.gone = {} /\ Idle.picked = {} /\ Theirs(rows, Idle)
  BY DEF Idle, Theirs, Going
<1> QED BY <1>1, <1>2, <1>3 DEF InItsHands

LEMMA NextIsTheirs ==
  WrittenApart /\ RowsHaveParents /\ InGoodOrder /\ InItsHands /\ [Next]_vars => InItsHands'
<1> SUFFICES ASSUME WrittenApart, RowsHaveParents, InGoodOrder, InItsHands, [Next]_vars
             PROVE  InItsHands'
  OBVIOUS
<1>1. ASSUME rows' = rows, job' = job PROVE InItsHands'
  BY <1>1 DEF InItsHands
<1>2. CASE UNCHANGED vars
  BY <1>1, <1>2 DEF vars
<1>3. ASSUME NEW r \in Req,
             \/ \E p \in Person : \E header \in Person \cup {None} : Enter(r, p, header)
             \/ \E t \in Table : Insert(r, t) \/ DeleteRow(r, t)
             \/ \E c \in Person : BeginPurge(r, c)
             \/ PurgeStep(r) \/ Apply(r) \/ Commit(r) \/ Leave(r)
      PROVE  InItsHands'
  BY <1>3, OthersAreTheirs, DeleteRowIsTheirs, PurgeStepIsTheirs, ApplyIsTheirs, CommitIsTheirs
<1>4. ASSUME NEW c \in Person, NEW p \in Person, Join(c, p) PROVE InItsHands'
  BY <1>4, JoinIsTheirs
<1>5. ASSUME NEW c \in Person, Toggle(c) PROVE InItsHands'
  BY <1>1, <1>5 DEF Toggle
<1> QED BY <1>2, <1>3, <1>4, <1>5 DEF Next

\* What a commit takes out of the database, or changes there.
LEMMA CommitTakesItsOwn ==
  ASSUME WrittenApart, InGoodOrder, InItsHands, NEW r \in Req, Commit(r),
         NEW row \in rows \ rows'
  PROVE  /\ job[r].phase = "open" /\ job'[r] = Idle
         /\ \/ row.company = job[r].company
            \/ IsShared(row) /\ \E c \in DOMAIN row.refs : row.refs[c] = job[r].company
<1>1. PICK j : j = job[r]
  OBVIOUS
<1>2. Sane(j) /\ AllSound(rows) /\ Sound(row) /\ Theirs(rows, j)
  BY <1>1 DEF WrittenApart, AllSound, InGoodOrder, InItsHands
<1>3. j.phase = "open" /\ rows' = After(j) /\ job'[r] = Idle
  BY <1>1 DEF Commit, Finished
<1>4. CASE IsShared(row)
  <2>1. Id(row) \in j.gone
    <3>1. Emptied(row, j.nulled) = row
      BY <1>2, <1>4, SharedAreKept
    <3> QED BY <1>3, <3>1 DEF After
  <2>2. Linked(row, j.company)
    BY <1>2, <1>4, <2>1 DEF Theirs, Going
  <2> QED BY <1>1, <1>3, <1>4, <2>2 DEF Linked
<1>5. CASE ~IsShared(row)
  <2>1. Id(row) \in j.gone \/ \E c \in DOMAIN row.refs : <<Id(row), c>> \in j.nulled
    <3>1. ASSUME Id(row) \notin j.gone PROVE Emptied(row, j.nulled) \in rows'
      BY <1>3, <3>1 DEF After
    <3> QED BY <1>2, <3>1, NothingEmptied
  <2>2. Id(row) \in Going(j) \cup RowsOf(Emptying(j))
    <3>1. CASE Id(row) \in j.gone
      BY <3>1 DEF Going
    <3>2. CASE \E c \in DOMAIN row.refs : <<Id(row), c>> \in j.nulled
      <4>1. PICK c \in DOMAIN row.refs : <<Id(row), c>> \in j.nulled
        BY <3>2
      <4>2. <<Id(row), c>> \in Emptying(j) /\ <<Id(row), c>>[1] = Id(row)
        BY <4>1 DEF Emptying
      <4> QED BY <4>2, Zenon DEF RowsOf
    <3> QED BY <2>1, <3>1, <3>2
  <2>3. row.company = j.company
    BY <1>2, <1>5, <2>2 DEF Sane, Deleted, OwnIds, Within, IsShared, Id
  <2> QED BY <1>1, <1>3, <2>3
<1> QED BY <1>4, <1>5

\* The deletion of a client, a tariff, a plan or an account takes and changes rows
\* of its company only, with policies in the database or without, whatever others
\* write or delete between its steps; of other companies, that its account worked
\* there (apps/accounts/deletion.py, on_delete).
THEOREM DeletionsStayInside == Spec => DeletesItsOwn
<1> DEFINE Inv == WrittenApart /\ RowsHaveParents /\ InGoodOrder /\ InItsHands
           Inside == \A row \in rows \ rows' :
             \E r \in Req :
                /\ job[r].phase = "open" /\ job'[r] = Idle
                /\ \/ row.company = job[r].company
                   \/ IsShared(row) /\ \E c \in DOMAIN row.refs : row.refs[c] = job[r].company
<1>1. ASSUME Inv, [Next]_vars PROVE [Inside]_rows
  <2> SUFFICES ASSUME rows' # rows PROVE Inside
    OBVIOUS
  <2>1. CASE \E r \in Req : Commit(r)
    BY <1>1, <2>1, CommitTakesItsOwn
  <2>2. CASE ~(\E r \in Req : Commit(r))
    <3>1. \E c, p \in Person : Join(c, p)
      <4>1. ASSUME NEW r \in Req,
                   \/ \E p \in Person : \E header \in Person \cup {None} : Enter(r, p, header)
                   \/ \E t \in Table : Insert(r, t) \/ DeleteRow(r, t)
                   \/ \E c \in Person : BeginPurge(r, c)
                   \/ PurgeStep(r) \/ Apply(r) \/ Leave(r)
            PROVE  FALSE
        BY <4>1 DEF Enter, Insert, DeleteRow, BeginPurge, PurgeStep, Apply, Leave
      <4>2. ASSUME NEW c \in Person, Toggle(c) PROVE FALSE
        BY <4>2 DEF Toggle
      <4>3. CASE UNCHANGED vars
        BY <4>3 DEF vars
      <4> QED BY <1>1, <2>2, <4>1, <4>2, <4>3 DEF Next
    <3>2. rows \subseteq rows'
      BY <3>1 DEF Join
    <3> QED BY <3>2
  <2> QED BY <2>1, <2>2
<1>2. Init => WrittenApart /\ InItsHands
  BY InitApart, InitIsTheirs
<1>3. WrittenApart /\ [Next]_vars => WrittenApart'
  BY NextIsSound
<1>4. Spec => []RowsHaveParents /\ []InGoodOrder
  BY AlwaysParents, AlwaysInOrder
<1>5. WrittenApart /\ RowsHaveParents /\ InGoodOrder /\ InItsHands /\ [Next]_vars => InItsHands'
  BY NextIsTheirs
<1> QED BY <1>1, <1>2, <1>3, <1>4, <1>5, PTL DEF Spec, DeletesItsOwn
=============================================================================
