---------------------------- MODULE WorkRequests ----------------------------
(***************************************************************************)
(* The requests that change a quote and the project born from it: the      *)
(* services of apps/quotes, apps/projects, apps/payments and the hand-outs *)
(* of apps/staff.                                                          *)
(*                                                                         *)
(* Every request is one database transaction (ATOMIC_REQUESTS) at READ     *)
(* COMMITTED.  It reads the object it was asked about (`Read...'), later   *)
(* locks one row with select_for_update and reads that row, and what it    *)
(* must count, again (`LockRow'), and only then writes and commits.  What  *)
(* it read before the lock stays in its job, where a service could still   *)
(* use it.  `Rollback' is every error a service ends with (ValidationError, *)
(* IntegrityError, DatabaseError), `Die' a process that stops anywhere.    *)
(*                                                                         *)
(* A row is keyed by its id, and an id is used once ("new" rows were never *)
(* inserted, "gone" ones were deleted).  Dates, notes and names are left   *)
(* out.  The folio a document takes is assigned by apps/folios in the same *)
(* transaction; here `issued' counts them.                                 *)
(***************************************************************************)
EXTENDS WorkItems, Sequences, FiniteSets, Functions

CONSTANTS
  Project, Entry,    \* projects, and progress entries (avances)
  Photo,             \* photographs backing an entry
  Worker, Self,      \* staff; Self is the account's own record, if any
  Req,               \* requests that may be under way at once
  None,              \* "nothing there"
  Price,             \* what a unit of work may be agreed to pay
  Ops                \* the services the instance calls

QuoteOps == {"start_project", "update_quote", "delete_quote"}
ProjectOps == {"register_payment", "finalize_project"}
ItemOps == {"register_progress", "assign_service"}
EntryOps == {"update_progress", "delete_progress", "add_evidence"}
PhotoOps == {"delete_evidence"}
AllOps == QuoteOps \cup ProjectOps \cup ItemOps \cup EntryOps \cup PhotoOps

ASSUME ConstantsAssumption ==
  /\ Quote \cap Project = {}
  /\ None \notin Quote \cup Project \cup Entry \cup Photo \cup Worker \cup Req
  /\ None \notin Price /\ None \notin Quote \X Line
  /\ Price \subseteq Nat /\ 0 \in Price
  /\ Ops \subseteq AllOps
  /\ IsFiniteSet(Entry) /\ IsFiniteSet(Worker) \* a table holds finitely many rows

Row == Quote \cup Project

VARIABLES
  quoteStatus, \* status of each quote
  qty,         \* quantity of each line of a quote; 0, the quote has no such line
  project,     \* each project: its status, its quote, and whether a balance was waived
  entry,       \* the progress entries
  payments,    \* amounts paid on each project, in order
  share,       \* what was handed to each worker of each item, and its price
  fee,         \* what each worker charges for the service, None if unsaid
  photo,       \* the evidence rows
  files,       \* photographs in the storage, which no transaction covers
  issued,      \* folios assigned to committed documents
  pc, job,     \* each request: where it is, and what it knows
  counted,     \* what each request counted with its row locked
  drop,        \* files a committed request has yet to delete (on_commit)
  lock         \* who holds each row

data == <<quoteStatus, qty, project, entry, payments, share, fee, photo, files,
          issued>>
vars == <<data, pc, job, counted, drop, lock>>

-----------------------------------------------------------------------------
(* The rows. *)

QuoteStatus == {"new", "draft", "in_project", "gone"}
ProjectStatus == {"new", "in_progress", "finished"}
RowState == {"new", "live", "gone"}

NoEntry == [st |-> "new", project |-> None, item |-> None, n |-> 0,
            worker |-> None, price |-> None]
NoShare == [n |-> 0, price |-> None]
NoJob == [op |-> "none", row |-> None, item |-> None, entry |-> None,
          photo |-> None, worker |-> None, seen |-> "new", qty |-> 0,
          status |-> "new"]

\* The states with no way out of QUOTE_TRANSITIONS and PROJECT_TRANSITIONS.
Terminal == {"in_project", "finished"}

LiveEntries == {e \in Entry : entry[e].st = "live"}
ProjectsOf(q) == {p \in Project : project[p].status # "new" /\ project[p].quote = q}
RowStatus(x) == IF x \in Quote THEN quoteStatus[x] ELSE project[x].status

\* What the entries of an item add up to, those of `except' apart.
Advanced(i, except) ==
  SumFunctionOnSet([e \in Entry |-> entry[e].n],
                   {e \in LiveEntries \ except : entry[e].item = i})

\* What was handed out of an item, the share of `except' apart.
Handed(i, except) ==
  SumFunctionOnSet([w \in Worker |-> share[i][w].n], Worker \ except)

EntriesOf(p) == {e \in LiveEntries : entry[e].project = p}

AdvancedValue(p) ==
  SumFunction([e \in EntriesOf(p) |-> entry[e].n * UnitPrice[entry[e].item[2]]])

TotalPaid(p) == SumFunction(payments[p])

\* Advanced minus paid: negative when the client paid ahead of the work.
PendingBalance(p) == AdvancedValue(p) - TotalPaid(p)

\* What a unit of the item pays that worker: the hand-out's price, what the
\* worker charges for the service, nothing for oneself; None, nobody said.
LaborUnitPrice(i, w) ==
  IF share[i][w].n > 0 THEN share[i][w].price
  ELSE IF fee[w] # None THEN fee[w]
  ELSE IF w = Self THEN 0 ELSE None

-----------------------------------------------------------------------------
Init ==
  /\ quoteStatus = [q \in Quote |-> "new"]
  /\ qty = [i \in Item |-> 0]
  /\ project = [p \in Project |-> [status |-> "new", quote |-> None, waived |-> FALSE]]
  /\ entry = [e \in Entry |-> NoEntry]
  /\ payments = [p \in Project |-> <<>>]
  /\ share = [i \in Item |-> [w \in Worker |-> NoShare]]
  /\ fee = [w \in Worker |-> None]
  /\ photo = [f \in Photo |-> [st |-> "new", entry |-> None]]
  /\ files = {}
  /\ issued = 0
  /\ pc = [r \in Req |-> "idle"]
  /\ job = [r \in Req |-> NoJob]
  /\ counted = [r \in Req |-> 0]
  /\ drop = [r \in Req |-> {}]
  /\ lock = [x \in Row |-> None]

-----------------------------------------------------------------------------
(* A request reads what it was asked about, before any lock. *)

Begin(r, j) ==
  /\ pc[r] = "idle"
  /\ pc' = [pc EXCEPT ![r] = "read"]
  /\ job' = [job EXCEPT ![r] = [j EXCEPT !.seen = RowStatus(j.row)]]
  /\ UNCHANGED <<data, counted, drop, lock>>

ReadQuote(r, op, q) ==
  /\ op \in QuoteOps \cap Ops
  /\ quoteStatus[q] \in {"draft", "in_project"}
  /\ Begin(r, [NoJob EXCEPT !.op = op, !.row = q])

ReadProject(r, op, p) ==
  /\ op \in ProjectOps \cap Ops
  /\ project[p].status # "new"
  /\ Begin(r, [NoJob EXCEPT !.op = op, !.row = p])

\* The item is any of the account's, in the project or not.
ReadItem(r, op, p, i, w) ==
  /\ op \in ItemOps \cap Ops
  /\ project[p].status # "new"
  /\ qty[i] > 0
  /\ op = "assign_service" => w # None
  /\ Begin(r, [NoJob EXCEPT !.op = op, !.row = p, !.item = i, !.qty = qty[i],
                            !.worker = w])

ReadEntry(r, op, e) ==
  /\ op \in EntryOps \cap Ops
  /\ entry[e].st = "live"
  /\ Begin(r, [NoJob EXCEPT !.op = op, !.row = entry[e].project, !.entry = e,
                            !.item = entry[e].item, !.qty = qty[entry[e].item],
                            !.worker = entry[e].worker])

ReadPhoto(r, op, f) ==
  /\ op \in PhotoOps \cap Ops
  /\ photo[f].st = "live"
  /\ Begin(r, [NoJob EXCEPT !.op = op, !.row = entry[photo[f].entry].project,
                            !.entry = photo[f].entry, !.photo = f])

-----------------------------------------------------------------------------
(* The lock, what is read under it, and how a request ends. *)

\* Count, as it would be if a hand-out looked at its own worker's share alone.
CountOwnShare(j) ==
  CASE j.op = "assign_service" -> j.qty - share[j.item][j.worker].n
    [] OTHER -> 0

\* What the service adds up once it holds the row.
Count(j) ==
  CASE j.op = "register_progress" -> j.qty - Advanced(j.item, {})
    [] j.op = "update_progress" -> j.qty - Advanced(j.item, {j.entry})
    [] j.op = "assign_service" -> j.qty - Handed(j.item, {j.worker})
    [] j.op = "finalize_project" -> PendingBalance(j.row)
    [] OTHER -> 0

\* Free, as it would be if the row were read without select_for_update.
FreeForAll(x) == TRUE

\* select_for_update: a row someone holds is waited for.
Free(x) == lock[x] = None

\* lock_quote, lock_project: wait for the row, and read it as it is now.
LockRow(r) ==
  LET x == job[r].row IN
  /\ pc[r] = "read"
  /\ Free(x)
  /\ RowStatus(x) # "gone"
  /\ lock' = [lock EXCEPT ![x] = r]
  /\ pc' = [pc EXCEPT ![r] = "locked"]
  /\ job' = [job EXCEPT ![r].status = RowStatus(x)]
  /\ counted' = [counted EXCEPT ![r] = Count(job[r])]
  /\ UNCHANGED <<data, drop>>

\* Release, as it would be if a transaction were left open.
KeepLocks(r) == UNCHANGED lock

\* The rows a request holds are free again when its transaction ends.
Release(r) ==
  lock' = [x \in Row |-> IF lock[x] = r THEN None ELSE lock[x]]

Forget(r) ==
  /\ job' = [job EXCEPT ![r] = NoJob]
  /\ counted' = [counted EXCEPT ![r] = 0]

\* Commit; the files to delete, if any, are left for after it.
Commit(r, toDrop) ==
  /\ Release(r)
  /\ Forget(r)
  /\ drop' = [drop EXCEPT ![r] = toDrop]
  /\ pc' = [pc EXCEPT ![r] = IF toDrop = {} THEN "idle" ELSE "committed"]

\* A service that raises, or a row that is no longer there to lock.
Rollback(r) ==
  /\ \/ pc[r] \in {"locked", "stored"}
     \/ pc[r] = "read" /\ RowStatus(job[r].row) = "gone"
  /\ Release(r)
  /\ Forget(r)
  /\ pc' = [pc EXCEPT ![r] = "idle"]
  /\ UNCHANGED <<data, drop>>

\* The process dies: the database undoes what it had not committed, and the
\* files of what it had are never deleted.
Die(r) ==
  /\ pc[r] # "idle"
  /\ Release(r)
  /\ Forget(r)
  /\ drop' = [drop EXCEPT ![r] = {}]
  /\ pc' = [pc EXCEPT ![r] = "idle"]
  /\ UNCHANGED data

Doing(r, op) ==
  /\ pc[r] = "locked"
  /\ job[r].op = op

\* Editable, as it would be if it looked at the row read before the lock.
EditableAsRead(r) == job[r].seen \notin Terminal

\* ensure_editable and Transitions.check, on the row read under the lock.
Editable(r) == job[r].status \notin Terminal

-----------------------------------------------------------------------------
(* Quotes. *)

CreateQuote(q, lines) ==
  /\ quoteStatus[q] = "new"
  /\ \E l \in Line : lines[l] > 0
  /\ quoteStatus' = [quoteStatus EXCEPT ![q] = "draft"]
  /\ qty' = [i \in Item |-> IF i[1] = q THEN lines[i[2]] ELSE qty[i]]
  /\ issued' = issued + 1
  /\ UNCHANGED <<project, entry, payments, share, fee, photo, files,
                 pc, job, counted, drop, lock>>

UpdateQuote(r, lines) ==
  /\ Doing(r, "update_quote")
  /\ Editable(r)
  /\ \E l \in Line : lines[l] > 0
  /\ qty' = [i \in Item |-> IF i[1] = job[r].row THEN lines[i[2]] ELSE qty[i]]
  /\ Commit(r, {})
  /\ UNCHANGED <<quoteStatus, project, entry, payments, share, fee, photo, files,
                 issued>>

DeleteQuote(r) ==
  /\ Doing(r, "delete_quote")
  /\ Editable(r)
  /\ ProjectsOf(job[r].row) = {}
  /\ quoteStatus' = [quoteStatus EXCEPT ![job[r].row] = "gone"]
  /\ qty' = [i \in Item |-> IF i[1] = job[r].row THEN 0 ELSE qty[i]]
  /\ Commit(r, {})
  /\ UNCHANGED <<project, entry, payments, share, fee, photo, files, issued>>

-----------------------------------------------------------------------------
(* Projects. *)

\* BecomesProject, as it would be if the new status were not saved.
StaysDraft(q) == UNCHANGED quoteStatus

\* The quote leaves its draft with the project it starts.
BecomesProject(q) == quoteStatus' = [quoteStatus EXCEPT ![q] = "in_project"]

StartProject(r, p) ==
  LET q == job[r].row IN
  /\ Doing(r, "start_project")
  /\ Editable(r)
  /\ ProjectsOf(q) = {}
  /\ project[p].status = "new"
  /\ project' = [project EXCEPT ![p].status = "in_progress", ![p].quote = q]
  /\ BecomesProject(q)
  /\ issued' = issued + 1
  /\ Commit(r, {})
  /\ UNCHANGED <<qty, entry, payments, share, fee, photo, files>>

\* Without `confirm' a project that is owed money stays open.
FinalizeProject(r, confirm) ==
  LET p == job[r].row IN
  /\ Doing(r, "finalize_project")
  /\ Editable(r)
  /\ counted[r] > 0 => confirm
  /\ project' = [project EXCEPT ![p].status = "finished",
                                ![p].waived = (counted[r] > 0)]
  /\ Commit(r, {})
  /\ UNCHANGED <<quoteStatus, qty, entry, payments, share, fee, photo, files,
                 issued>>

\* OfTheProject, as it would be without its check.
AnyItem(j) == TRUE

\* The item is one of the project's quote.
OfTheProject(j) == j.item[1] = project[j.row].quote

\* An advance says how much and, if it says who, at the price agreed with them.
RegisterProgress(r, e, n) ==
  LET j == job[r]
      price == IF j.worker = None THEN None ELSE LaborUnitPrice(j.item, j.worker)
  IN
  /\ Doing(r, "register_progress")
  /\ Editable(r)
  /\ OfTheProject(j)
  /\ n > 0 /\ n <= counted[r]
  /\ j.worker # None => price # None
  /\ entry[e].st = "new"
  /\ entry' = [entry EXCEPT ![e] = [st |-> "live", project |-> j.row, item |-> j.item,
                                    n |-> n, worker |-> j.worker, price |-> price]]
  /\ Commit(r, {})
  /\ UNCHANGED <<quoteStatus, qty, project, payments, share, fee, photo, files,
                 issued>>

\* The quantity a correction leaves: the one it sends, or the one it had.
CorrectedQty(r, n) ==
  IF n = 0 THEN entry[job[r].entry].n ELSE n

\* CorrectedLabor, as it would be if taking the name away left its price.
LaborKeptWithoutWorker(r, w) ==
  LET e == entry[job[r].entry] IN
  IF w = job[r].worker THEN [worker |-> e.worker, price |-> e.price]
  ELSE [worker |-> w, price |-> IF w = None THEN e.price
                                ELSE LaborUnitPrice(job[r].item, w)]

\* Who did it and at what price, after a correction that names `w'.  Nothing
\* is taken again when `w' is who the entry named when the request read it.
CorrectedLabor(r, w) ==
  LET e == entry[job[r].entry] IN
  CASE w = job[r].worker -> [worker |-> e.worker, price |-> e.price]
    [] w # job[r].worker /\ w = None -> [worker |-> None, price |-> None]
    [] OTHER -> [worker |-> w, price |-> LaborUnitPrice(job[r].item, w)]

\* save(update_fields=...): of a row deleted meanwhile, an error.
Save(e, n, labor) ==
  /\ entry[e].st = "live"
  /\ entry' = [entry EXCEPT ![e].n = n,
                            ![e].worker = labor.worker, ![e].price = labor.price]

\* n = 0: the correction sends no quantity; w = job[r].worker, no other worker.
UpdateProgress(r, n, w) ==
  LET e == job[r].entry
      labor == CorrectedLabor(r, w)
  IN
  /\ Doing(r, "update_progress")
  /\ Editable(r)
  /\ n <= counted[r] \/ n = 0
  /\ labor.worker # None => labor.price # None
  /\ Save(e, CorrectedQty(r, n), labor)
  /\ Commit(r, {})
  /\ UNCHANGED <<quoteStatus, qty, project, payments, share, fee, photo, files,
                 issued>>

PhotosOf(e) == {f \in Photo : photo[f].st = "live" /\ photo[f].entry = e}

\* The entry goes with its photos; their files, once it is committed.
DeleteProgress(r) ==
  LET e == job[r].entry IN
  /\ Doing(r, "delete_progress")
  /\ Editable(r)
  /\ entry' = [entry EXCEPT ![e].st = "gone"]
  /\ photo' = [f \in Photo |-> IF f \in PhotosOf(e) THEN [photo[f] EXCEPT !.st = "gone"]
                               ELSE photo[f]]
  /\ Commit(r, PhotosOf(e))
  /\ UNCHANGED <<quoteStatus, qty, project, payments, share, fee, files, issued>>

-----------------------------------------------------------------------------
(* Evidence. *)

\* The file is in the storage before its row is, and stays if the row fails.
StorePhoto(r, f) ==
  /\ Doing(r, "add_evidence")
  /\ Editable(r)
  /\ photo[f].st = "new" /\ f \notin files
  /\ files' = files \cup {f}
  /\ job' = [job EXCEPT ![r].photo = f]
  /\ pc' = [pc EXCEPT ![r] = "stored"]
  /\ UNCHANGED <<quoteStatus, qty, project, entry, payments, share, fee, photo,
                 issued, counted, drop, lock>>

\* The foreign key: a row of a deleted entry is refused at the commit.
AddEvidence(r) ==
  /\ pc[r] = "stored"
  /\ entry[job[r].entry].st = "live"
  /\ photo' = [photo EXCEPT ![job[r].photo] = [st |-> "live", entry |-> job[r].entry]]
  /\ Commit(r, {})
  /\ UNCHANGED <<quoteStatus, qty, project, entry, payments, share, fee, files,
                 issued>>

\* DeleteEvidence, as it would be if the file went before its row.
DeleteFileFirst(r) ==
  /\ Doing(r, "delete_evidence")
  /\ Editable(r)
  /\ files' = files \ {job[r].photo}
  /\ UNCHANGED <<quoteStatus, qty, project, entry, payments, share, fee, photo,
                 issued, pc, job, counted, drop, lock>>

\* The row goes; its file, once that is committed.
DeleteEvidence(r) ==
  LET f == job[r].photo IN
  /\ Doing(r, "delete_evidence")
  /\ Editable(r)
  /\ photo' = [photo EXCEPT ![f].st = "gone"]
  /\ Commit(r, {f})
  /\ UNCHANGED <<quoteStatus, qty, project, entry, payments, share, fee, files,
                 issued>>

\* on_commit: the storage deletes what the committed transaction dropped.
DropFiles(r) ==
  /\ pc[r] = "committed"
  /\ files' = files \ drop[r]
  /\ drop' = [drop EXCEPT ![r] = {}]
  /\ pc' = [pc EXCEPT ![r] = "idle"]
  /\ UNCHANGED <<quoteStatus, qty, project, entry, payments, share, fee, photo,
                 issued, job, counted, lock>>

-----------------------------------------------------------------------------
(* Payments and staff. *)

\* Positive, as it would be without its check.
AnyAmount(amount) == TRUE

\* A payment is of more than nothing.
Positive(amount) == amount > 0

RegisterPayment(r, amount) ==
  LET p == job[r].row IN
  /\ Doing(r, "register_payment")
  /\ Editable(r)
  /\ Positive(amount)
  /\ Len(payments[p]) < MaxPayments
  /\ payments' = [payments EXCEPT ![p] = Append(@, amount)]
  /\ issued' = issued + 1
  /\ Commit(r, {})
  /\ UNCHANGED <<quoteStatus, qty, project, entry, share, fee, photo, files>>

\* A second hand-out of an item to the same worker replaces the first.  The
\* project is locked, finished or not.
AssignService(r, n, price) ==
  LET j == job[r]
      agreed == IF price = None THEN LaborUnitPrice(j.item, j.worker) ELSE price
  IN
  /\ Doing(r, "assign_service")
  /\ OfTheProject(j)
  /\ n > 0 /\ n <= counted[r]
  /\ agreed # None
  /\ share' = [share EXCEPT ![j.item][j.worker] = [n |-> n, price |-> agreed]]
  /\ Commit(r, {})
  /\ UNCHANGED <<quoteStatus, qty, project, entry, payments, fee, photo, files,
                 issued>>

\* AssignmentViewSet.destroy: no lock, no status looked at.
DeleteAssignment(i, w) ==
  /\ share[i][w].n > 0
  /\ share' = [share EXCEPT ![i][w] = NoShare]
  /\ UNCHANGED <<quoteStatus, qty, project, entry, payments, fee, photo, files,
                 issued, pc, job, counted, drop, lock>>

\* set_worker_services: what the worker charges from now on.
SetWorkerServices(w, price) ==
  /\ "assign_service" \in Ops
  /\ fee' = [fee EXCEPT ![w] = price]
  /\ UNCHANGED <<quoteStatus, qty, project, entry, payments, share, photo, files,
                 issued, pc, job, counted, drop, lock>>

-----------------------------------------------------------------------------
Read(r) ==
  \/ \E op \in QuoteOps, q \in Quote : ReadQuote(r, op, q)
  \/ \E op \in ProjectOps, p \in Project : ReadProject(r, op, p)
  \/ \E op \in ItemOps, p \in Project, i \in Item, w \in Worker \cup {None} :
       ReadItem(r, op, p, i, w)
  \/ \E op \in EntryOps, e \in Entry : ReadEntry(r, op, e)
  \/ \E op \in PhotoOps, f \in Photo : ReadPhoto(r, op, f)

Write(r) ==
  \/ \E lines \in [Line -> 0..MaxQty] : UpdateQuote(r, lines)
  \/ DeleteQuote(r)
  \/ \E p \in Project : StartProject(r, p)
  \/ \E confirm \in BOOLEAN : FinalizeProject(r, confirm)
  \/ \E e \in Entry, n \in 0..MaxQty : RegisterProgress(r, e, n)
  \/ \E n \in 0..MaxQty, w \in Worker \cup {None} : UpdateProgress(r, n, w)
  \/ DeleteProgress(r)
  \/ \E f \in Photo : StorePhoto(r, f)
  \/ AddEvidence(r)
  \/ DeleteEvidence(r)
  \/ \E amount \in 0..MaxAmount : RegisterPayment(r, amount)
  \/ \E n \in 0..MaxQty, price \in Price \cup {None} : AssignService(r, n, price)

Next ==
  \/ \E q \in Quote, lines \in [Line -> 0..MaxQty] : CreateQuote(q, lines)
  \/ \E i \in Item, w \in Worker : DeleteAssignment(i, w)
  \/ \E w \in Worker, price \in Price \cup {None} : SetWorkerServices(w, price)
  \/ \E r \in Req : \/ Read(r)
                    \/ LockRow(r)
                    \/ Write(r)
                    \/ Rollback(r)
                    \/ DropFiles(r)
                    \/ Die(r)

Spec == Init /\ [][Next]_vars

\* The server runs the requests it accepted, and the database hands a row to
\* those waiting for it in turn: a request that waits is not passed over for ever.
Fairness ==
  \A r \in Req : /\ SF_vars(LockRow(r))
                 /\ WF_vars(Write(r) \/ Rollback(r))
                 /\ WF_vars(DropFiles(r))

FairSpec == Spec /\ Fairness

-----------------------------------------------------------------------------
(* Properties. *)

JobType ==
  [op : AllOps \cup {"none"}, row : Row \cup {None}, item : Item \cup {None},
   entry : Entry \cup {None}, photo : Photo \cup {None},
   worker : Worker \cup {None}, seen : QuoteStatus \cup ProjectStatus,
   qty : 0..MaxQty, status : QuoteStatus \cup ProjectStatus]

EntryType ==
  [st : RowState, project : Project \cup {None}, item : Item \cup {None},
   n : 0..MaxQty, worker : Worker \cup {None}, price : Price \cup {None}]

\* Every row and every request has its shape.
TypeOK ==
  /\ quoteStatus \in [Quote -> QuoteStatus]
  /\ qty \in [Item -> 0..MaxQty]
  /\ project \in [Project -> [status : ProjectStatus, quote : Quote \cup {None},
                             waived : BOOLEAN]]
  /\ entry \in [Entry -> EntryType]
  /\ payments \in [Project -> Seq(1..MaxAmount)]
  /\ share \in [Item -> [Worker -> [n : 0..MaxQty, price : Price \cup {None}]]]
  /\ fee \in [Worker -> Price \cup {None}]
  /\ photo \in [Photo -> [st : RowState, entry : Entry \cup {None}]]
  /\ files \subseteq Photo
  /\ issued \in Nat
  /\ pc \in [Req -> {"idle", "read", "locked", "stored", "committed"}]
  /\ job \in [Req -> JobType]
  /\ DOMAIN counted = Req
  /\ drop \in [Req -> SUBSET Photo]
  /\ lock \in [Row -> Req \cup {None}]

\* The recorded progress of an item never exceeds the quoted quantity, whatever
\* entries are recorded, corrected and deleted at once (_check_quantity).
ProgressFits == \A i \in Item : Advanced(i, {}) <= qty[i]

\* "two hand-outs at the same time never exceed the item" (assign_service).
HandOutsFit == \A i \in Item : Handed(i, {}) <= qty[i]

\* A quote is in a project exactly when a project was started from it, and
\* from one only: "exactly one, whatever the clicks or retries" (start_project).
OneProject ==
  \A q \in Quote :
    /\ (quoteStatus[q] = "in_project") <=> (ProjectsOf(q) # {})
    /\ \A p1, p2 \in ProjectsOf(q) : p1 = p2

\* What is recorded or handed out hangs from a project of the item's own quote:
\* no entry or share is left behind by a quote edited or deleted meanwhile.
LedgerHangsTogether ==
  /\ \A e \in LiveEntries :
       /\ project[entry[e].project].status # "new"
       /\ entry[e].item[1] = project[entry[e].project].quote
       /\ entry[e].n > 0
  /\ \A i \in Item, w \in Worker : share[i][w].n > 0 => ProjectsOf(i[1]) # {}

\* Work with someone's name on it has a price, and work without has none:
\* that is what turns work done into money owed (Progress.labor_value).
LaborIsPriced ==
  \A e \in LiveEntries : (entry[e].worker = None) <=> (entry[e].price = None)

\* A project finished without confirming a pending balance has none, when it
\* closes and for ever: "no progress or payment enters it while it closes".
FinishedSettled ==
  \A p \in Project :
    project[p].status = "finished" /\ ~project[p].waived => PendingBalance(p) <= 0

\* Every evidence row has its file and its entry: a photo may be left without
\* a row, never a row that points to nothing (_drop_files).
EvidenceIsStored ==
  \A f \in Photo : photo[f].st = "live" =>
    f \in files /\ entry[photo[f].entry].st = "live"

\* The row a request holds is its own and stays as it read it: what a service
\* checks on it is still so when it writes ("what one sees already includes what
\* the other did", lock_project; "never the one the request read before").
LocksAreHeld ==
  \A r \in Req : pc[r] \in {"locked", "stored"} =>
    /\ lock[job[r].row] = r
    /\ job[r].status = RowStatus(job[r].row)
    /\ job[r].status # "gone"

\* A quote in a project keeps its lines and its status: "a row in a final
\* state is no longer edited" (common/state_machine.py).
QuoteFrozen ==
  [][\A q \in Quote : quoteStatus[q] = "in_project" =>
       /\ quoteStatus'[q] = "in_project"
       /\ \A l \in Line : qty'[<<q, l>>] = qty[<<q, l>>]]_vars

\* The project, its payments, and its entries and their photos, as rows.
LedgerOf(p) ==
  <<project[p], payments[p],
    {<<e, entry[e]>> : e \in EntriesOf(p)},
    {f \in Photo : photo[f].st = "live" /\ photo[f].entry \in EntriesOf(p)}>>

\* A finished project takes no more progress, photos or payments and loses none
\* ("ni avances, ni fotos, ni pagos"), even from requests that read it open.
LedgerFrozen ==
  [][\A p \in Project : project[p].status = "finished" => LedgerOf(p)' = LedgerOf(p)]_vars

\* A deleted entry or photo never comes back, not even when a correction that
\* had read it is written later (save(update_fields)).
GoneForGood ==
  [][/\ \A e \in Entry : entry[e].st = "gone" => entry'[e].st = "gone"
     /\ \A f \in Photo : photo[f].st = "gone" => photo'[f].st = "gone"]_vars

\* Nobody waits for a row for ever.
NobodyWaitsForEver == \A r \in Req : pc[r] = "read" ~> pc[r] # "read"

-----------------------------------------------------------------------------
(* The promise these requests implement. *)

StageOf(q) ==
  CASE quoteStatus[q] = "new" -> "none"
    [] quoteStatus[q] \in {"draft", "gone"} -> quoteStatus[q]
    [] OTHER -> IF \E p \in ProjectsOf(q) : project[p].status = "finished"
                THEN "closed" ELSE "work"

Stages == [q \in Quote |-> StageOf(q)]
AdvancedOf == [i \in Item |-> Advanced(i, {})]
HandedOf == [i \in Item |-> Handed(i, {})]

\* What the quote's projects add up to: there is one at most (OneProject).
EarnedOf ==
  [q \in Quote |-> SumFunction([p \in ProjectsOf(q) |-> AdvancedValue(p)])]
PaidOf == [q \in Quote |-> SumFunction([p \in ProjectsOf(q) |-> TotalPaid(p)])]
WaivedOf == [q \in Quote |-> \E p \in ProjectsOf(q) : project[p].waived]

Ledger == INSTANCE WorkLedger WITH
  stage <- Stages, qty <- qty, advanced <- AdvancedOf, handed <- HandedOf,
  earned <- EarnedOf, paid <- PaidOf, waived <- WaivedOf

\* Every step of the requests is one of WorkLedger, or none.
ImplementsLedger == Ledger!Spec

=============================================================================
