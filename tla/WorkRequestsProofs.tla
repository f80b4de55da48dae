------------------------- MODULE WorkRequestsProofs -------------------------
(***************************************************************************)
(* What the requests of WorkRequests keep, for any set of quotes,          *)
(* projects, entries, photos, workers and requests, and any bounds.        *)
(*                                                                         *)
(*   1. The row lock.  What a request read before it may be stale, but     *)
(*      the row it holds cannot change under it (LocksAreHeld), so what the*)
(*      service checks on that row is still true when it writes.  For this *)
(*      the job of a request must point at rows that exist, which in turn  *)
(*      needs the rows to point at each other (JobsMakeSense, RowsBelong). *)
(*   2. The rest of the invariant, IInv, and what follows for projects,    *)
(*      records, labour and evidence; and the steps that a frozen quote    *)
(*      and a closed project never take.                                   *)
(*   3. Totals.  Sums over finite sets; what a request read of its item,   *)
(*      and what it counted under its lock, are still so when it writes    *)
(*      (JobsKnow, CountsHold); from that, nothing is recorded, handed out *)
(*      or left unpaid beyond what was quoted.                             *)
(*   4. Every step is one of WorkLedger, or changes nothing it sees.       *)
(***************************************************************************)
EXTENDS WorkRequests, FiniteSetTheorems, WellFoundedInduction, TLAPS

(***************************************************************************)
(* 1. The row lock.                                                        *)
(***************************************************************************)

Busy(r) == pc[r] \in {"read", "locked", "stored"}

\* Projects, entries and photos that exist, or existed, hang from each other.
RowsBelong ==
  /\ \A p \in Project : project[p].status # "new" => project[p].quote \in Quote
  /\ \A e \in Entry : entry[e].st # "new" =>
       /\ entry[e].project \in Project
       /\ entry[e].item \in Item
       /\ project[entry[e].project].status # "new"
  /\ \A f \in Photo : photo[f].st # "new" =>
       /\ photo[f].entry \in Entry
       /\ entry[photo[f].entry].st # "new"

\* A request under way knows rows that exist or existed, and the row it locks
\* is the quote, or the project, that the others hang from.
MakesSense(j) ==
  /\ j.op \in AllOps
  /\ j.op \in QuoteOps => j.row \in Quote
  /\ j.op \notin QuoteOps => j.row \in Project
  /\ RowStatus(j.row) # "new"
  /\ j.op \in ItemOps => j.item \in Item
  /\ j.op = "assign_service" => j.worker \in Worker
  /\ j.op \in EntryOps =>
       /\ j.entry \in Entry
       /\ j.item \in Item
       /\ entry[j.entry].st # "new"
       /\ entry[j.entry].project = j.row
  /\ j.op \in PhotoOps =>
       /\ j.photo \in Photo
       /\ photo[j.photo].st # "new"
       /\ entry[photo[j.photo].entry].project = j.row

JobsMakeSense == \A r \in Req : Busy(r) => MakesSense(job[r])

\* A photograph stored for a request is that request's, and waits for its row.
StoredPhotos ==
  \A r \in Req : pc[r] = "stored" =>
    /\ job[r].op = "add_evidence"
    /\ job[r].status \notin Terminal
    /\ job[r].photo \in files
    /\ photo[job[r].photo].st = "new"
    /\ \A r2 \in Req \ {r} : pc[r2] = "stored" => job[r2].photo # job[r].photo

\* Only the files of deleted rows are left to delete.
DroppedPhotos ==
  \A r \in Req : \A f \in drop[r] : photo[f].st = "gone"

IInv ==
  /\ TypeOK
  /\ RowsBelong
  /\ JobsMakeSense
  /\ LocksAreHeld
  /\ StoredPhotos
  /\ DroppedPhotos
  /\ OneProject
  /\ LedgerHangsTogether
  /\ EvidenceIsStored
  /\ LaborIsPriced

-----------------------------------------------------------------------------
LEMMA InitIInv == Init => IInv
<1> SUFFICES ASSUME Init PROVE IInv
  OBVIOUS
<1>1. TypeOK
  BY ConstantsAssumption, ItemsAssumption
  DEF Init, TypeOK, NoEntry, NoShare, NoJob, JobType, EntryType, RowState,
      QuoteStatus, ProjectStatus, Item, Row
<1>2. RowsBelong /\ JobsMakeSense /\ LocksAreHeld /\ StoredPhotos /\ DroppedPhotos
  BY DEF Init, RowsBelong, JobsMakeSense, LocksAreHeld, StoredPhotos,
         DroppedPhotos, NoEntry, Busy
<1>3. OneProject /\ LedgerHangsTogether /\ EvidenceIsStored /\ LaborIsPriced
  BY DEF Init, OneProject, LedgerHangsTogether, EvidenceIsStored, LaborIsPriced,
         LiveEntries, ProjectsOf, NoEntry, NoShare, Item
<1> QED BY <1>1, <1>2, <1>3 DEF IInv

-----------------------------------------------------------------------------
(* The shape of the rows and of the requests. *)

LEMMA NoJobType == NoJob \in JobType
  BY ConstantsAssumption, ItemsAssumption DEF NoJob, JobType, QuoteStatus

\* Rows have a status, in their table or the other.
LEMMA RowStatusType ==
  ASSUME TypeOK, NEW x \in Row
  PROVE  /\ RowStatus(x) \in QuoteStatus \cup ProjectStatus
         /\ x \in Quote => RowStatus(x) = quoteStatus[x]
         /\ x \in Project => RowStatus(x) = project[x].status
  BY ConstantsAssumption, ItemsAssumption DEF TypeOK, RowStatus, Row

LEMMA LaborType ==
  ASSUME TypeOK, NEW i \in Item, NEW w \in Worker
  PROVE  LaborUnitPrice(i, w) \in Price \cup {None}
  BY ConstantsAssumption, ItemsAssumption DEF TypeOK, LaborUnitPrice

\* Ending a request leaves it idle, or with files to delete, and its row free.
LEMMA EndType ==
  ASSUME TypeOK, NEW r \in Req, NEW toDrop \in SUBSET Photo, Commit(r, toDrop)
  PROVE  /\ pc' \in [Req -> {"idle", "read", "locked", "stored", "committed"}]
         /\ job' \in [Req -> JobType]
         /\ DOMAIN counted' = Req
         /\ drop' \in [Req -> SUBSET Photo]
         /\ lock' \in [Row -> Req \cup {None}]
  BY NoJobType DEF TypeOK, Commit, Forget, Release

\* A request begins with a job that names rows that exist.
LEMMA ReadBegins ==
  ASSUME IInv, NEW r \in Req, Read(r)
  PROVE  \E j \in JobType : Begin(r, j) /\ MakesSense(j)
<1> DEFINE Begins == \E j \in JobType : Begin(r, j) /\ MakesSense(j)
<1>0. TypeOK /\ RowsBelong
  BY DEF IInv
<1>1. ASSUME NEW op \in QuoteOps, NEW q \in Quote, ReadQuote(r, op, q)
      PROVE Begins
  <2> DEFINE j == [NoJob EXCEPT !.op = op, !.row = q]
  <2>1. j \in JobType /\ j.op = op /\ j.row = q
    BY NoJobType DEF JobType, Row, AllOps, NoJob
  <2>2. RowStatus(q) # "new"
    BY <1>0, <1>1, RowStatusType DEF ReadQuote, Row
  <2>3. MakesSense(j)
    BY <2>1, <2>2 DEF MakesSense, AllOps, QuoteOps, ItemOps, EntryOps, PhotoOps
  <2> QED BY <1>1, <2>1, <2>3 DEF ReadQuote
<1>2. ASSUME NEW op \in ProjectOps, NEW p \in Project, ReadProject(r, op, p)
      PROVE Begins
  <2> DEFINE j == [NoJob EXCEPT !.op = op, !.row = p]
  <2>1. j \in JobType /\ j.op = op /\ j.row = p
    BY NoJobType DEF JobType, Row, AllOps, NoJob
  <2>2. RowStatus(p) # "new"
    BY <1>0, <1>2, RowStatusType DEF ReadProject, Row
  <2>3. MakesSense(j)
    BY <2>1, <2>2
    DEF MakesSense, AllOps, QuoteOps, ProjectOps, ItemOps, EntryOps, PhotoOps
  <2> QED BY <1>2, <2>1, <2>3 DEF ReadProject
<1>3. ASSUME NEW op \in ItemOps, NEW p \in Project, NEW i \in Item,
             NEW w \in Worker \cup {None}, ReadItem(r, op, p, i, w)
      PROVE Begins
  <2> DEFINE j == [NoJob EXCEPT !.op = op, !.row = p, !.item = i, !.qty = qty[i],
                                !.worker = w]
  <2>1. qty[i] \in 0..MaxQty
    BY <1>0 DEF TypeOK
  <2>2. /\ j \in JobType /\ j.op = op /\ j.row = p /\ j.item = i /\ j.worker = w
    BY <2>1, NoJobType DEF JobType, Row, AllOps, NoJob
  <2>3. RowStatus(p) # "new"
    BY <1>0, <1>3, RowStatusType DEF ReadItem, Row
  <2>4. op = "assign_service" => w \in Worker
    BY <1>3 DEF ReadItem
  <2>5. MakesSense(j)
    BY <2>2, <2>3, <2>4 DEF MakesSense, AllOps, QuoteOps, ItemOps, EntryOps, PhotoOps
  <2> QED BY <1>3, <2>2, <2>5 DEF ReadItem
<1>4. ASSUME NEW op \in EntryOps, NEW e \in Entry, ReadEntry(r, op, e)
      PROVE Begins
  <2> DEFINE j == [NoJob EXCEPT !.op = op, !.row = entry[e].project, !.entry = e,
                                !.item = entry[e].item, !.qty = qty[entry[e].item],
                                !.worker = entry[e].worker]
  <2>1. /\ entry[e].st # "new"
        /\ entry[e].project \in Project
        /\ entry[e].item \in Item
        /\ entry[e].worker \in Worker \cup {None}
    BY <1>0, <1>4 DEF ReadEntry, RowsBelong, TypeOK, EntryType
  <2>2. qty[entry[e].item] \in 0..MaxQty
    BY <1>0, <2>1 DEF TypeOK
  <2>3. /\ j \in JobType /\ j.op = op /\ j.row = entry[e].project /\ j.entry = e
        /\ j.item = entry[e].item
    BY <2>1, <2>2, NoJobType DEF JobType, Row, AllOps, NoJob
  <2>4. RowStatus(entry[e].project) # "new"
    BY <1>0, <2>1, RowStatusType DEF RowsBelong, Row
  <2>5. MakesSense(j)
    BY <2>1, <2>3, <2>4 DEF MakesSense, AllOps, QuoteOps, ItemOps, EntryOps, PhotoOps
  <2> QED BY <1>4, <2>3, <2>5 DEF ReadEntry
<1>5. ASSUME NEW op \in PhotoOps, NEW f \in Photo, ReadPhoto(r, op, f)
      PROVE Begins
  <2> DEFINE j == [NoJob EXCEPT !.op = op, !.row = entry[photo[f].entry].project,
                                !.entry = photo[f].entry, !.photo = f]
  <2>1. /\ photo[f].st # "new"
        /\ photo[f].entry \in Entry
        /\ entry[photo[f].entry].project \in Project
        /\ project[entry[photo[f].entry].project].status # "new"
    BY <1>0, <1>5 DEF ReadPhoto, RowsBelong
  <2>2. /\ j \in JobType /\ j.op = op /\ j.row = entry[photo[f].entry].project
        /\ j.photo = f
    BY <2>1, NoJobType DEF JobType, Row, AllOps, NoJob
  <2>3. RowStatus(entry[photo[f].entry].project) # "new"
    BY <1>0, <2>1, RowStatusType DEF Row
  <2>4. MakesSense(j)
    BY <2>1, <2>2, <2>3 DEF MakesSense, AllOps, QuoteOps, ItemOps, EntryOps, PhotoOps
  <2> QED BY <1>5, <2>2, <2>4 DEF ReadPhoto
<1> QED BY <1>1, <1>2, <1>3, <1>4, <1>5 DEF Read

LEMMA ReadTypeOK ==
  ASSUME IInv, NEW r \in Req, Read(r) PROVE TypeOK'
<1>1. PICK j \in JobType : Begin(r, j) /\ MakesSense(j)
  BY ReadBegins
<1>2. [j EXCEPT !.seen = RowStatus(j.row)] \in JobType
  BY <1>1, RowStatusType DEF JobType, IInv, MakesSense, Row
<1> QED BY <1>1, <1>2 DEF Begin, TypeOK, IInv, data

LEMMA LockTypeOK ==
  ASSUME IInv, NEW r \in Req, LockRow(r) PROVE TypeOK'
<1>1. job[r].row \in Row /\ job[r] \in JobType
  BY DEF LockRow, IInv, JobsMakeSense, MakesSense, Busy, Row, TypeOK
<1>2. RowStatus(job[r].row) \in QuoteStatus \cup ProjectStatus
  BY <1>1, RowStatusType DEF IInv
<1>3. job' \in [Req -> JobType]
  BY <1>1, <1>2 DEF LockRow, IInv, TypeOK, JobType
<1> QED BY <1>1, <1>3 DEF LockRow, IInv, TypeOK, data

LEMMA EndTypeOK ==
  ASSUME IInv, NEW r \in Req, Rollback(r) \/ Die(r) \/ DropFiles(r)
  PROVE  TypeOK'
<1>1. CASE Rollback(r)
  BY <1>1, NoJobType DEF Rollback, Forget, Release, IInv, TypeOK, data
<1>2. CASE Die(r)
  BY <1>2, NoJobType DEF Die, Forget, Release, IInv, TypeOK, data
<1>3. CASE DropFiles(r)
  BY <1>3 DEF DropFiles, IInv, TypeOK
<1> QED BY <1>1, <1>2, <1>3

LEMMA QuoteTypeOK ==
  ASSUME IInv, NEW lines \in [Line -> 0..MaxQty],
         \/ \E q \in Quote : CreateQuote(q, lines)
         \/ \E r \in Req : UpdateQuote(r, lines) \/ DeleteQuote(r)
  PROVE  TypeOK'
<1>1. \A x : [i \in Item |-> IF i[1] = x THEN lines[i[2]] ELSE qty[i]]
               \in [Item -> 0..MaxQty]
  BY DEF IInv, TypeOK, Item
<1>2. ASSUME NEW q \in Quote, CreateQuote(q, lines) PROVE TypeOK'
  <2>1. qty' \in [Item -> 0..MaxQty]
    BY <1>1, <1>2 DEF CreateQuote
  <2>2. quoteStatus' \in [Quote -> QuoteStatus] /\ issued' \in Nat
    BY <1>2 DEF CreateQuote, IInv, TypeOK, QuoteStatus
  <2> QED BY <1>2, <2>1, <2>2 DEF CreateQuote, IInv, TypeOK
<1>3. ASSUME NEW r \in Req, UpdateQuote(r, lines) PROVE TypeOK'
  BY <1>1, <1>3, EndType DEF UpdateQuote, IInv, TypeOK
<1>4. ASSUME NEW r \in Req, DeleteQuote(r) PROVE TypeOK'
  <2>1. qty' \in [Item -> 0..MaxQty]
    BY <1>4, ConstantsAssumption, ItemsAssumption DEF DeleteQuote, IInv, TypeOK
  <2> QED BY <1>4, <2>1, EndType DEF DeleteQuote, IInv, TypeOK, QuoteStatus
<1> QED BY <1>2, <1>3, <1>4

LEMMA ProjectTypeOK ==
  ASSUME IInv, NEW r \in Req,
         \/ \E p \in Project : StartProject(r, p)
         \/ \E confirm \in BOOLEAN : FinalizeProject(r, confirm)
  PROVE  TypeOK'
<1>1. ASSUME NEW p \in Project, StartProject(r, p) PROVE TypeOK'
  <2>1. job[r].row \in Quote
    BY <1>1 DEF StartProject, Doing, IInv, JobsMakeSense, MakesSense, Busy, QuoteOps
  <2>2. project' \in [Project -> [status : ProjectStatus, quote : Quote \cup {None},
                                  waived : BOOLEAN]]
    <3>1. project \in [Project -> [status : ProjectStatus, quote : Quote \cup {None},
                                   waived : BOOLEAN]]
      BY DEF IInv, TypeOK
    <3>2. project' = [project EXCEPT ![p].status = "in_progress",
                                     ![p].quote = job[r].row]
      BY <1>1 DEF StartProject
    <3> QED BY <2>1, <3>1, <3>2 DEF ProjectStatus
  <2>3. quoteStatus' \in [Quote -> QuoteStatus]
    BY <1>1, <2>1 DEF StartProject, BecomesProject, IInv, TypeOK, QuoteStatus
  <2> QED BY <1>1, <2>2, <2>3, EndType DEF StartProject, IInv, TypeOK
<1>2. ASSUME NEW confirm \in BOOLEAN, FinalizeProject(r, confirm) PROVE TypeOK'
  <2>1. project' \in [Project -> [status : ProjectStatus, quote : Quote \cup {None},
                                  waived : BOOLEAN]]
    <3>1. project \in [Project -> [status : ProjectStatus, quote : Quote \cup {None},
                                   waived : BOOLEAN]]
      BY DEF IInv, TypeOK
    <3>2. (counted[r] > 0) \in BOOLEAN
      OBVIOUS
    <3>3. PICK waived \in BOOLEAN :
            project' = [project EXCEPT ![job[r].row].status = "finished",
                                       ![job[r].row].waived = waived]
      BY <1>2, <3>2, Zenon DEF FinalizeProject
    <3> QED BY <3>1, <3>3 DEF ProjectStatus
  <2> QED BY <1>2, <2>1, EndType DEF FinalizeProject, IInv, TypeOK
<1> QED BY <1>1, <1>2

\* A correction changes an entry's quantity and labour, and no other entry.
LEMMA CorrectionType ==
  ASSUME NEW f \in [Entry -> EntryType], NEW e \in Entry, NEW n \in 0..MaxQty,
         NEW w \in Worker \cup {None}, NEW price \in Price \cup {None}
  PROVE  [f EXCEPT ![e].n = n, ![e].worker = w, ![e].price = price]
           \in [Entry -> EntryType]
<1>1. ASSUME NEW x \in Entry
      PROVE [f EXCEPT ![e].n = n, ![e].worker = w, ![e].price = price][x] \in EntryType
  <2>1. f[x] \in EntryType
    OBVIOUS
  <2>2. CASE x = e
    BY <2>1, <2>2 DEF EntryType
  <2>3. CASE x # e
    BY <2>1, <2>3
  <2> QED BY <2>2, <2>3
<1> QED BY <1>1

LEMMA ProgressTypeOK ==
  ASSUME IInv, NEW r \in Req,
         \/ \E e \in Entry, n \in 0..MaxQty : RegisterProgress(r, e, n)
         \/ \E n \in 0..MaxQty, w \in Worker \cup {None} : UpdateProgress(r, n, w)
         \/ DeleteProgress(r)
  PROVE  TypeOK'
<1>1. ASSUME NEW e \in Entry, NEW n \in 0..MaxQty, RegisterProgress(r, e, n)
      PROVE TypeOK'
  <2>1. job[r].row \in Project /\ job[r].item \in Item
        /\ job[r].worker \in Worker \cup {None}
    BY <1>1 DEF RegisterProgress, Doing, IInv, JobsMakeSense, MakesSense, Busy, QuoteOps,
                ItemOps, TypeOK, JobType
  <2>2. (IF job[r].worker = None THEN None ELSE LaborUnitPrice(job[r].item, job[r].worker))
          \in Price \cup {None}
    BY <2>1, LaborType DEF IInv
  <2>3. entry' \in [Entry -> EntryType]
    BY <1>1, <2>1, <2>2 DEF RegisterProgress, IInv, TypeOK, EntryType, RowState
  <2> QED BY <1>1, <2>3, EndType DEF RegisterProgress, IInv, TypeOK
<1>2. ASSUME NEW n \in 0..MaxQty, NEW w \in Worker \cup {None},
             UpdateProgress(r, n, w)
      PROVE TypeOK'
  <2>1. job[r].entry \in Entry /\ job[r].item \in Item
    BY <1>2 DEF UpdateProgress, Doing, IInv, JobsMakeSense, MakesSense, Busy, EntryOps
  <2>2. CorrectedLabor(r, w).worker \in Worker \cup {None}
        /\ CorrectedLabor(r, w).price \in Price \cup {None}
    BY <2>1, LaborType DEF CorrectedLabor, IInv, TypeOK, EntryType
  <2>3. CorrectedQty(r, n) \in 0..MaxQty
    BY <2>1 DEF CorrectedQty, IInv, TypeOK, EntryType
  <2>4. entry' \in [Entry -> EntryType]
    <3>1. entry \in [Entry -> EntryType]
      BY DEF IInv, TypeOK
    <3>2. PICK n2 \in 0..MaxQty, w2 \in Worker \cup {None}, p2 \in Price \cup {None} :
            entry' = [entry EXCEPT ![job[r].entry].n = n2, ![job[r].entry].worker = w2,
                                   ![job[r].entry].price = p2]
      BY <1>2, <2>2, <2>3 DEF UpdateProgress, Save
    <3> QED BY <2>1, <3>1, <3>2, CorrectionType
  <2> QED BY <1>2, <2>4, EndType DEF UpdateProgress, IInv, TypeOK
<1>3. CASE DeleteProgress(r)
  <2>1. entry' \in [Entry -> EntryType]
    <3>1. entry \in [Entry -> EntryType]
      BY DEF IInv, TypeOK
    <3>2. entry' = [entry EXCEPT ![job[r].entry].st = "gone"]
      BY <1>3 DEF DeleteProgress
    <3> QED BY <3>1, <3>2 DEF EntryType, RowState
  <2>2. photo' \in [Photo -> [st : RowState, entry : Entry \cup {None}]]
    <3>1. photo \in [Photo -> [st : RowState, entry : Entry \cup {None}]]
      BY DEF IInv, TypeOK
    <3>2. photo' = [f \in Photo |-> IF f \in PhotosOf(job[r].entry)
                                    THEN [photo[f] EXCEPT !.st = "gone"] ELSE photo[f]]
      BY <1>3 DEF DeleteProgress
    <3>3. \A f \in Photo : [photo[f] EXCEPT !.st = "gone"] \in
                             [st : RowState, entry : Entry \cup {None}]
      BY <3>1 DEF RowState
    <3> QED BY <3>1, <3>2, <3>3
  <2> QED BY <1>3, <2>1, <2>2, EndType DEF DeleteProgress, PhotosOf, IInv, TypeOK
<1> QED BY <1>1, <1>2, <1>3

LEMMA EvidenceTypeOK ==
  ASSUME IInv, NEW r \in Req,
         (\E f \in Photo : StorePhoto(r, f)) \/ AddEvidence(r) \/ DeleteEvidence(r)
  PROVE  TypeOK'
<1>1. ASSUME NEW f \in Photo, StorePhoto(r, f) PROVE TypeOK'
  <2>1. job' \in [Req -> JobType]
    <3>1. job \in [Req -> JobType]
      BY DEF IInv, TypeOK
    <3> QED BY <1>1, <3>1 DEF StorePhoto, JobType
  <2> QED BY <1>1, <2>1 DEF StorePhoto, IInv, TypeOK
<1>2. CASE AddEvidence(r)
  <2>1. job[r].entry \in Entry
    BY <1>2 DEF AddEvidence, IInv, StoredPhotos, JobsMakeSense, MakesSense, Busy, EntryOps
  <2>2. photo' \in [Photo -> [st : RowState, entry : Entry \cup {None}]]
    BY <1>2, <2>1 DEF AddEvidence, IInv, TypeOK, RowState
  <2> QED BY <1>2, <2>2, EndType DEF AddEvidence, IInv, TypeOK
<1>3. CASE DeleteEvidence(r)
  <2>1. job[r].photo \in Photo
    BY <1>3 DEF DeleteEvidence, Doing, IInv, JobsMakeSense, MakesSense, Busy, PhotoOps
  <2>2. photo' \in [Photo -> [st : RowState, entry : Entry \cup {None}]]
    BY <1>3, <2>1 DEF DeleteEvidence, IInv, TypeOK, RowState
  <2> QED BY <1>3, <2>1, <2>2, EndType DEF DeleteEvidence, IInv, TypeOK
<1> QED BY <1>1, <1>2, <1>3

LEMMA MoneyTypeOK ==
  ASSUME IInv, NEW r \in Req, NEW amount \in 0..MaxAmount, RegisterPayment(r, amount)
  PROVE  TypeOK'
<1>1. job[r].row \in Project
  BY DEF RegisterPayment, Doing, IInv, JobsMakeSense, MakesSense, Busy, QuoteOps
<1>2. amount \in 1..MaxAmount
  BY ConstantsAssumption, ItemsAssumption DEF RegisterPayment, Positive
<1>3. payments' \in [Project -> Seq(1..MaxAmount)]
  BY <1>1, <1>2 DEF RegisterPayment, IInv, TypeOK
<1> QED BY <1>3, EndType DEF RegisterPayment, IInv, TypeOK

LEMMA StaffTypeOK ==
  ASSUME IInv,
         \/ \E r \in Req, n \in 0..MaxQty, price \in Price \cup {None} :
              AssignService(r, n, price)
         \/ \E i \in Item, w \in Worker : DeleteAssignment(i, w)
         \/ \E w \in Worker, price \in Price \cup {None} : SetWorkerServices(w, price)
  PROVE  TypeOK'
<1>1. ASSUME NEW r \in Req, NEW n \in 0..MaxQty, NEW price \in Price \cup {None},
             AssignService(r, n, price)
      PROVE TypeOK'
  <2>1. job[r].item \in Item /\ job[r].worker \in Worker
    BY <1>1 DEF AssignService, Doing, IInv, JobsMakeSense, MakesSense, Busy, ItemOps
  <2>2. (IF price = None THEN LaborUnitPrice(job[r].item, job[r].worker) ELSE price)
          \in Price \cup {None}
    BY <2>1, LaborType DEF IInv
  <2>3. share' \in [Item -> [Worker -> [n : 0..MaxQty, price : Price \cup {None}]]]
    BY <1>1, <2>1, <2>2 DEF AssignService, IInv, TypeOK
  <2> QED BY <1>1, <2>3, EndType DEF AssignService, IInv, TypeOK
<1>2. ASSUME NEW i \in Item, NEW w \in Worker, DeleteAssignment(i, w) PROVE TypeOK'
  <2>1. NoShare \in [n : 0..MaxQty, price : Price \cup {None}]
    BY ConstantsAssumption, ItemsAssumption DEF NoShare
  <2> QED BY <1>2, <2>1 DEF DeleteAssignment, IInv, TypeOK
<1>3. ASSUME NEW w \in Worker, NEW price \in Price \cup {None},
             SetWorkerServices(w, price)
      PROVE TypeOK'
  BY <1>3 DEF SetWorkerServices, IInv, TypeOK
<1> QED BY <1>1, <1>2, <1>3

LEMMA NextTypeOK ==
  ASSUME IInv, Next PROVE TypeOK'
<1>1. ASSUME NEW r \in Req, Write(r) PROVE TypeOK'
  <2>1. CASE (\E lines \in [Line -> 0..MaxQty] : UpdateQuote(r, lines)) \/ DeleteQuote(r)
    <3>1. [l \in Line |-> 0] \in [Line -> 0..MaxQty]
      BY ConstantsAssumption, ItemsAssumption
    <3> QED BY <2>1, <3>1, QuoteTypeOK
  <2>2. CASE \E amount \in 0..MaxAmount : RegisterPayment(r, amount)
    BY <2>2, MoneyTypeOK
  <2>3. CASE \E n \in 0..MaxQty, price \in Price \cup {None} : AssignService(r, n, price)
    BY <2>3, StaffTypeOK
  <2> QED BY <1>1, <2>1, <2>2, <2>3, ProjectTypeOK, ProgressTypeOK, EvidenceTypeOK
          DEF Write
<1>2. ASSUME NEW r \in Req, Read(r) \/ LockRow(r) \/ Rollback(r) \/ DropFiles(r) \/ Die(r)
      PROVE TypeOK'
  BY <1>2, ReadTypeOK, LockTypeOK, EndTypeOK
<1>3. CASE \E q \in Quote, lines \in [Line -> 0..MaxQty] : CreateQuote(q, lines)
  BY <1>3, QuoteTypeOK
<1> QED BY <1>1, <1>2, <1>3, StaffTypeOK DEF Next

-----------------------------------------------------------------------------
(* What a step of one request leaves of the others, and of the rows. *)

\* r ends its transaction, or what it left for after it: no other request and
\* no lock but its own moves.
Ends(r) ==
  /\ pc'[r] \in {"idle", "committed"}
  /\ \A r2 \in Req \ {r} : pc'[r2] = pc[r2] /\ job'[r2] = job[r2] /\ drop'[r2] = drop[r2]
  /\ \A x \in Row : lock[x] # r => lock'[x] = lock[x]

LEMMA CommitEnds ==
  ASSUME TypeOK, NEW r \in Req, NEW toDrop, Commit(r, toDrop)
  PROVE  Ends(r) /\ drop'[r] = toDrop
  BY DEF TypeOK, Commit, Forget, Release, Ends

LEMMA WriteEnds ==
  ASSUME TypeOK, NEW r \in Req, Write(r)
  PROVE  Ends(r) \/ \E f \in Photo : StorePhoto(r, f)
  BY CommitEnds
  DEF Write, UpdateQuote, DeleteQuote, StartProject, FinalizeProject, RegisterProgress,
      UpdateProgress, DeleteProgress, AddEvidence, DeleteEvidence, RegisterPayment,
      AssignService

LEMMA OtherEnds ==
  ASSUME TypeOK, NEW r \in Req, Rollback(r) \/ Die(r) \/ DropFiles(r)
  PROVE  Ends(r)
  BY DEF TypeOK, Rollback, Die, DropFiles, Forget, Release, Ends

\* A request that reads, locks, fails or dies changes no row.
LEMMA NoData ==
  ASSUME NEW r \in Req, Read(r) \/ LockRow(r) \/ Rollback(r) \/ Die(r)
  PROVE  UNCHANGED data
<1>1. ASSUME Read(r) PROVE UNCHANGED data
  <2>1. \A j : Begin(r, j) => UNCHANGED data
    BY DEF Begin
  <2> QED BY <1>1, <2>1 DEF Read, ReadQuote, ReadProject, ReadItem, ReadEntry, ReadPhoto
<1> QED BY <1>1 DEF LockRow, Rollback, Die

\* The only steps that move the status of a quote or a project.
LEMMA StatusSteps ==
  ASSUME Next
  PROVE  \/ UNCHANGED <<quoteStatus, project>>
         \/ \E q \in Quote, lines \in [Line -> 0..MaxQty] : CreateQuote(q, lines)
         \/ \E r \in Req : \/ DeleteQuote(r)
                           \/ \E p \in Project : StartProject(r, p)
                           \/ \E confirm \in BOOLEAN : FinalizeProject(r, confirm)
<1>1. ASSUME NEW r \in Req, Write(r)
      PROVE  \/ UNCHANGED <<quoteStatus, project>>
             \/ DeleteQuote(r)
             \/ \E p \in Project : StartProject(r, p)
             \/ \E confirm \in BOOLEAN : FinalizeProject(r, confirm)
  BY <1>1 DEF Write, UpdateQuote, RegisterProgress, UpdateProgress, DeleteProgress,
              StorePhoto, AddEvidence, DeleteEvidence, RegisterPayment, AssignService
<1>2. ASSUME NEW r \in Req, Read(r) \/ LockRow(r) \/ Rollback(r) \/ Die(r) \/ DropFiles(r)
      PROVE  UNCHANGED <<quoteStatus, project>>
  BY <1>2, NoData DEF data, DropFiles
<1>3. ASSUME NEW i \in Item, NEW w \in Worker, DeleteAssignment(i, w)
      PROVE UNCHANGED <<quoteStatus, project>>
  BY <1>3 DEF DeleteAssignment
<1>4. ASSUME NEW w \in Worker, NEW price \in Price \cup {None}, SetWorkerServices(w, price)
      PROVE UNCHANGED <<quoteStatus, project>>
  BY <1>4 DEF SetWorkerServices
<1> QED BY <1>1, <1>2, <1>3, <1>4 DEF Next

\* What exists goes on existing, and hangs from what it hung from.
RowsStay ==
  /\ \A x \in Row : RowStatus(x) # "new" => RowStatus(x)' # "new"
  /\ \A p \in Project : project[p].status # "new" =>
       /\ project'[p].status # "new"
       /\ project'[p].quote = project[p].quote
  /\ \A e \in Entry : entry[e].st # "new" =>
       /\ entry'[e].st # "new"
       /\ entry'[e].project = entry[e].project
       /\ entry'[e].item = entry[e].item
  /\ \A f \in Photo : photo[f].st # "new" =>
       /\ photo'[f].st # "new"
       /\ photo'[f].entry = photo[f].entry

LEMMA StatusesStay ==
  ASSUME IInv, Next
  PROVE  /\ \A x \in Row : RowStatus(x) # "new" => RowStatus(x)' # "new"
         /\ \A p \in Project : project[p].status # "new" =>
              /\ project'[p].status # "new"
              /\ project'[p].quote = project[p].quote
<1> DEFINE Stay ==
      /\ \A x \in Row : RowStatus(x) # "new" => RowStatus(x)' # "new"
      /\ \A p \in Project : project[p].status # "new" =>
           /\ project'[p].status # "new"
           /\ project'[p].quote = project[p].quote
<1>1. ASSUME UNCHANGED <<quoteStatus, project>> PROVE Stay
  BY <1>1 DEF RowStatus
<1>2. ASSUME NEW q \in Quote, NEW lines \in [Line -> 0..MaxQty], CreateQuote(q, lines)
      PROVE Stay
  BY <1>2 DEF CreateQuote, RowStatus, IInv, TypeOK, Row
<1>3. ASSUME NEW r \in Req, DeleteQuote(r) PROVE Stay
  BY <1>3 DEF DeleteQuote, RowStatus, IInv, TypeOK, Row
<1>4. ASSUME NEW r \in Req, NEW p \in Project, StartProject(r, p) PROVE Stay
  BY <1>4 DEF StartProject, BecomesProject, RowStatus, IInv, TypeOK, Row
<1>5. ASSUME NEW r \in Req, NEW confirm \in BOOLEAN, FinalizeProject(r, confirm)
      PROVE Stay
  <2>1. project' = [project EXCEPT ![job[r].row].status = "finished",
                                   ![job[r].row].waived = (counted[r] > 0)]
        /\ quoteStatus' = quoteStatus
    BY <1>5 DEF FinalizeProject
  <2>2. \A p \in Project : project[p].status # "new" =>
           /\ project'[p].status # "new"
           /\ project'[p].quote = project[p].quote
    BY <2>1 DEF IInv, TypeOK
  <2> QED BY <2>1, <2>2 DEF RowStatus, Row
<1> QED BY <1>1, <1>2, <1>3, <1>4, <1>5, StatusSteps

\* The only steps that change the entries, and those that change the photos.
LEMMA EntrySteps ==
  ASSUME Next
  PROVE  \/ UNCHANGED entry
         \/ \E r \in Req :
              \/ \E e \in Entry, n \in 0..MaxQty : RegisterProgress(r, e, n)
              \/ \E n \in 0..MaxQty, w \in Worker \cup {None} : UpdateProgress(r, n, w)
              \/ DeleteProgress(r)
<1>1. ASSUME NEW r \in Req, Write(r)
      PROVE  \/ UNCHANGED entry
             \/ \E e \in Entry, n \in 0..MaxQty : RegisterProgress(r, e, n)
             \/ \E n \in 0..MaxQty, w \in Worker \cup {None} : UpdateProgress(r, n, w)
             \/ DeleteProgress(r)
  BY <1>1 DEF Write, UpdateQuote, DeleteQuote, StartProject, FinalizeProject, StorePhoto,
              AddEvidence, DeleteEvidence, RegisterPayment, AssignService
<1>2. ASSUME NEW r \in Req, Read(r) \/ LockRow(r) \/ Rollback(r) \/ Die(r) \/ DropFiles(r)
      PROVE  UNCHANGED entry
  BY <1>2, NoData DEF data, DropFiles
<1> QED BY <1>1, <1>2 DEF Next, CreateQuote, DeleteAssignment, SetWorkerServices

LEMMA PhotoSteps ==
  ASSUME Next
  PROVE  \/ UNCHANGED photo
         \/ \E r \in Req : DeleteProgress(r) \/ AddEvidence(r) \/ DeleteEvidence(r)
<1>1. ASSUME NEW r \in Req, Write(r)
      PROVE  UNCHANGED photo \/ DeleteProgress(r) \/ AddEvidence(r) \/ DeleteEvidence(r)
  BY <1>1 DEF Write, UpdateQuote, DeleteQuote, StartProject, FinalizeProject, StorePhoto,
              RegisterProgress, UpdateProgress, RegisterPayment, AssignService
<1>2. ASSUME NEW r \in Req, Read(r) \/ LockRow(r) \/ Rollback(r) \/ Die(r) \/ DropFiles(r)
      PROVE  UNCHANGED photo
  BY <1>2, NoData DEF data, DropFiles
<1> QED BY <1>1, <1>2 DEF Next, CreateQuote, DeleteAssignment, SetWorkerServices

LEMMA EntriesStay ==
  ASSUME IInv, Next, NEW e \in Entry, entry[e].st # "new"
  PROVE  /\ entry'[e].st # "new"
         /\ entry'[e].project = entry[e].project
         /\ entry'[e].item = entry[e].item
<1>1. entry \in [Entry -> EntryType]
  BY DEF IInv, TypeOK
<1>2. ASSUME NEW r \in Req, NEW x \in Entry, NEW n \in 0..MaxQty, RegisterProgress(r, x, n)
      PROVE  entry'[e] = entry[e]
  BY <1>1, <1>2 DEF RegisterProgress
<1>3. ASSUME NEW r \in Req, NEW n \in 0..MaxQty, NEW w \in Worker \cup {None},
             UpdateProgress(r, n, w)
      PROVE  /\ entry'[e].st = entry[e].st
             /\ entry'[e].project = entry[e].project
             /\ entry'[e].item = entry[e].item
  <2>1. PICK x, n2, w2, p2 :
          entry' = [entry EXCEPT ![x].n = n2, ![x].worker = w2, ![x].price = p2]
    BY <1>3 DEF UpdateProgress, Save
  <2> QED BY <1>1, <2>1 DEF EntryType
<1>4. ASSUME NEW r \in Req, DeleteProgress(r)
      PROVE  /\ entry'[e].st # "new"
             /\ entry'[e].project = entry[e].project
             /\ entry'[e].item = entry[e].item
  <2>1. entry' = [entry EXCEPT ![job[r].entry].st = "gone"]
    BY <1>4 DEF DeleteProgress
  <2> QED BY <1>1, <2>1 DEF EntryType
<1> QED BY <1>2, <1>3, <1>4, EntrySteps

LEMMA PhotosStay ==
  ASSUME IInv, Next, NEW f \in Photo, photo[f].st # "new"
  PROVE  photo'[f].st # "new" /\ photo'[f].entry = photo[f].entry
<1>1. photo \in [Photo -> [st : RowState, entry : Entry \cup {None}]]
  BY DEF IInv, TypeOK
<1>2. ASSUME NEW r \in Req, DeleteProgress(r)
      PROVE  photo'[f].st # "new" /\ photo'[f].entry = photo[f].entry
  BY <1>1, <1>2 DEF DeleteProgress
<1>3. ASSUME NEW r \in Req, AddEvidence(r) PROVE photo'[f] = photo[f]
  <2>1. photo[job[r].photo].st = "new"
    BY <1>3 DEF AddEvidence, IInv, StoredPhotos
  <2> QED BY <1>1, <1>3, <2>1 DEF AddEvidence
<1>4. ASSUME NEW r \in Req, DeleteEvidence(r)
      PROVE  photo'[f].st # "new" /\ photo'[f].entry = photo[f].entry
  BY <1>1, <1>4 DEF DeleteEvidence
<1> QED BY <1>2, <1>3, <1>4, PhotoSteps

LEMMA NextRowsStay == ASSUME IInv, Next PROVE RowsStay
  BY StatusesStay, EntriesStay, PhotosStay DEF RowsStay

\* What a step does to the job of a request that is under way after it: the
\* request has just begun, or it is where it was but for the row it read and
\* the photo it stored.
LEMMA JobSteps ==
  ASSUME IInv, Next, NEW r \in Req, Busy(r)'
  PROVE  \/ Read(r)
         \/ /\ Busy(r)
            /\ job'[r].op = job[r].op
            /\ job'[r].row = job[r].row
            /\ job'[r].item = job[r].item
            /\ job'[r].entry = job[r].entry
            /\ job'[r].worker = job[r].worker
            /\ job'[r].qty = job[r].qty
            /\ job[r].op # "add_evidence" => job'[r].photo = job[r].photo
<1> DEFINE Same ==
      /\ Busy(r)
      /\ job'[r].op = job[r].op
      /\ job'[r].row = job[r].row
      /\ job'[r].item = job[r].item
      /\ job'[r].entry = job[r].entry
      /\ job'[r].worker = job[r].worker
      /\ job'[r].qty = job[r].qty
      /\ job[r].op # "add_evidence" => job'[r].photo = job[r].photo
<1>0. TypeOK /\ job \in [Req -> JobType]
  BY DEF IInv, TypeOK
<1>1. ASSUME pc'[r] = pc[r], job'[r] = job[r] PROVE Same
  BY <1>1 DEF Busy
<1>2. ASSUME NEW r0 \in Req, Ends(r0) PROVE Same
  <2>1. r0 # r
    BY <1>2 DEF Ends, Busy
  <2> QED BY <1>1, <1>2, <2>1 DEF Ends
<1>3. ASSUME NEW r0 \in Req, Read(r0), r0 # r PROVE Same
  <2>1. \A j : Begin(r0, j) => pc'[r] = pc[r] /\ job'[r] = job[r]
    BY <1>0, <1>3 DEF Begin, TypeOK
  <2> QED BY <1>1, <1>3, <2>1 DEF Read, ReadQuote, ReadProject, ReadItem, ReadEntry, ReadPhoto
<1>4. ASSUME NEW r0 \in Req, LockRow(r0) PROVE Same
  <2>1. Busy(r)
    BY <1>0, <1>4 DEF LockRow, Busy, TypeOK
  <2>2. job' = [job EXCEPT ![r0].status = RowStatus(job[r0].row)]
    BY <1>4 DEF LockRow
  <2> QED BY <1>0, <2>1, <2>2 DEF JobType
<1>5. ASSUME NEW r0 \in Req, NEW f \in Photo, StorePhoto(r0, f) PROVE Same
  <2>1. Busy(r)
    BY <1>0, <1>5 DEF StorePhoto, Doing, Busy, TypeOK
  <2>2. job' = [job EXCEPT ![r0].photo = f] /\ job[r0].op = "add_evidence"
    BY <1>5 DEF StorePhoto, Doing
  <2> QED BY <1>0, <2>1, <2>2 DEF JobType
<1>6. ASSUME UNCHANGED <<pc, job>> PROVE Same
  BY <1>1, <1>6
<1>7. CASE \E r0 \in Req : Write(r0) \/ Rollback(r0) \/ Die(r0) \/ DropFiles(r0)
  BY <1>0, <1>2, <1>5, <1>7, WriteEnds, OtherEnds
<1>8. CASE \E r0 \in Req : Read(r0) \/ LockRow(r0)
  BY <1>3, <1>4, <1>8
<1> QED BY <1>6, <1>7, <1>8 DEF Next, CreateQuote, DeleteAssignment, SetWorkerServices

LEMMA NextRowsBelong ==
  ASSUME IInv, Next PROVE RowsBelong'
<1>0. TypeOK /\ RowsBelong /\ RowsStay
  BY NextRowsStay DEF IInv
<1>1. ASSUME NEW p \in Project, project'[p].status # "new"
      PROVE  project'[p].quote \in Quote
  <2>1. CASE project[p].status # "new"
    BY <1>0, <2>1 DEF RowsStay, RowsBelong
  <2>2. CASE project'[p] = project[p]
    BY <1>0, <1>1, <2>2 DEF RowsBelong
  <2>3. ASSUME NEW r \in Req, NEW p0 \in Project, StartProject(r, p0),
               project'[p] # project[p]
        PROVE  project'[p].quote \in Quote
    <3>1. job[r].row \in Quote
      BY <2>3 DEF StartProject, Doing, IInv, JobsMakeSense, MakesSense, Busy, QuoteOps
    <3>2. project \in [Project -> [status : ProjectStatus, quote : Quote \cup {None},
                                   waived : BOOLEAN]]
      BY <1>0 DEF TypeOK
    <3> QED BY <2>3, <3>1, <3>2 DEF StartProject
  <2>4. ASSUME NEW r \in Req, NEW confirm \in BOOLEAN, FinalizeProject(r, confirm),
               project'[p] # project[p]
        PROVE  project[p].status # "new"
    <3>1. job[r].row \in Project /\ RowStatus(job[r].row) # "new"
      BY <2>4 DEF FinalizeProject, Doing, IInv, JobsMakeSense, MakesSense, Busy, QuoteOps
    <3>2. job[r].row = p
      BY <1>0, <2>4, <3>1 DEF FinalizeProject, TypeOK
    <3> QED BY <1>0, <3>1, <3>2, RowStatusType DEF Row
  <2> QED BY <2>1, <2>2, <2>3, <2>4, StatusSteps DEF CreateQuote, DeleteQuote
<1>2. ASSUME NEW e \in Entry, entry'[e].st # "new"
      PROVE  /\ entry'[e].project \in Project
             /\ entry'[e].item \in Item
             /\ project'[entry'[e].project].status # "new"
  <2>1. CASE entry[e].st # "new"
    BY <1>0, <2>1 DEF RowsStay, RowsBelong
  <2>2. CASE entry[e].st = "new"
    <3>1. entry'[e] # entry[e]
      BY <1>2, <2>2
    <3>2. entry \in [Entry -> EntryType]
      BY <1>0 DEF TypeOK
    <3>3. ASSUME NEW r \in Req, NEW n \in 0..MaxQty, NEW w \in Worker \cup {None},
                 UpdateProgress(r, n, w)
          PROVE  entry'[e].st = entry[e].st
      <4>1. PICK x, n2, w2, p2 :
              entry' = [entry EXCEPT ![x].n = n2, ![x].worker = w2, ![x].price = p2]
        BY <3>3 DEF UpdateProgress, Save
      <4> QED BY <3>2, <4>1 DEF EntryType
    <3>4. ASSUME NEW r \in Req, DeleteProgress(r) PROVE entry'[e] = entry[e]
      <4>1. entry[job[r].entry].st # "new"
        BY <3>4 DEF DeleteProgress, Doing, IInv, JobsMakeSense, MakesSense, Busy, EntryOps
      <4> QED BY <2>2, <3>2, <3>4, <4>1 DEF DeleteProgress
    <3>5. PICK r \in Req, n \in 0..MaxQty : RegisterProgress(r, e, n)
      <4>1. \A r \in Req, x \in Entry, n \in 0..MaxQty :
              RegisterProgress(r, x, n) => x = e
        BY <3>1, <3>2 DEF RegisterProgress
      <4> QED BY <1>2, <2>2, <3>1, <3>3, <3>4, <4>1, EntrySteps
    <3>6. /\ job[r].row \in Project /\ RowStatus(job[r].row) # "new"
          /\ job[r].item \in Item
      BY <3>5 DEF RegisterProgress, Doing, IInv, JobsMakeSense, MakesSense, Busy, QuoteOps, ItemOps
    <3>7. project[job[r].row].status # "new"
      BY <1>0, <3>6, RowStatusType DEF Row
    <3>8. entry'[e].project = job[r].row /\ entry'[e].item = job[r].item
      BY <3>2, <3>5 DEF RegisterProgress
    <3> QED BY <1>0, <3>6, <3>7, <3>8 DEF RowsStay
  <2> QED BY <2>1, <2>2
<1>3. ASSUME NEW f \in Photo, photo'[f].st # "new"
      PROVE  photo'[f].entry \in Entry /\ entry'[photo'[f].entry].st # "new"
  <2>1. CASE photo[f].st # "new"
    BY <1>0, <2>1 DEF RowsStay, RowsBelong
  <2>2. CASE photo[f].st = "new"
    <3>1. photo \in [Photo -> [st : RowState, entry : Entry \cup {None}]]
      BY <1>0 DEF TypeOK
    <3>2. ASSUME NEW r \in Req, DeleteProgress(r) PROVE photo'[f] = photo[f]
      BY <2>2, <3>1, <3>2 DEF DeleteProgress, PhotosOf
    <3>3. ASSUME NEW r \in Req, DeleteEvidence(r) PROVE photo'[f] = photo[f]
      <4>1. job[r].photo \in Photo /\ photo[job[r].photo].st # "new"
        BY <3>3 DEF DeleteEvidence, Doing, IInv, JobsMakeSense, MakesSense, Busy, PhotoOps
      <4> QED BY <2>2, <3>1, <3>3, <4>1 DEF DeleteEvidence
    <3>4. PICK r \in Req : AddEvidence(r)
      BY <1>3, <2>2, <3>2, <3>3, PhotoSteps
    <3>5. job[r].entry \in Entry /\ entry[job[r].entry].st # "new"
      BY <3>4 DEF AddEvidence, IInv, StoredPhotos, JobsMakeSense, MakesSense, Busy, EntryOps
    <3>6. photo'[f].entry = job[r].entry
      BY <1>3, <2>2, <3>1, <3>4 DEF AddEvidence
    <3> QED BY <1>0, <3>5, <3>6 DEF RowsStay
  <2> QED BY <2>1, <2>2
<1> QED BY <1>1, <1>2, <1>3 DEF RowsBelong

-----------------------------------------------------------------------------
(* The jobs, and the lock. *)

LEMMA NextJobsMakeSense ==
  ASSUME IInv, Next PROVE JobsMakeSense'
<1> SUFFICES ASSUME NEW r \in Req, Busy(r)' PROVE MakesSense(job[r])'
  BY DEF JobsMakeSense
<1>0. TypeOK /\ RowsBelong /\ RowsStay
  BY NextRowsStay DEF IInv
<1>1. CASE Read(r)
  <2>1. PICK j \in JobType : Begin(r, j) /\ MakesSense(j)
    BY <1>1, ReadBegins
  <2>2. job'[r] = [j EXCEPT !.seen = RowStatus(j.row)]
    BY <1>0, <2>1 DEF Begin, TypeOK
  <2>3. /\ job'[r].op = j.op /\ job'[r].row = j.row /\ job'[r].item = j.item
        /\ job'[r].entry = j.entry /\ job'[r].photo = j.photo
        /\ job'[r].worker = j.worker
    BY <2>2 DEF JobType
  <2>4. UNCHANGED <<entry, photo, quoteStatus, project>>
    BY <1>1, NoData DEF data
  <2> QED BY <2>1, <2>3, <2>4 DEF MakesSense, RowStatus
<1>2. CASE ~Read(r)
  <2>1. /\ Busy(r)
        /\ job'[r].op = job[r].op
        /\ job'[r].row = job[r].row
        /\ job'[r].item = job[r].item
        /\ job'[r].entry = job[r].entry
        /\ job'[r].worker = job[r].worker
        /\ job[r].op # "add_evidence" => job'[r].photo = job[r].photo
    BY <1>2, JobSteps
  <2>2. MakesSense(job[r])
    BY <2>1 DEF IInv, JobsMakeSense
  <2>3. RowStatus(job[r].row)' # "new"
    <3>1. job'[r].row \in Row /\ RowStatus(job[r].row) # "new"
      BY <2>1, <2>2 DEF MakesSense, Row
    <3>2. \A x \in Row : x = job'[r].row => RowStatus(x)' # "new"
      BY <1>0, <2>1, <3>1 DEF RowsStay
    <3> QED BY <3>1, <3>2 DEF RowStatus
  <2>4. job[r].op \in EntryOps =>
          /\ entry'[job[r].entry].st # "new"
          /\ entry'[job[r].entry].project = job[r].row
    BY <1>0, <2>2 DEF MakesSense, RowsStay
  <2>5. job[r].op \in PhotoOps =>
          /\ photo'[job[r].photo].st # "new"
          /\ entry'[photo'[job[r].photo].entry].project = job[r].row
    <3>1. job[r].op \in PhotoOps =>
            /\ job[r].photo \in Photo
            /\ photo[job[r].photo].st # "new"
            /\ photo[job[r].photo].entry \in Entry
            /\ entry[photo[job[r].photo].entry].st # "new"
            /\ entry[photo[job[r].photo].entry].project = job[r].row
      BY <1>0, <2>2 DEF MakesSense, RowsBelong
    <3> QED BY <1>0, <3>1 DEF RowsStay
  <2> QED BY <2>1, <2>2, <2>3, <2>4, <2>5 DEF MakesSense, PhotoOps
<1> QED BY <1>1, <1>2

\* The status of a row moves only in the step that creates it, or in the one of
\* the request that holds it, which ends there.
LEMMA StatusMoves ==
  ASSUME IInv, Next, NEW x \in Row, RowStatus(x)' # RowStatus(x), RowStatus(x) # "new"
  PROVE  \E r \in Req : pc[r] = "locked" /\ job[r].row = x /\ pc'[r] = "idle"
<1>0. TypeOK
  BY DEF IInv
<1>1. ~UNCHANGED <<quoteStatus, project>>
  BY DEF RowStatus
<1>2. ASSUME NEW q \in Quote, NEW lines \in [Line -> 0..MaxQty], CreateQuote(q, lines)
      PROVE FALSE
  BY <1>0, <1>2 DEF CreateQuote, RowStatus, TypeOK, Row
<1>3. ASSUME NEW r \in Req, DeleteQuote(r)
      PROVE  pc[r] = "locked" /\ job[r].row = x /\ pc'[r] = "idle"
  BY <1>0, <1>3 DEF DeleteQuote, Doing, Commit, RowStatus, TypeOK, Row
<1>4. ASSUME NEW r \in Req, NEW p \in Project, StartProject(r, p)
      PROVE  pc[r] = "locked" /\ job[r].row = x /\ pc'[r] = "idle"
  <2>1. pc[r] = "locked" /\ pc'[r] = "idle"
    BY <1>0, <1>4 DEF StartProject, Doing, Commit, TypeOK
  <2>2. CASE x \in Quote
    BY <1>0, <1>4, <2>2, <2>1 DEF StartProject, BecomesProject, RowStatus, TypeOK
  <2>3. CASE x \notin Quote
    BY <1>0, <1>4, <2>3 DEF StartProject, RowStatus, TypeOK, Row
  <2> QED BY <2>1, <2>2, <2>3
<1>5. ASSUME NEW r \in Req, NEW confirm \in BOOLEAN, FinalizeProject(r, confirm)
      PROVE  pc[r] = "locked" /\ job[r].row = x /\ pc'[r] = "idle"
  <2>1. pc[r] = "locked" /\ pc'[r] = "idle"
    BY <1>0, <1>5 DEF FinalizeProject, Doing, Commit, TypeOK
  <2>2. quoteStatus' = quoteStatus
    BY <1>5 DEF FinalizeProject
  <2>3. job[r].row # x => project'[x] = project[x] \/ x \in Quote
    BY <1>0, <1>5 DEF FinalizeProject, TypeOK, Row
  <2> QED BY <2>1, <2>2, <2>3 DEF RowStatus
<1> QED BY <1>1, <1>2, <1>3, <1>4, <1>5, StatusSteps

\* Who holds a row before a step and after it: who held it and does not end, or
\* who takes it, nobody having it.
LEMMA HolderSteps ==
  ASSUME IInv, Next, NEW r \in Req, pc'[r] \in {"locked", "stored"}
  PROVE  \/ LockRow(r)
         \/ /\ pc[r] \in {"locked", "stored"}
            /\ job'[r].row = job[r].row
            /\ job'[r].status = job[r].status
            /\ lock[job[r].row] = r => lock'[job[r].row] = r
<1> DEFINE Kept ==
      /\ pc[r] \in {"locked", "stored"}
      /\ job'[r].row = job[r].row
      /\ job'[r].status = job[r].status
      /\ lock[job[r].row] = r => lock'[job[r].row] = r
<1>0. TypeOK /\ job \in [Req -> JobType]
  BY DEF IInv, TypeOK
<1>1. ASSUME pc'[r] = pc[r], job'[r] = job[r], lock' = lock PROVE Kept
  BY <1>1
<1>2. ASSUME NEW r0 \in Req, Ends(r0) PROVE Kept
  <2>1. r0 # r
    BY <1>2 DEF Ends
  <2>2. pc'[r] = pc[r] /\ job'[r] = job[r]
    BY <1>2, <2>1 DEF Ends
  <2>3. job[r].row \in Row
    BY <2>2 DEF IInv, JobsMakeSense, MakesSense, Busy, Row
  <2> QED BY <1>2, <2>1, <2>2, <2>3 DEF Ends
<1>3. ASSUME NEW r0 \in Req, Read(r0) PROVE Kept
  <2>1. PICK j \in JobType : Begin(r0, j)
    BY <1>3, ReadBegins
  <2>2. r0 # r
    BY <1>0, <2>1 DEF Begin, TypeOK
  <2> QED BY <1>0, <2>1, <2>2 DEF Begin, TypeOK
<1>4. ASSUME NEW r0 \in Req, LockRow(r0), r0 # r PROVE Kept
  <2>1. pc'[r] = pc[r] /\ job'[r] = job[r]
    BY <1>0, <1>4 DEF LockRow, TypeOK
  <2>2. lock[job[r].row] = r => job[r0].row # job[r].row
    <3>1. lock[job[r0].row] = None /\ r # None
      BY <1>4, ConstantsAssumption, ItemsAssumption DEF LockRow, Free
    <3> QED BY <3>1
  <2>3. \A x \in Row : x # job[r0].row => lock'[x] = lock[x]
    BY <1>0, <1>4 DEF LockRow, TypeOK
  <2>4. job[r].row \in Row
    BY <2>1 DEF IInv, JobsMakeSense, MakesSense, Busy, Row
  <2> QED BY <2>1, <2>2, <2>3, <2>4
<1>5. ASSUME NEW r0 \in Req, NEW f \in Photo, StorePhoto(r0, f) PROVE Kept
  <2>1. pc[r] \in {"locked", "stored"} /\ lock' = lock
    BY <1>0, <1>5 DEF StorePhoto, Doing, TypeOK
  <2>2. job' = [job EXCEPT ![r0].photo = f]
    BY <1>5 DEF StorePhoto
  <2> QED BY <1>0, <2>1, <2>2 DEF JobType
<1>6. ASSUME UNCHANGED <<pc, job, lock>> PROVE Kept
  BY <1>1, <1>6
<1>7. CASE \E r0 \in Req : Write(r0) \/ Rollback(r0) \/ Die(r0) \/ DropFiles(r0)
  BY <1>0, <1>2, <1>5, <1>7, WriteEnds, OtherEnds
<1>8. CASE \E r0 \in Req : Read(r0) \/ LockRow(r0)
  BY <1>3, <1>4, <1>8
<1> QED BY <1>6, <1>7, <1>8 DEF Next, CreateQuote, DeleteAssignment, SetWorkerServices

LEMMA NextLocksAreHeld ==
  ASSUME IInv, Next PROVE LocksAreHeld'
<1> SUFFICES ASSUME NEW r \in Req, pc'[r] \in {"locked", "stored"}
             PROVE  /\ lock'[job'[r].row] = r
                    /\ job'[r].status = RowStatus(job[r].row)'
                    /\ job'[r].status # "gone"
  BY DEF LocksAreHeld
<1>0. TypeOK /\ LocksAreHeld /\ job \in [Req -> JobType]
  BY DEF IInv, TypeOK
<1>1. CASE LockRow(r)
  <2>1. job[r].row \in Row
    BY <1>1 DEF LockRow, IInv, JobsMakeSense, MakesSense, Busy, Row
  <2>2. job'[r].row = job[r].row /\ job'[r].status = RowStatus(job[r].row)
    BY <1>0, <1>1 DEF LockRow, JobType
  <2>3. UNCHANGED <<quoteStatus, project>>
    BY <1>1, NoData DEF data
  <2>4. lock'[job[r].row] = r
    BY <1>0, <1>1, <2>1 DEF LockRow, TypeOK
  <2> QED BY <1>1, <2>2, <2>3, <2>4 DEF LockRow, RowStatus
<1>2. CASE ~LockRow(r)
  <2>1. /\ pc[r] \in {"locked", "stored"}
        /\ job'[r].row = job[r].row
        /\ job'[r].status = job[r].status
        /\ lock[job[r].row] = r => lock'[job[r].row] = r
    BY <1>2, HolderSteps
  <2>2. /\ lock[job[r].row] = r
        /\ job[r].status = RowStatus(job[r].row)
        /\ job[r].status # "gone"
    BY <1>0, <2>1 DEF LocksAreHeld
  <2>3. job[r].row \in Row /\ RowStatus(job[r].row) # "new"
    BY <2>1 DEF IInv, JobsMakeSense, MakesSense, Busy, Row
  <2>4. ASSUME NEW r0 \in Req, pc[r0] = "locked", job[r0].row = job[r].row,
               pc'[r0] = "idle"
        PROVE FALSE
    <3>1. lock[job[r0].row] = r0
      BY <1>0, <2>4 DEF LocksAreHeld
    <3> QED BY <2>2, <2>4, <3>1
  <2>5. ASSUME NEW x \in Row, x = job[r].row PROVE RowStatus(x)' = RowStatus(x)
    BY <2>3, <2>4, <2>5, StatusMoves
  <2>6. \A x \in Row : x = job'[r].row => RowStatus(x)' = job'[r].status
    BY <2>1, <2>2, <2>5
  <2> QED BY <2>1, <2>2, <2>3, <2>6 DEF RowStatus
<1> QED BY <1>1, <1>2

(***************************************************************************)
(* 2. Projects, records, labour and evidence.                              *)
(***************************************************************************)

(* Photographs. *)

\* A step leaves a stored photo waiting, or has just stored it.
LEMMA StoreSteps ==
  ASSUME IInv, Next, NEW r \in Req, pc'[r] = "stored"
  PROVE  \/ pc[r] = "stored" /\ job'[r] = job[r]
         \/ \E f \in Photo : StorePhoto(r, f)
<1> DEFINE Kept == pc[r] = "stored" /\ job'[r] = job[r]
<1>0. TypeOK
  BY DEF IInv
<1>1. ASSUME NEW r0 \in Req, Ends(r0) PROVE Kept
  BY <1>1 DEF Ends
<1>2. ASSUME NEW r0 \in Req, Read(r0) PROVE Kept
  <2>1. PICK j \in JobType : Begin(r0, j)
    BY <1>2, ReadBegins
  <2> QED BY <1>0, <2>1 DEF Begin, TypeOK
<1>3. ASSUME NEW r0 \in Req, LockRow(r0) PROVE Kept
  BY <1>0, <1>3 DEF LockRow, TypeOK
<1>4. ASSUME NEW r0 \in Req, NEW f \in Photo, StorePhoto(r0, f), r0 # r PROVE Kept
  BY <1>0, <1>4 DEF StorePhoto, TypeOK
<1>5. CASE \E r0 \in Req : Write(r0) \/ Rollback(r0) \/ Die(r0) \/ DropFiles(r0)
  BY <1>0, <1>1, <1>4, <1>5, WriteEnds, OtherEnds
<1> QED BY <1>2, <1>3, <1>5 DEF Next, CreateQuote, DeleteAssignment, SetWorkerServices

\* The files a step deletes are of deleted photos.
LEMMA FileSteps ==
  ASSUME IInv, Next
  PROVE  \A f \in files : f \in files' \/ photo[f].st = "gone"
<1>1. ASSUME NEW r \in Req, DropFiles(r)
      PROVE  \A f \in files : f \in files' \/ photo[f].st = "gone"
  BY <1>1 DEF DropFiles, IInv, DroppedPhotos
<1>2. ASSUME NEW r \in Req, Write(r) PROVE files \subseteq files'
  BY <1>2 DEF Write, UpdateQuote, DeleteQuote, StartProject, FinalizeProject, StorePhoto,
              RegisterProgress, UpdateProgress, DeleteProgress, AddEvidence,
              DeleteEvidence, RegisterPayment, AssignService
<1>3. ASSUME NEW r \in Req, Read(r) \/ LockRow(r) \/ Rollback(r) \/ Die(r)
      PROVE  files' = files
  BY <1>3, NoData DEF data
<1> QED BY <1>1, <1>2, <1>3 DEF Next, CreateQuote, DeleteAssignment, SetWorkerServices

LEMMA NextStoredPhotos ==
  ASSUME IInv, Next PROVE StoredPhotos'
<1>0. TypeOK /\ StoredPhotos /\ photo \in [Photo -> [st : RowState, entry : Entry \cup {None}]]
      /\ job \in [Req -> JobType]
  BY DEF IInv, TypeOK
<1>1. ASSUME NEW r \in Req, pc[r] = "stored", pc'[r] = "stored", job'[r] = job[r]
      PROVE  /\ job'[r].photo \in files'
             /\ photo'[job'[r].photo].st = "new"
  <2>1. job[r].photo \in files /\ photo[job[r].photo].st = "new" /\ job[r].photo \in Photo
    BY <1>0, <1>1 DEF StoredPhotos, TypeOK
  <2>2. job[r].photo \in files'
    BY <2>1, FileSteps
  <2>3. ASSUME NEW r0 \in Req, DeleteProgress(r0) PROVE photo'[job[r].photo].st = "new"
    BY <1>0, <2>1, <2>3 DEF DeleteProgress, PhotosOf
  <2>4. ASSUME NEW r0 \in Req, AddEvidence(r0) PROVE photo'[job[r].photo].st = "new"
    <3>1. pc[r0] = "stored" /\ pc'[r0] = "idle"
      BY <1>0, <2>4 DEF AddEvidence, Commit, TypeOK
    <3>2. job[r0].photo # job[r].photo
      BY <1>0, <1>1, <3>1 DEF StoredPhotos
    <3> QED BY <1>0, <2>1, <2>4, <3>2 DEF AddEvidence
  <2>5. ASSUME NEW r0 \in Req, DeleteEvidence(r0) PROVE photo'[job[r].photo].st = "new"
    <3>1. photo[job[r0].photo].st # "new"
      BY <2>5 DEF DeleteEvidence, Doing, IInv, JobsMakeSense, MakesSense, Busy, PhotoOps
    <3> QED BY <1>0, <2>1, <2>5, <3>1 DEF DeleteEvidence
  <2> QED BY <1>1, <2>1, <2>2, <2>3, <2>4, <2>5, PhotoSteps
<1>2. ASSUME NEW r \in Req, NEW f \in Photo, StorePhoto(r, f)
      PROVE  /\ job'[r].op = "add_evidence" /\ job'[r].status \notin Terminal
             /\ job'[r].photo = f /\ f \in files' /\ f \notin files /\ photo'[f].st = "new"
             /\ \A r2 \in Req \ {r} : pc'[r2] = pc[r2] /\ job'[r2] = job[r2]
  BY <1>0, <1>2 DEF StorePhoto, Doing, Editable, TypeOK, JobType
<1>3. ASSUME NEW r \in Req, pc'[r] = "stored"
      PROVE  /\ job'[r].op = "add_evidence"
             /\ job'[r].status \notin Terminal
             /\ job'[r].photo \in files'
             /\ photo'[job'[r].photo].st = "new"
  BY <1>0, <1>1, <1>2, <1>3, StoreSteps DEF StoredPhotos
<1>4. ASSUME NEW r \in Req, NEW r2 \in Req \ {r}, pc'[r] = "stored", pc'[r2] = "stored"
      PROVE  job'[r2].photo # job'[r].photo
  <2>1. CASE pc[r] = "stored" /\ job'[r] = job[r] /\ pc[r2] = "stored" /\ job'[r2] = job[r2]
    BY <1>0, <2>1 DEF StoredPhotos
  <2>2. ASSUME NEW x \in Req, NEW y \in Req \ {x}, NEW f \in Photo, StorePhoto(x, f),
               pc'[y] = "stored"
        PROVE  job'[y].photo # job'[x].photo
    <3>1. pc[y] = "stored" /\ job'[y] = job[y]
      BY <1>2, <2>2
    <3>2. job[y].photo \in files
      BY <1>0, <3>1 DEF StoredPhotos
    <3> QED BY <1>2, <2>2, <3>1, <3>2
  <2> QED BY <1>4, <2>1, <2>2, StoreSteps
<1> QED BY <1>3, <1>4 DEF StoredPhotos

\* A file left to delete is of a photo deleted in that very step, or before.
LEMMA DropSteps ==
  ASSUME IInv, Next, NEW r \in Req, NEW f \in drop'[r]
  PROVE  photo'[f].st = "gone" \/ f \in drop[r]
<1>0. TypeOK /\ photo \in [Photo -> [st : RowState, entry : Entry \cup {None}]]
  BY DEF IInv, TypeOK
<1>1. ASSUME NEW r0 \in Req, Ends(r0), r0 # r PROVE f \in drop[r]
  BY <1>1 DEF Ends
<1>2. ASSUME DeleteProgress(r) PROVE photo'[f].st = "gone"
  <2>1. f \in PhotosOf(job[r].entry)
    BY <1>0, <1>2, CommitEnds DEF DeleteProgress
  <2> QED BY <1>0, <1>2, <2>1 DEF DeleteProgress, PhotosOf
<1>3. ASSUME DeleteEvidence(r) PROVE photo'[f].st = "gone"
  <2>1. f = job[r].photo
    BY <1>0, <1>3, CommitEnds DEF DeleteEvidence
  <2>2. f \in Photo
    BY <1>3, <2>1 DEF DeleteEvidence, Doing, IInv, JobsMakeSense, MakesSense, Busy, PhotoOps
  <2> QED BY <1>0, <1>3, <2>1, <2>2 DEF DeleteEvidence
<1>4. ASSUME Write(r), ~DeleteProgress(r), ~DeleteEvidence(r) PROVE f \in drop[r]
  <2>1. \A d : Commit(r, d) => drop'[r] = d
    BY <1>0, CommitEnds
  <2>2. Commit(r, {}) \/ \E x \in Photo : StorePhoto(r, x)
    BY <1>4 DEF Write, UpdateQuote, StartProject, FinalizeProject, RegisterProgress,
                UpdateProgress, AddEvidence, RegisterPayment, AssignService, DeleteQuote
  <2> QED BY <2>1, <2>2 DEF StorePhoto
<1>5. ASSUME Rollback(r) \/ Die(r) \/ DropFiles(r) PROVE f \in drop[r]
  BY <1>0, <1>5 DEF Rollback, Die, DropFiles, TypeOK
<1>6. ASSUME NEW r0 \in Req, Read(r0) \/ LockRow(r0) \/ \E x \in Photo : StorePhoto(r0, x)
      PROVE  f \in drop[r]
  <2>1. ASSUME Read(r0) PROVE drop' = drop
    <3>1. PICK j \in JobType : Begin(r0, j)
      BY <2>1, ReadBegins
    <3> QED BY <3>1 DEF Begin
  <2> QED BY <1>6, <2>1 DEF LockRow, StorePhoto
<1>7. CASE \E r0 \in Req : Write(r0) \/ Rollback(r0) \/ Die(r0) \/ DropFiles(r0)
  BY <1>0, <1>1, <1>2, <1>3, <1>4, <1>5, <1>6, <1>7, WriteEnds, OtherEnds
<1> QED BY <1>6, <1>7 DEF Next, CreateQuote, DeleteAssignment, SetWorkerServices

\* A deleted entry or photo stays deleted.
LEMMA NextGone ==
  ASSUME IInv, Next
  PROVE  /\ \A e \in Entry : entry[e].st = "gone" => entry'[e].st = "gone"
         /\ \A f \in Photo : photo[f].st = "gone" => photo'[f].st = "gone"
<1>0. entry \in [Entry -> EntryType]
      /\ photo \in [Photo -> [st : RowState, entry : Entry \cup {None}]]
  BY DEF IInv, TypeOK
<1>1. ASSUME NEW e \in Entry, entry[e].st = "gone" PROVE entry'[e].st = "gone"
  <2>1. ASSUME NEW r \in Req, NEW x \in Entry, NEW n \in 0..MaxQty, RegisterProgress(r, x, n)
        PROVE  entry'[e].st = "gone"
    BY <1>0, <1>1, <2>1 DEF RegisterProgress
  <2>2. ASSUME NEW r \in Req, NEW n \in 0..MaxQty, NEW w \in Worker \cup {None},
               UpdateProgress(r, n, w)
        PROVE  entry'[e].st = "gone"
    <3>1. PICK x, n2, w2, p2 :
            /\ entry[x].st = "live"
            /\ entry' = [entry EXCEPT ![x].n = n2, ![x].worker = w2, ![x].price = p2]
      BY <2>2 DEF UpdateProgress, Save
    <3> QED BY <1>0, <1>1, <3>1
  <2>3. ASSUME NEW r \in Req, DeleteProgress(r) PROVE entry'[e].st = "gone"
    <3>1. entry' = [entry EXCEPT ![job[r].entry].st = "gone"]
      BY <2>3 DEF DeleteProgress
    <3> QED BY <1>0, <1>1, <3>1 DEF EntryType
  <2> QED BY <1>1, <2>1, <2>2, <2>3, EntrySteps
<1>2. ASSUME NEW f \in Photo, photo[f].st = "gone" PROVE photo'[f].st = "gone"
  <2>1. ASSUME NEW r \in Req, AddEvidence(r) PROVE photo'[f].st = "gone"
    <3>1. photo[job[r].photo].st = "new"
      BY <2>1 DEF AddEvidence, IInv, StoredPhotos
    <3> QED BY <1>0, <1>2, <2>1, <3>1 DEF AddEvidence
  <2>2. ASSUME NEW r \in Req, DeleteProgress(r) \/ DeleteEvidence(r)
        PROVE  photo'[f].st = "gone"
    BY <1>0, <1>2, <2>2 DEF DeleteProgress, DeleteEvidence, PhotosOf
  <2> QED BY <1>2, <2>1, <2>2, PhotoSteps
<1> QED BY <1>1, <1>2

LEMMA NextDroppedPhotos ==
  ASSUME IInv, Next PROVE DroppedPhotos'
<1> SUFFICES ASSUME NEW r \in Req, NEW f \in drop'[r] PROVE photo'[f].st = "gone"
  BY DEF DroppedPhotos
<1>1. CASE f \in drop[r]
  <2>1. photo[f].st = "gone" /\ f \in Photo
    BY <1>1 DEF IInv, DroppedPhotos, TypeOK
  <2> QED BY <2>1, NextGone
<1>2. CASE f \notin drop[r]
  BY <1>2, DropSteps
<1> QED BY <1>1, <1>2

-----------------------------------------------------------------------------
(* Quotes and their projects. *)

\* A request that passed the check holds a quote that is a draft, or a project
\* that is under way.
LEMMA EditableRow ==
  ASSUME IInv, NEW r \in Req, pc[r] \in {"locked", "stored"}, Editable(r)
  PROVE  /\ job[r].op \in QuoteOps => quoteStatus[job[r].row] = "draft"
         /\ job[r].op \notin QuoteOps => project[job[r].row].status = "in_progress"
<1>1. /\ job[r].op \in QuoteOps => job[r].row \in Quote
      /\ job[r].op \notin QuoteOps => job[r].row \in Project
      /\ RowStatus(job[r].row) # "new"
  BY DEF IInv, JobsMakeSense, MakesSense, Busy
<1>2. job[r].status = RowStatus(job[r].row) /\ job[r].status # "gone"
  BY DEF IInv, LocksAreHeld
<1>3. /\ \A q \in Quote : quoteStatus[q] \in QuoteStatus
      /\ \A p \in Project : project[p].status \in ProjectStatus
  BY DEF IInv, TypeOK
<1>4. /\ job[r].row \in Quote => RowStatus(job[r].row) = quoteStatus[job[r].row]
      /\ job[r].row \in Project => RowStatus(job[r].row) = project[job[r].row].status
  BY RowStatusType DEF IInv, Row
<1> QED BY <1>1, <1>2, <1>3, <1>4 DEF Editable, Terminal, QuoteStatus, ProjectStatus

LEMMA NextOneProject ==
  ASSUME IInv, Next PROVE OneProject'
<1>0. /\ OneProject
      /\ quoteStatus \in [Quote -> QuoteStatus]
      /\ project \in [Project -> [status : ProjectStatus, quote : Quote \cup {None},
                                  waived : BOOLEAN]]
  BY DEF IInv, TypeOK
<1>1. ASSUME UNCHANGED <<quoteStatus, project>> PROVE OneProject'
  BY <1>0, <1>1 DEF OneProject, ProjectsOf
<1>2. ASSUME NEW q \in Quote, NEW lines \in [Line -> 0..MaxQty], CreateQuote(q, lines)
      PROVE OneProject'
  BY <1>0, <1>2 DEF CreateQuote, OneProject, ProjectsOf
<1>3. ASSUME NEW r \in Req, DeleteQuote(r) PROVE OneProject'
  BY <1>0, <1>3 DEF DeleteQuote, OneProject, ProjectsOf
<1>4. ASSUME NEW r \in Req, NEW p \in Project, StartProject(r, p) PROVE OneProject'
  <2>1. PICK q \in Quote : q = job[r].row
    BY <1>4 DEF StartProject, Doing, IInv, JobsMakeSense, MakesSense, Busy, QuoteOps
  <2>2. /\ ProjectsOf(q) = {}
        /\ project[p].status = "new"
        /\ project' = [project EXCEPT ![p].status = "in_progress", ![p].quote = q]
        /\ quoteStatus' = [quoteStatus EXCEPT ![q] = "in_project"]
    BY <1>4, <2>1 DEF StartProject, BecomesProject
  <2>3. project'[p].status = "in_progress" /\ project'[p].quote = q
    BY <1>0, <2>2
  <2>4. \A p2 \in Project : p2 # p => project'[p2] = project[p2]
    BY <1>0, <2>2
  <2>5. ProjectsOf(q)' = {p}
    <3>1. \A x \in Project : ~(project[x].status # "new" /\ project[x].quote = q)
      BY <2>2 DEF ProjectsOf
    <3>2. \A x \in Project : (project'[x].status # "new" /\ project'[x].quote = q) <=> x = p
      BY <2>3, <2>4, <3>1
    <3> QED BY <3>2 DEF ProjectsOf
  <2>6. \A q2 \in Quote : q2 # q => ProjectsOf(q2)' = ProjectsOf(q2)
    BY <2>2, <2>3, <2>4 DEF ProjectsOf
  <2>7. \A q2 \in Quote : (quoteStatus'[q2] = "in_project") <=> (ProjectsOf(q2)' # {})
    BY <1>0, <2>2, <2>5, <2>6 DEF OneProject
  <2>8. ASSUME NEW q2 \in Quote, NEW p1 \in ProjectsOf(q2)', NEW p2 \in ProjectsOf(q2)'
        PROVE  p1 = p2
    BY <1>0, <2>5, <2>6 DEF OneProject
  <2> QED BY <2>7, <2>8 DEF OneProject
<1>5. ASSUME NEW r \in Req, NEW confirm \in BOOLEAN, FinalizeProject(r, confirm)
      PROVE OneProject'
  <2>1. quoteStatus' = quoteStatus
    BY <1>5 DEF FinalizeProject
  <2>2. job[r].row \in Project /\ project[job[r].row].status # "new"
    <3>1. job[r].op \notin QuoteOps /\ pc[r] = "locked" /\ Editable(r)
      BY <1>5 DEF FinalizeProject, Doing, QuoteOps
    <3> QED BY <3>1, EditableRow DEF IInv, JobsMakeSense, MakesSense, Busy
  <2>3. project' = [project EXCEPT ![job[r].row].status = "finished",
                                   ![job[r].row].waived = (counted[r] > 0)]
    BY <1>5 DEF FinalizeProject
  <2>4. \A p \in Project : /\ (project'[p].status # "new") <=> (project[p].status # "new")
                           /\ project'[p].quote = project[p].quote
    BY <1>0, <2>2, <2>3
  <2>5. \A q \in Quote : ProjectsOf(q)' = ProjectsOf(q)
    BY <2>4 DEF ProjectsOf
  <2> QED BY <1>0, <2>1, <2>5 DEF OneProject
<1> QED BY <1>1, <1>2, <1>3, <1>4, <1>5, StatusSteps

\* A quote that became a project keeps its status and its lines.
LEMMA NextQuoteFrozen ==
  ASSUME IInv, Next, NEW q \in Quote, quoteStatus[q] = "in_project"
  PROVE  /\ quoteStatus'[q] = "in_project"
         /\ \A l \in Line : qty'[<<q, l>>] = qty[<<q, l>>]
<1>0. /\ quoteStatus \in [Quote -> QuoteStatus]
      /\ qty \in [Item -> 0..MaxQty]
  BY DEF IInv, TypeOK
<1>1. ASSUME NEW r \in Req, pc[r] = "locked", job[r].op \in QuoteOps, Editable(r)
      PROVE  job[r].row # q
  BY <1>1, EditableRow
<1>2. quoteStatus'[q] = "in_project"
  <2>1. ASSUME NEW r \in Req, DeleteQuote(r) PROVE quoteStatus'[q] = quoteStatus[q]
    BY <1>0, <1>1, <2>1 DEF DeleteQuote, Doing, QuoteOps
  <2>2. ASSUME NEW r \in Req, NEW p \in Project, StartProject(r, p)
        PROVE  quoteStatus'[q] = "in_project"
    BY <1>0, <1>1, <2>2 DEF StartProject, BecomesProject, Doing, QuoteOps
  <2>3. ASSUME NEW x \in Quote, NEW lines \in [Line -> 0..MaxQty], CreateQuote(x, lines)
        PROVE  quoteStatus'[q] = quoteStatus[q]
    BY <1>0, <2>3 DEF CreateQuote
  <2> QED BY <2>1, <2>2, <2>3, StatusSteps DEF FinalizeProject
<1>3. ASSUME NEW l \in Line PROVE qty'[<<q, l>>] = qty[<<q, l>>]
  <2>0. <<q, l>> \in Item
    BY DEF Item
  <2>1. ASSUME NEW r \in Req, NEW lines \in [Line -> 0..MaxQty], UpdateQuote(r, lines)
        PROVE  qty'[<<q, l>>] = qty[<<q, l>>]
    BY <1>0, <1>1, <2>0, <2>1 DEF UpdateQuote, Doing, QuoteOps
  <2>2. ASSUME NEW r \in Req, DeleteQuote(r) PROVE qty'[<<q, l>>] = qty[<<q, l>>]
    BY <1>0, <1>1, <2>0, <2>2 DEF DeleteQuote, Doing, QuoteOps
  <2>3. ASSUME NEW x \in Quote, NEW lines \in [Line -> 0..MaxQty], CreateQuote(x, lines)
        PROVE  qty'[<<q, l>>] = qty[<<q, l>>]
    BY <1>0, <2>0, <2>3 DEF CreateQuote
  <2>4. ASSUME NEW r \in Req, Write(r),
               ~(\E lines \in [Line -> 0..MaxQty] : UpdateQuote(r, lines)), ~DeleteQuote(r)
        PROVE  qty' = qty
    BY <2>4 DEF Write, StartProject, FinalizeProject, RegisterProgress, UpdateProgress,
                DeleteProgress, StorePhoto, AddEvidence, DeleteEvidence, RegisterPayment,
                AssignService
  <2>5. ASSUME NEW r \in Req, Read(r) \/ LockRow(r) \/ Rollback(r) \/ Die(r) \/ DropFiles(r)
        PROVE  qty' = qty
    BY <2>5, NoData DEF data, DropFiles
  <2> QED BY <2>1, <2>2, <2>3, <2>4, <2>5 DEF Next, DeleteAssignment, SetWorkerServices
<1> QED BY <1>2, <1>3

-----------------------------------------------------------------------------
(* What is recorded and handed out. *)

\* The only steps that change the hand-outs.
LEMMA ShareSteps ==
  ASSUME Next
  PROVE  \/ UNCHANGED share
         \/ \E r \in Req, n \in 0..MaxQty, price \in Price \cup {None} :
              AssignService(r, n, price)
         \/ \E i \in Item, w \in Worker : DeleteAssignment(i, w)
<1>1. ASSUME NEW r \in Req, Write(r)
      PROVE  \/ UNCHANGED share
             \/ \E n \in 0..MaxQty, price \in Price \cup {None} : AssignService(r, n, price)
  BY <1>1 DEF Write, UpdateQuote, DeleteQuote, StartProject, FinalizeProject,
              RegisterProgress, UpdateProgress, DeleteProgress, StorePhoto, AddEvidence,
              DeleteEvidence, RegisterPayment
<1>2. ASSUME NEW r \in Req, Read(r) \/ LockRow(r) \/ Rollback(r) \/ Die(r) \/ DropFiles(r)
      PROVE  UNCHANGED share
  BY <1>2, NoData DEF data, DropFiles
<1> QED BY <1>1, <1>2 DEF Next, CreateQuote, SetWorkerServices

\* A live entry was recorded in this step, corrected in it, or is as it was.
LEMMA LiveSteps ==
  ASSUME IInv, Next, NEW e \in Entry, entry'[e].st = "live"
  PROVE  \/ entry'[e] = entry[e]
         \/ \E r \in Req, n \in 0..MaxQty : RegisterProgress(r, e, n)
         \/ \E r \in Req, n \in 0..MaxQty, w \in Worker \cup {None} :
              UpdateProgress(r, n, w) /\ e = job[r].entry
<1>0. entry \in [Entry -> EntryType]
  BY DEF IInv, TypeOK
<1>1. ASSUME NEW r \in Req, NEW x \in Entry, NEW n \in 0..MaxQty, RegisterProgress(r, x, n)
      PROVE  x = e \/ entry'[e] = entry[e]
  BY <1>0, <1>1 DEF RegisterProgress
<1>2. ASSUME NEW r \in Req, NEW n \in 0..MaxQty, NEW w \in Worker \cup {None},
             UpdateProgress(r, n, w)
      PROVE  e = job[r].entry \/ entry'[e] = entry[e]
  BY <1>0, <1>2 DEF UpdateProgress, Save
<1>3. ASSUME NEW r \in Req, DeleteProgress(r) PROVE entry'[e] = entry[e]
  <2>1. entry' = [entry EXCEPT ![job[r].entry].st = "gone"]
    BY <1>3 DEF DeleteProgress
  <2> QED BY <1>0, <2>1 DEF EntryType
<1> QED BY <1>1, <1>2, <1>3, EntrySteps

LEMMA CorrectedFields ==
  ASSUME IInv, NEW r \in Req, NEW n \in 0..MaxQty, NEW w \in Worker \cup {None},
         UpdateProgress(r, n, w), NEW e \in Entry, e = job[r].entry
  PROVE  /\ entry[e].st = "live"
         /\ entry'[e].n = CorrectedQty(r, n)
         /\ entry'[e].worker = CorrectedLabor(r, w).worker
         /\ entry'[e].price = CorrectedLabor(r, w).price
<1>1. entry \in [Entry -> EntryType]
  BY DEF IInv, TypeOK
<1>2. \A n2, w2, p2 :
        entry' = [entry EXCEPT ![e].n = n2, ![e].worker = w2, ![e].price = p2]
        => entry'[e].n = n2 /\ entry'[e].worker = w2 /\ entry'[e].price = p2
  BY <1>1 DEF EntryType
<1>3. /\ entry[e].st = "live"
      /\ entry' = [entry EXCEPT ![e].n = CorrectedQty(r, n),
                                ![e].worker = CorrectedLabor(r, w).worker,
                                ![e].price = CorrectedLabor(r, w).price]
  BY DEF UpdateProgress, Save
<1> QED BY <1>2, <1>3

LEMMA NextLedgerHangsTogether ==
  ASSUME IInv, Next PROVE LedgerHangsTogether'
<1>0. /\ RowsStay /\ RowsBelong /\ LedgerHangsTogether /\ RowsBelong'
      /\ entry \in [Entry -> EntryType]
      /\ share \in [Item -> [Worker -> [n : 0..MaxQty, price : Price \cup {None}]]]
  BY NextRowsStay, NextRowsBelong DEF IInv, TypeOK
<1>1. ASSUME NEW e \in Entry, entry'[e].st = "live"
      PROVE  /\ project'[entry'[e].project].status # "new"
             /\ entry'[e].item[1] = project'[entry'[e].project].quote
             /\ entry'[e].n > 0
  <2>1. project'[entry'[e].project].status # "new"
    BY <1>0, <1>1 DEF RowsBelong
  <2>2. ASSUME entry[e].st = "live"
        PROVE  entry'[e].item[1] = project'[entry'[e].project].quote
    <3>1. /\ entry[e].project \in Project
          /\ project[entry[e].project].status # "new"
          /\ entry[e].item[1] = project[entry[e].project].quote
      BY <1>0, <2>2 DEF LedgerHangsTogether, LiveEntries, RowsBelong
    <3> QED BY <1>0, <2>2, <3>1 DEF RowsStay
  <2>3. CASE entry'[e] = entry[e]
    BY <1>0, <1>1, <2>1, <2>2, <2>3 DEF LedgerHangsTogether, LiveEntries
  <2>4. ASSUME NEW r \in Req, NEW n \in 0..MaxQty, RegisterProgress(r, e, n)
        PROVE  entry'[e].item[1] = project'[entry'[e].project].quote /\ entry'[e].n > 0
    <3>1. /\ entry'[e].item = job[r].item /\ entry'[e].project = job[r].row
          /\ entry'[e].n = n /\ n > 0
          /\ job[r].item[1] = project[job[r].row].quote
          /\ project' = project
      BY <1>0, <2>4 DEF RegisterProgress, OfTheProject
    <3> QED BY <3>1
  <2>5. ASSUME NEW r \in Req, NEW n \in 0..MaxQty, NEW w \in Worker \cup {None},
               UpdateProgress(r, n, w), e = job[r].entry
        PROVE  entry[e].st = "live" /\ entry'[e].n > 0
    BY <1>0, <2>5, CorrectedFields DEF CorrectedQty, LedgerHangsTogether, LiveEntries
  <2> QED BY <1>1, <2>1, <2>2, <2>3, <2>4, <2>5, LiveSteps
<1>2. ASSUME NEW i \in Item, NEW w \in Worker, share'[i][w].n > 0
      PROVE  ProjectsOf(i[1])' # {}
  <2>1. CASE share'[i][w] = share[i][w]
    <3>1. PICK p \in Project : project[p].status # "new" /\ project[p].quote = i[1]
      BY <1>0, <1>2, <2>1 DEF LedgerHangsTogether, ProjectsOf
    <3>2. project'[p].status # "new" /\ project'[p].quote = i[1]
      BY <1>0, <3>1 DEF RowsStay
    <3> QED BY <3>2 DEF ProjectsOf
  <2>2. ASSUME NEW r \in Req, NEW n \in 0..MaxQty, NEW price \in Price \cup {None},
               AssignService(r, n, price), share'[i][w] # share[i][w]
        PROVE  ProjectsOf(i[1])' # {}
    <3>1. /\ job[r].row \in Project
          /\ project[job[r].row].status # "new"
      <4>1. job[r].row \in Project /\ RowStatus(job[r].row) # "new"
        BY <2>2 DEF AssignService, Doing, IInv, JobsMakeSense, MakesSense, Busy, QuoteOps
      <4> QED BY <4>1, RowStatusType DEF IInv, Row
    <3>2. job[r].item = i
      BY <1>0, <2>2 DEF AssignService
    <3>3. project[job[r].row].quote = i[1]
      BY <2>2, <3>2 DEF AssignService, OfTheProject
    <3>4. project' = project
      BY <2>2 DEF AssignService
    <3> QED BY <3>1, <3>3, <3>4 DEF ProjectsOf
  <2>3. ASSUME NEW j \in Item, NEW v \in Worker, DeleteAssignment(j, v)
        PROVE  share'[i][w] = share[i][w]
    <3>1. CASE j = i /\ v = w
      BY <1>0, <1>2, <2>3, <3>1 DEF DeleteAssignment, NoShare
    <3>2. CASE ~(j = i /\ v = w)
      BY <1>0, <2>3, <3>2 DEF DeleteAssignment
    <3> QED BY <3>1, <3>2
  <2> QED BY <1>2, <2>1, <2>2, <2>3, ShareSteps
<1> QED BY <1>1, <1>2 DEF LedgerHangsTogether, LiveEntries

LEMMA NextLaborIsPriced ==
  ASSUME IInv, Next PROVE LaborIsPriced'
<1> SUFFICES ASSUME NEW e \in Entry, entry'[e].st = "live"
             PROVE  (entry'[e].worker = None) <=> (entry'[e].price = None)
  BY DEF LaborIsPriced, LiveEntries
<1>0. LaborIsPriced /\ entry \in [Entry -> EntryType]
  BY DEF IInv, TypeOK
<1>1. CASE entry'[e] = entry[e]
  BY <1>0, <1>1 DEF LaborIsPriced, LiveEntries
<1>2. ASSUME NEW r \in Req, NEW n \in 0..MaxQty, RegisterProgress(r, e, n)
      PROVE  (entry'[e].worker = None) <=> (entry'[e].price = None)
  BY <1>0, <1>2 DEF RegisterProgress
<1>3. ASSUME NEW r \in Req, NEW n \in 0..MaxQty, NEW w \in Worker \cup {None},
             UpdateProgress(r, n, w), e = job[r].entry
      PROVE  (entry'[e].worker = None) <=> (entry'[e].price = None)
  <2> DEFINE labor == CorrectedLabor(r, w)
  <2>1. /\ entry[e].st = "live"
        /\ entry'[e].worker = labor.worker /\ entry'[e].price = labor.price
        /\ labor.worker # None => labor.price # None
    BY <1>3, CorrectedFields DEF UpdateProgress
  <2>2. labor.worker = None => labor.price = None
    BY <1>0, <1>3, <2>1 DEF CorrectedLabor, LaborIsPriced, LiveEntries
  <2> QED BY <2>1, <2>2
<1> QED BY <1>1, <1>2, <1>3, LiveSteps

-----------------------------------------------------------------------------
(* Evidence, and a finished project. *)

\* Every photo a step changes is one of the entry its request deletes, or the one
\* it adds or deletes.
LEMMA PhotoMoves ==
  ASSUME IInv, Next, NEW f \in Photo, photo'[f] # photo[f]
  PROVE  \/ \E r \in Req : /\ AddEvidence(r) /\ f = job[r].photo
                           /\ photo'[f] = [st |-> "live", entry |-> job[r].entry]
         \/ /\ photo'[f].st = "gone" /\ photo'[f].entry = photo[f].entry
            /\ \E r \in Req : \/ DeleteProgress(r) /\ f \in PhotosOf(job[r].entry)
                              \/ DeleteEvidence(r) /\ f = job[r].photo
<1>0. photo \in [Photo -> [st : RowState, entry : Entry \cup {None}]]
  BY DEF IInv, TypeOK
<1>1. ASSUME NEW r \in Req, DeleteProgress(r)
      PROVE  /\ f \in PhotosOf(job[r].entry)
             /\ photo'[f].st = "gone" /\ photo'[f].entry = photo[f].entry
  BY <1>0, <1>1 DEF DeleteProgress
<1>2. ASSUME NEW r \in Req, AddEvidence(r)
      PROVE  f = job[r].photo /\ photo'[f] = [st |-> "live", entry |-> job[r].entry]
  BY <1>0, <1>2 DEF AddEvidence
<1>3. ASSUME NEW r \in Req, DeleteEvidence(r)
      PROVE  /\ f = job[r].photo
             /\ photo'[f].st = "gone" /\ photo'[f].entry = photo[f].entry
  BY <1>0, <1>3 DEF DeleteEvidence
<1> QED BY <1>1, <1>2, <1>3, PhotoSteps

LEMMA NextEvidenceIsStored ==
  ASSUME IInv, Next PROVE EvidenceIsStored'
<1> SUFFICES ASSUME NEW f \in Photo, photo'[f].st = "live"
             PROVE  f \in files' /\ entry'[photo'[f].entry].st = "live"
  BY DEF EvidenceIsStored
<1>0. /\ EvidenceIsStored /\ RowsStay
      /\ entry \in [Entry -> EntryType]
      /\ photo \in [Photo -> [st : RowState, entry : Entry \cup {None}]]
  BY NextRowsStay DEF IInv, TypeOK
<1>1. CASE photo'[f] = photo[f]
  <2>1. f \in files /\ entry[photo[f].entry].st = "live" /\ photo[f].st = "live"
    BY <1>0, <1>1 DEF EvidenceIsStored
  <2>2. photo[f].entry \in Entry
    BY <2>1 DEF IInv, RowsBelong
  <2>3. f \in files'
    BY <2>1, FileSteps
  <2>4. entry'[photo[f].entry].st = "live"
    <3>1. ASSUME NEW r \in Req, DeleteProgress(r) PROVE photo[f].entry # job[r].entry
      BY <1>0, <1>1, <2>1, <3>1 DEF DeleteProgress, PhotosOf
    <3>2. ASSUME NEW r \in Req, DeleteProgress(r) PROVE entry'[photo[f].entry].st = "live"
      <4>1. entry' = [entry EXCEPT ![job[r].entry].st = "gone"]
        BY <3>2 DEF DeleteProgress
      <4> QED BY <1>0, <2>1, <2>2, <3>1, <3>2, <4>1
    <3>3. ASSUME NEW r \in Req, NEW e \in Entry, NEW n \in 0..MaxQty,
                 RegisterProgress(r, e, n)
          PROVE  entry'[photo[f].entry].st = "live"
      BY <1>0, <2>1, <2>2, <3>3 DEF RegisterProgress
    <3>4. ASSUME NEW r \in Req, NEW n \in 0..MaxQty, NEW w \in Worker \cup {None},
                 UpdateProgress(r, n, w)
          PROVE  entry'[photo[f].entry].st = "live"
      <4>1. PICK x, n2, w2, p2 :
              entry' = [entry EXCEPT ![x].n = n2, ![x].worker = w2, ![x].price = p2]
        BY <3>4 DEF UpdateProgress, Save
      <4> QED BY <1>0, <2>1, <2>2, <4>1 DEF EntryType
    <3> QED BY <2>1, <3>2, <3>3, <3>4, EntrySteps
  <2> QED BY <1>1, <2>3, <2>4
<1>2. CASE photo'[f] # photo[f]
  <2>1. PICK r \in Req : /\ AddEvidence(r) /\ f = job[r].photo
                         /\ photo'[f] = [st |-> "live", entry |-> job[r].entry]
    BY <1>2, PhotoMoves
  <2>2. job[r].photo \in files
    BY <2>1 DEF AddEvidence, IInv, StoredPhotos
  <2>3. entry[job[r].entry].st = "live" /\ entry' = entry /\ files' = files
    BY <2>1 DEF AddEvidence
  <2> QED BY <2>1, <2>2, <2>3
<1> QED BY <1>1, <1>2

\* A request that writes an entry or a photo does it on a project under way.
LEMMA WritersProject ==
  ASSUME IInv, NEW r \in Req, pc[r] \in {"locked", "stored"}, Editable(r),
         job[r].op \notin QuoteOps
  PROVE  job[r].row \in Project /\ project[job[r].row].status = "in_progress"
  BY EditableRow DEF IInv, JobsMakeSense, MakesSense, Busy

LEMMA EntryMoves ==
  ASSUME IInv, Next, NEW e \in Entry, entry'[e] # entry[e]
  PROVE  /\ project[entry'[e].project].status = "in_progress"
         /\ entry[e].st = "live" => entry[e].project = entry'[e].project
<1>0. entry \in [Entry -> EntryType]
  BY DEF IInv, TypeOK
<1>1. ASSUME NEW r \in Req, NEW x \in Entry, NEW n \in 0..MaxQty, RegisterProgress(r, x, n)
      PROVE  project[entry'[e].project].status = "in_progress"
  <2>1. project[job[r].row].status = "in_progress"
    BY <1>1, WritersProject DEF RegisterProgress, Doing, QuoteOps
  <2> QED BY <1>0, <1>1, <2>1 DEF RegisterProgress
<1>2. ASSUME NEW r \in Req, Doing(r, job[r].op), Editable(r), job[r].op \in EntryOps,
             e = job[r].entry
      PROVE  entry[e].st # "new" /\ project[entry[e].project].status = "in_progress"
  <2>1. project[job[r].row].status = "in_progress"
    BY <1>2, WritersProject DEF Doing, QuoteOps, EntryOps
  <2> QED BY <1>2, <2>1 DEF Doing, IInv, JobsMakeSense, MakesSense, Busy
<1>3. ASSUME NEW r \in Req, NEW n \in 0..MaxQty, NEW w \in Worker \cup {None},
             UpdateProgress(r, n, w)
      PROVE  entry[e].st # "new" /\ project[entry[e].project].status = "in_progress"
  <2>1. e = job[r].entry
    BY <1>0, <1>3 DEF UpdateProgress, Save
  <2> QED BY <1>2, <1>3, <2>1 DEF UpdateProgress, Doing, EntryOps
<1>4. ASSUME NEW r \in Req, DeleteProgress(r)
      PROVE  entry[e].st # "new" /\ project[entry[e].project].status = "in_progress"
  <2>1. entry' = [entry EXCEPT ![job[r].entry].st = "gone"]
    BY <1>4 DEF DeleteProgress
  <2>2. e = job[r].entry
    BY <1>0, <2>1 DEF EntryType
  <2> QED BY <1>2, <1>4, <2>2 DEF DeleteProgress, Doing, EntryOps
<1>5. entry[e].st # "new" => entry'[e].project = entry[e].project
  BY EntriesStay
<1>6. ASSUME NEW r \in Req, NEW x \in Entry, NEW n \in 0..MaxQty, RegisterProgress(r, x, n)
      PROVE  entry[e].st = "new"
  BY <1>0, <1>6 DEF RegisterProgress
<1> QED BY <1>1, <1>3, <1>4, <1>5, <1>6, EntrySteps

\* The photo a step changes is not of a finished project, before or after.
LEMMA PhotoProject ==
  ASSUME IInv, Next, NEW f \in Photo, photo'[f] # photo[f]
  PROVE  /\ photo[f].st = "live" =>
              project[entry[photo[f].entry].project].status = "in_progress"
         /\ photo'[f].st = "live" =>
              /\ entry' = entry
              /\ project[entry[photo'[f].entry].project].status = "in_progress"
<1>1. ASSUME NEW r \in Req, AddEvidence(r), f = job[r].photo,
             photo'[f] = [st |-> "live", entry |-> job[r].entry]
      PROVE  /\ photo[f].st = "new"
             /\ entry' = entry
             /\ project[entry[photo'[f].entry].project].status = "in_progress"
  <2>1. /\ pc[r] = "stored" /\ job[r].op = "add_evidence" /\ Editable(r)
        /\ photo[f].st = "new" /\ entry' = entry
    BY <1>1 DEF AddEvidence, IInv, StoredPhotos, Editable
  <2>2. entry[job[r].entry].project = job[r].row
    BY <2>1 DEF IInv, JobsMakeSense, MakesSense, Busy, EntryOps
  <2>3. project[job[r].row].status = "in_progress"
    BY <2>1, WritersProject DEF QuoteOps
  <2> QED BY <1>1, <2>1, <2>2, <2>3
<1>2. ASSUME NEW r \in Req, DeleteProgress(r), f \in PhotosOf(job[r].entry)
      PROVE  project[entry[photo[f].entry].project].status = "in_progress"
  <2>1. entry[job[r].entry].project = job[r].row
    BY <1>2 DEF DeleteProgress, Doing, IInv, JobsMakeSense, MakesSense, Busy, EntryOps
  <2>2. project[job[r].row].status = "in_progress"
    BY <1>2, WritersProject DEF DeleteProgress, Doing, QuoteOps
  <2> QED BY <1>2, <2>1, <2>2 DEF PhotosOf
<1>3. ASSUME NEW r \in Req, DeleteEvidence(r), f = job[r].photo
      PROVE  project[entry[photo[f].entry].project].status = "in_progress"
  <2>1. entry[photo[f].entry].project = job[r].row
    BY <1>3 DEF DeleteEvidence, Doing, IInv, JobsMakeSense, MakesSense, Busy, PhotoOps
  <2>2. project[job[r].row].status = "in_progress"
    BY <1>3, WritersProject DEF DeleteEvidence, Doing, QuoteOps
  <2> QED BY <2>1, <2>2
<1> QED BY <1>1, <1>2, <1>3, PhotoMoves

\* Nothing of a finished project moves.
LEMMA NextLedgerFrozen ==
  ASSUME IInv, Next, NEW p \in Project, project[p].status = "finished"
  PROVE  LedgerOf(p)' = LedgerOf(p)
<1>0. /\ RowsBelong /\ RowsBelong'
      /\ project \in [Project -> [status : ProjectStatus, quote : Quote \cup {None},
                                  waived : BOOLEAN]]
      /\ payments \in [Project -> Seq(1..MaxAmount)]
  BY NextRowsBelong DEF IInv, TypeOK
<1>1. project'[p] = project[p]
  <2>1. ASSUME NEW r \in Req, NEW x \in Project, StartProject(r, x)
        PROVE  project'[p] = project[p]
    BY <1>0, <2>1 DEF StartProject
  <2>2. ASSUME NEW r \in Req, NEW confirm \in BOOLEAN, FinalizeProject(r, confirm)
        PROVE  project'[p] = project[p]
    <3>1. job[r].row # p
      BY <2>2, WritersProject DEF FinalizeProject, Doing, QuoteOps
    <3> QED BY <1>0, <2>2, <3>1 DEF FinalizeProject
  <2> QED BY <2>1, <2>2, StatusSteps DEF CreateQuote, DeleteQuote
<1>2. payments'[p] = payments[p]
  <2>1. ASSUME NEW r \in Req, NEW amount \in 0..MaxAmount, RegisterPayment(r, amount)
        PROVE  payments'[p] = payments[p]
    <3>1. job[r].row # p
      BY <2>1, WritersProject DEF RegisterPayment, Doing, QuoteOps
    <3> QED BY <1>0, <2>1, <3>1 DEF RegisterPayment
  <2>2. ASSUME NEW r \in Req, Write(r),
               ~\E amount \in 0..MaxAmount : RegisterPayment(r, amount)
        PROVE  payments' = payments
    BY <2>2 DEF Write, UpdateQuote, DeleteQuote, StartProject, FinalizeProject,
                RegisterProgress, UpdateProgress, DeleteProgress, StorePhoto, AddEvidence,
                DeleteEvidence, AssignService
  <2>3. ASSUME NEW r \in Req, Read(r) \/ LockRow(r) \/ Rollback(r) \/ Die(r) \/ DropFiles(r)
        PROVE  payments' = payments
    BY <2>3, NoData DEF data, DropFiles
  <2> QED BY <2>1, <2>2, <2>3 DEF Next, CreateQuote, DeleteAssignment, SetWorkerServices
<1>3. \A e \in Entry : \/ entry'[e] = entry[e]
                       \/ e \notin EntriesOf(p) /\ e \notin EntriesOf(p)'
  <2> SUFFICES ASSUME NEW e \in Entry, entry'[e] # entry[e]
               PROVE  e \notin EntriesOf(p) /\ e \notin EntriesOf(p)'
    OBVIOUS
  <2>1. /\ project[entry'[e].project].status = "in_progress"
        /\ entry[e].st = "live" => entry[e].project = entry'[e].project
    BY EntryMoves
  <2> QED BY <2>1 DEF EntriesOf, LiveEntries
<1>4. EntriesOf(p)' = EntriesOf(p)
  <2>1. \A e \in Entry : e \in EntriesOf(p)' <=> e \in EntriesOf(p)
    BY <1>3 DEF EntriesOf, LiveEntries
  <2> QED BY <2>1 DEF EntriesOf, LiveEntries
<1>5. {<<e, entry[e]>> : e \in EntriesOf(p)}' = {<<e, entry[e]>> : e \in EntriesOf(p)}
  <2>1. \A e \in EntriesOf(p) : entry'[e] = entry[e]
    BY <1>3 DEF EntriesOf, LiveEntries
  <2> QED BY <1>4, <2>1
<1>6. {f \in Photo : photo[f].st = "live" /\ photo[f].entry \in EntriesOf(p)}'
        = {f \in Photo : photo[f].st = "live" /\ photo[f].entry \in EntriesOf(p)}
  <2>1. ASSUME NEW f \in Photo
        PROVE  (photo'[f].st = "live" /\ photo'[f].entry \in EntriesOf(p))
                 <=> (photo[f].st = "live" /\ photo[f].entry \in EntriesOf(p))
    <3>1. CASE photo'[f] = photo[f]
      BY <3>1
    <3>2. CASE photo'[f] # photo[f]
      <4>1. photo[f].st = "live" => photo[f].entry \notin EntriesOf(p)
        BY <3>2, PhotoProject DEF EntriesOf
      <4>2. photo'[f].st = "live" => photo'[f].entry \notin EntriesOf(p)
        BY <3>2, PhotoProject DEF EntriesOf
      <4> QED BY <4>1, <4>2
    <3> QED BY <3>1, <3>2
  <2> QED BY <1>4, <2>1
<1> QED BY <1>1, <1>2, <1>5, <1>6 DEF LedgerOf

-----------------------------------------------------------------------------
LEMMA StutterIInv == IInv /\ UNCHANGED vars => IInv'
<1> SUFFICES ASSUME IInv, UNCHANGED vars PROVE IInv'
  OBVIOUS
<1>1. TypeOK' /\ RowsBelong' /\ LocksAreHeld' /\ StoredPhotos' /\ DroppedPhotos'
  BY DEF IInv, vars, data, TypeOK, RowsBelong, LocksAreHeld, StoredPhotos, DroppedPhotos,
         RowStatus
<1>2. JobsMakeSense'
  BY DEF IInv, vars, data, JobsMakeSense, MakesSense, Busy, RowStatus
<1>3. OneProject' /\ LedgerHangsTogether' /\ EvidenceIsStored' /\ LaborIsPriced'
  BY DEF IInv, vars, data, OneProject, LedgerHangsTogether, EvidenceIsStored,
         LaborIsPriced, ProjectsOf, LiveEntries
<1> QED BY <1>1, <1>2, <1>3 DEF IInv

LEMMA NextIInv == IInv /\ Next => IInv'
  BY NextTypeOK, NextRowsBelong, NextJobsMakeSense, NextLocksAreHeld, NextStoredPhotos,
     NextDroppedPhotos, NextOneProject, NextLedgerHangsTogether, NextEvidenceIsStored,
     NextLaborIsPriced DEF IInv

\* The invariant holds of every reachable state.
THEOREM Invariance == Spec => []IInv
<1>1. IInv /\ [Next]_vars => IInv'
  BY NextIInv, StutterIInv
<1> QED BY InitIInv, <1>1, PTL DEF Spec

\* Every row and every request keeps its shape.
THEOREM RequestsTypeOK == Spec => []TypeOK
  BY Invariance, PTL DEF IInv

\* The row a request holds is its own and does not change under it.
THEOREM RequestsHoldTheirRows == Spec => []LocksAreHeld
  BY Invariance, PTL DEF IInv

\* A quote becomes one project, whatever requests are repeated or run at once.
THEOREM QuoteBecomesOneProject == Spec => []OneProject
  BY Invariance, PTL DEF IInv

\* No entry and no share is left behind by a quote edited or deleted meanwhile.
THEOREM RecordsHangTogether == Spec => []LedgerHangsTogether
  BY Invariance, PTL DEF IInv

\* Every evidence row has its file and its entry, even when requests die.
THEOREM EvidenceHasItsFile == Spec => []EvidenceIsStored
  BY Invariance, PTL DEF IInv

\* Work with a name on it has a price, and only such work has.
THEOREM LaborHasItsPrice == Spec => []LaborIsPriced
  BY Invariance, PTL DEF IInv

\* A quote in a project keeps its status and its lines.
THEOREM QuoteStaysFrozen == Spec => QuoteFrozen
<1>1. IInv /\ [Next]_vars =>
        [\A q \in Quote : quoteStatus[q] = "in_project" =>
           /\ quoteStatus'[q] = "in_project"
           /\ \A l \in Line : qty'[<<q, l>>] = qty[<<q, l>>]]_vars
  BY NextQuoteFrozen
<1> QED BY Invariance, <1>1, PTL DEF Spec, QuoteFrozen

\* A finished project takes and loses nothing.
THEOREM LedgerStaysFrozen == Spec => LedgerFrozen
<1>1. IInv /\ [Next]_vars =>
        [\A p \in Project : project[p].status = "finished"
                            => LedgerOf(p)' = LedgerOf(p)]_vars
  BY NextLedgerFrozen
<1> QED BY Invariance, <1>1, PTL DEF Spec, LedgerFrozen

\* A deleted entry or photo never comes back.
THEOREM DeletedStaysDeleted == Spec => GoneForGood
<1>1. IInv /\ [Next]_vars =>
        [/\ \A e \in Entry : entry[e].st = "gone" => entry'[e].st = "gone"
         /\ \A f \in Photo : photo[f].st = "gone" => photo'[f].st = "gone"]_vars
  BY NextGone
<1> QED BY Invariance, <1>1, PTL DEF Spec, GoneForGood

(***************************************************************************)
(* 3. Totals.                                                              *)
(***************************************************************************)

\* A set of numbers has a smallest one.
LEMMA SmallestNumber ==
  ASSUME NEW T \in SUBSET Nat, T # {}
  PROVE  \E n \in T : \A m \in T : n <= m
<1> DEFINE R == OpToRel(<, Nat)
<1>1. IsWellFoundedOn(R, Nat)
  BY NatLessThanWellFounded
<1>2. PICK n \in T : \A m \in T : <<m, n>> \notin R
  <2> HIDE DEF R
  <2> QED BY <1>1, WFMin
<1>3. \A m \in T : ~(m < n)
  BY <1>2 DEF OpToRel
<1> QED BY <1>3

\* Induction over the subsets of a finite set, with a set for the predicate.
LEMMA SubsetInduction ==
  ASSUME NEW S, IsFiniteSet(S), NEW Good,
         {} \in Good,
         \A V \in SUBSET S : V # {} /\ (\A x \in V : V \ {x} \in Good) => V \in Good
  PROVE  \A V \in SUBSET S : V \in Good
<1> DEFINE T == {n \in Nat : \E V \in SUBSET S : Cardinality(V) = n /\ V \notin Good}
<1>1. \A V \in SUBSET S : IsFiniteSet(V) /\ Cardinality(V) \in Nat
  BY FS_Subset, FS_CardinalityType
<1>2. SUFFICES T = {}
  BY <1>1
<1>3. SUFFICES ASSUME T # {} PROVE FALSE
  OBVIOUS
<1>4. PICK n \in T : \A m \in T : n <= m
  <2> HIDE DEF T
  <2>1. T \in SUBSET Nat
    BY DEF T
  <2> QED BY <1>3, <2>1, SmallestNumber
<1>5. PICK V \in SUBSET S : Cardinality(V) = n /\ V \notin Good
  BY <1>4
<1>6. ASSUME NEW x \in V PROVE V \ {x} \in Good
  <2>1. IsFiniteSet(V) /\ Cardinality(V \ {x}) = n - 1 /\ V \ {x} \in SUBSET S
    BY <1>1, <1>5, FS_RemoveElement
  <2>2. n - 1 \in Nat
    BY <1>1, <2>1
  <2>3. n - 1 \notin T
    BY <1>4, <2>2
  <2> QED BY <2>1, <2>2, <2>3
<1> QED BY <1>5, <1>6

-----------------------------------------------------------------------------
Some(s) == CHOOSE x \in s : TRUE
IsSum(f, S, iter) ==
  iter = [s \in SUBSET S |-> IF s = {} THEN 0 ELSE f[Some(s)] + iter[s \ {Some(s)}]]

LEMMA SumIs ==
  ASSUME NEW f, NEW S
  PROVE  SumFunctionOnSet(f, S) = (CHOOSE iter : IsSum(f, S, iter))[S]
BY DEF SumFunctionOnSet, FoldFunctionOnSet, MapThenFoldSet, IsSum, Some

LEMMA SomeIsIn == \A s : s # {} => Some(s) \in s
BY DEF Some

\* functions for two sets agree on their common subsets
LEMMA SumUnique ==
  ASSUME NEW f, NEW S1, NEW S2, NEW i1, NEW i2, IsSum(f, S1, i1), IsSum(f, S2, i2),
         NEW U, IsFiniteSet(U), U \subseteq S1, U \subseteq S2
  PROVE  i1[U] = i2[U]
<1> DEFINE Good == {V \in SUBSET U : i1[V] = i2[V]}
<1>1. \A V \in SUBSET U : V # {} => /\ Some(V) \in V
                          /\ i1[V] = f[Some(V)] + i1[V \ {Some(V)}]
                          /\ i2[V] = f[Some(V)] + i2[V \ {Some(V)}]
  BY SomeIsIn DEF IsSum
<1>2. i1[{}] = 0 /\ i2[{}] = 0
  BY DEF IsSum
<1>3. \A V \in SUBSET U : V # {} /\ (\A x \in V : V \ {x} \in Good) => V \in Good
  BY <1>1
<1>4. {} \in Good
  BY <1>2
<1> HIDE DEF Good
<1>5. \A V \in SUBSET U : V \in Good
  BY <1>3, <1>4, SubsetInduction
<1>6. U \in Good
  BY <1>5
<1> QED BY <1>6 DEF Good

LEMMA SumExists ==
  ASSUME NEW f, NEW S, IsFiniteSet(S)
  PROVE  \E iter : IsSum(f, S, iter)
<1> DEFINE Upto(n) == {s \in SUBSET S : Cardinality(s) <= n}
           Is(n, g) == g = [s \in Upto(n) |-> IF s = {} THEN 0 ELSE f[Some(s)] + g[s \ {Some(s)}]]
           T == {n \in Nat : ~ \E g : Is(n, g)}
<1>1. \A s \in SUBSET S : IsFiniteSet(s) /\ Cardinality(s) \in Nat /\ Cardinality(s) <= Cardinality(S)
  BY FS_Subset, FS_CardinalityType
<1>2. \A s \in SUBSET S : Cardinality(s) = 0 <=> s = {}
  BY <1>1, FS_EmptySet
<1>3. ASSUME NEW s \in SUBSET S, s # {}
      PROVE  s \ {Some(s)} \in SUBSET S /\ Cardinality(s \ {Some(s)}) = Cardinality(s) - 1
  BY <1>1, <1>3, SomeIsIn, FS_RemoveElement
<1>4. \E g : Is(0, g)
  <2>1. \A s \in Upto(0) : s = {}
    BY <1>1, <1>2
  <2>2. Is(0, [s \in Upto(0) |-> 0])
    BY <2>1
  <2> QED BY <2>2
<1>5. ASSUME NEW n \in Nat, n # 0, NEW g, Is(n - 1, g)
      PROVE  \E h : Is(n, h)
  <2> DEFINE h == [s \in Upto(n) |-> IF s = {} THEN 0 ELSE f[Some(s)] + g[s \ {Some(s)}]]
  <2>1. ASSUME NEW s \in Upto(n - 1) PROVE h[s] = g[s]
    <3>1. s \in Upto(n)
      BY <1>1, <1>5
    <3>2. h[s] = IF s = {} THEN 0 ELSE f[Some(s)] + g[s \ {Some(s)}]
      BY <3>1
    <3>3. g[s] = IF s = {} THEN 0 ELSE f[Some(s)] + g[s \ {Some(s)}]
      BY <1>5, <2>1
    <3> QED BY <3>2, <3>3
  <2>2. ASSUME NEW s \in Upto(n), s # {} PROVE g[s \ {Some(s)}] = h[s \ {Some(s)}]
    <3>1. s \ {Some(s)} \in Upto(n - 1)
      BY <1>1, <1>3, <1>5, <2>2
    <3> HIDE DEF h, Upto
    <3> QED BY <2>1, <3>1
  <2>3. h = [s \in Upto(n) |-> IF s = {} THEN 0 ELSE f[Some(s)] + h[s \ {Some(s)}]]
    BY <2>2
  <2> QED BY <2>3
<1>6. T = {}
  <2>1. SUFFICES ASSUME T # {} PROVE FALSE
    OBVIOUS
  <2>2. PICK n \in T : \A m \in T : n <= m
    <3>1. T \in SUBSET Nat
      OBVIOUS
    <3> HIDE DEF T
    <3> QED BY <2>1, <3>1, SmallestNumber
  <2>3. n # 0
    <3> HIDE DEF Is
    <3> QED BY <1>4, <2>2
  <2>4. n - 1 \in Nat /\ n - 1 \notin T
    <3>1. n \in Nat /\ ~(n <= n - 1)
      OBVIOUS
    <3> HIDE DEF T
    <3> QED BY <2>2, <2>3, <3>1
  <2> HIDE DEF Is
  <2> QED BY <1>5, <2>2, <2>3, <2>4
<1>7. PICK g : Is(Cardinality(S), g)
  <2>1. Cardinality(S) \in Nat
    BY <1>1
  <2> HIDE DEF Is
  <2> QED BY <1>6, <2>1
<1>8. Upto(Cardinality(S)) = SUBSET S
  BY <1>1
<1> QED BY <1>7, <1>8 DEF IsSum

-----------------------------------------------------------------------------
LEMMA SumOfNothing == ASSUME NEW f PROVE SumFunctionOnSet(f, {}) = 0
<1>1. PICK iter : IsSum(f, {}, iter) /\ SumFunctionOnSet(f, {}) = iter[{}]
  BY SumIs, SumExists, FS_EmptySet
<1> QED BY <1>1 DEF IsSum

LEMMA SumStep ==
  ASSUME NEW f, NEW S, IsFiniteSet(S), S # {}
  PROVE  /\ Some(S) \in S
         /\ SumFunctionOnSet(f, S) = f[Some(S)] + SumFunctionOnSet(f, S \ {Some(S)})
<1> DEFINE rest == S \ {Some(S)}
<1>1. IsFiniteSet(rest)
  BY FS_RemoveElement
<1>2. PICK i1 : IsSum(f, S, i1) /\ SumFunctionOnSet(f, S) = i1[S]
  BY SumIs, SumExists
<1>3. PICK i2 : IsSum(f, rest, i2) /\ SumFunctionOnSet(f, rest) = i2[rest]
  BY <1>1, SumIs, SumExists
<1>4. i1[S] = f[Some(S)] + i1[rest]
  BY <1>2 DEF IsSum
<1>5. i1[rest] = i2[rest]
  BY <1>1, <1>2, <1>3, SumUnique
<1> QED BY <1>2, <1>3, <1>4, <1>5, SomeIsIn

\* A sum of integers is one, of natural numbers a natural number.
LEMMA SumInt ==
  ASSUME NEW f, NEW S, IsFiniteSet(S), \A x \in S : f[x] \in Int
  PROVE  SumFunctionOnSet(f, S) \in Int
<1> DEFINE Good == {V \in SUBSET S : SumFunctionOnSet(f, V) \in Int}
<1>1. {} \in Good
  BY SumOfNothing
<1>2. ASSUME NEW V \in SUBSET S, V # {}, \A x \in V : V \ {x} \in Good PROVE V \in Good
  <2>1. IsFiniteSet(V)
    BY FS_Subset
  <2>2. Some(V) \in V /\ SumFunctionOnSet(f, V) = f[Some(V)] + SumFunctionOnSet(f, V \ {Some(V)})
    BY <1>2, <2>1, SumStep
  <2> QED BY <1>2, <2>2
<1>3. \A V \in SUBSET S : V \in Good
  <2> HIDE DEF Good
  <2> QED BY <1>1, <1>2, SubsetInduction
<1> QED BY <1>3

LEMMA SumNat ==
  ASSUME NEW f, NEW S, IsFiniteSet(S), \A x \in S : f[x] \in Nat
  PROVE  SumFunctionOnSet(f, S) \in Nat
<1> DEFINE Good == {V \in SUBSET S : SumFunctionOnSet(f, V) \in Nat}
<1>1. {} \in Good
  BY SumOfNothing
<1>2. ASSUME NEW V \in SUBSET S, V # {}, \A x \in V : V \ {x} \in Good PROVE V \in Good
  <2>1. IsFiniteSet(V)
    BY FS_Subset
  <2>2. Some(V) \in V /\ SumFunctionOnSet(f, V) = f[Some(V)] + SumFunctionOnSet(f, V \ {Some(V)})
    BY <1>2, <2>1, SumStep
  <2> QED BY <1>2, <2>2
<1>3. \A V \in SUBSET S : V \in Good
  <2> HIDE DEF Good
  <2> QED BY <1>1, <1>2, SubsetInduction
<1> QED BY <1>3

\* Functions that agree on a set have one sum over it.
LEMMA SumSame ==
  ASSUME NEW f, NEW g, NEW S, IsFiniteSet(S), \A x \in S : f[x] = g[x]
  PROVE  SumFunctionOnSet(f, S) = SumFunctionOnSet(g, S)
<1> DEFINE Good == {V \in SUBSET S : SumFunctionOnSet(f, V) = SumFunctionOnSet(g, V)}
<1>1. {} \in Good
  BY SumOfNothing
<1>2. ASSUME NEW V \in SUBSET S, V # {}, \A x \in V : V \ {x} \in Good PROVE V \in Good
  <2>1. IsFiniteSet(V)
    BY FS_Subset
  <2>2. /\ Some(V) \in V
       /\ SumFunctionOnSet(f, V) = f[Some(V)] + SumFunctionOnSet(f, V \ {Some(V)})
       /\ SumFunctionOnSet(g, V) = g[Some(V)] + SumFunctionOnSet(g, V \ {Some(V)})
    BY <1>2, <2>1, SumStep
  <2> QED BY <1>2, <2>2
<1>3. \A V \in SUBSET S : V \in Good
  <2> HIDE DEF Good
  <2> QED BY <1>1, <1>2, SubsetInduction
<1> QED BY <1>3

\* Any member may be taken out of a sum.
LEMMA SumWithout ==
  ASSUME NEW f, NEW S, IsFiniteSet(S), \A x \in S : f[x] \in Int, NEW x \in S
  PROVE  SumFunctionOnSet(f, S) = f[x] + SumFunctionOnSet(f, S \ {x})
<1> DEFINE Sum(V) == SumFunctionOnSet(f, V)
           Good == {V \in SUBSET S : \A y \in V : Sum(V) = f[y] + Sum(V \ {y})}
<1>1. {} \in Good
  OBVIOUS
<1>2. ASSUME NEW V \in SUBSET S, V # {}, \A y \in V : V \ {y} \in Good PROVE V \in Good
  <2> DEFINE c == Some(V)
  <2>1. c \in V /\ Sum(V) = f[c] + Sum(V \ {c}) /\ IsFiniteSet(V)
    BY <1>2, SumStep, FS_Subset
  <2>2. ASSUME NEW y \in V, y # c PROVE Sum(V) = f[y] + Sum(V \ {y})
    <3>1. Sum(V \ {c}) = f[y] + Sum((V \ {c}) \ {y})
      BY <1>2, <2>1, <2>2
    <3>2. Sum(V \ {y}) = f[c] + Sum((V \ {y}) \ {c})
      BY <1>2, <2>1, <2>2
    <3>3. (V \ {c}) \ {y} = (V \ {y}) \ {c}
      OBVIOUS
    <3>4. Sum((V \ {y}) \ {c}) \in Int
      <4>1. IsFiniteSet((V \ {y}) \ {c})
        BY <2>1, FS_Subset
      <4> QED BY <4>1, SumInt
    <3>5. f[c] \in Int /\ f[y] \in Int
      BY <2>1
    <3>6. V \ {c} # {} /\ Sum(V) = f[c] + (f[y] + Sum((V \ {y}) \ {c}))
      BY <2>1, <2>2, <3>1, <3>3
    <3>7. \A a, b, d \in Int : a + (b + d) = b + (a + d)
      OBVIOUS
    <3> QED BY <3>2, <3>4, <3>5, <3>6, <3>7
  <2> QED BY <2>1, <2>2
<1>3. \A V \in SUBSET S : V \in Good
  <2> HIDE DEF Good
  <2> QED BY <1>1, <1>2, SubsetInduction
<1> QED BY <1>3

\* Two sums that differ in one member at most differ by what it is worth.
LEMMA SumMoves ==
  ASSUME NEW f, NEW g, NEW S, NEW T, NEW x, IsFiniteSet(S), IsFiniteSet(T),
         \A y \in S : f[y] \in Int, \A y \in T : g[y] \in Int,
         S \ {x} = T \ {x}, \A y \in S \ {x} : f[y] = g[y]
  PROVE  /\ SumFunctionOnSet(f, S) \in Int
         /\ SumFunctionOnSet(g, T) = SumFunctionOnSet(f, S)
              + (IF x \in T THEN g[x] ELSE 0) - (IF x \in S THEN f[x] ELSE 0)
<1>1. IsFiniteSet(S \ {x})
  BY FS_Subset
<1>2. SumFunctionOnSet(g, T \ {x}) = SumFunctionOnSet(f, S \ {x})
  BY <1>1, SumSame
<1>3. SumFunctionOnSet(f, S \ {x}) \in Int
  BY <1>1, SumInt
<1>4. SumFunctionOnSet(f, S) = SumFunctionOnSet(f, S \ {x}) + (IF x \in S THEN f[x] ELSE 0)
  <2>1. CASE x \in S
    BY <2>1, <1>3, SumWithout
  <2>2. CASE x \notin S
    <3>1. S \ {x} = S
      BY <2>2
    <3>2. SumFunctionOnSet(f, S \ {x}) = SumFunctionOnSet(f, S)
      BY <3>1, Zenon
    <3> QED BY <2>2, <3>2, <1>3
  <2> QED BY <2>1, <2>2
<1>5. SumFunctionOnSet(g, T) = SumFunctionOnSet(g, T \ {x}) + (IF x \in T THEN g[x] ELSE 0)
  <2>1. CASE x \in T
    BY <2>1, <1>2, <1>3, SumWithout
  <2>2. CASE x \notin T
    <3>1. T \ {x} = T
      BY <2>2
    <3>2. SumFunctionOnSet(g, T \ {x}) = SumFunctionOnSet(g, T)
      BY <3>1, Zenon
    <3> QED BY <2>2, <3>2, <1>2, <1>3
  <2> QED BY <2>1, <2>2
<1>6. /\ (IF x \in S THEN f[x] ELSE 0) \in Int
      /\ (IF x \in T THEN g[x] ELSE 0) \in Int
  OBVIOUS
<1> QED BY <1>2, <1>3, <1>4, <1>5, <1>6

\* The more each member is worth, the more the sum.
LEMMA SumMonotone ==
  ASSUME NEW f, NEW g, NEW S, IsFiniteSet(S),
         \A x \in S : f[x] \in Int /\ g[x] \in Int /\ f[x] <= g[x]
  PROVE  SumFunctionOnSet(f, S) <= SumFunctionOnSet(g, S)
<1> DEFINE Good == {V \in SUBSET S :
                      /\ SumFunctionOnSet(f, V) \in Int
                      /\ SumFunctionOnSet(g, V) \in Int
                      /\ SumFunctionOnSet(f, V) <= SumFunctionOnSet(g, V)}
<1>1. {} \in Good
  BY SumOfNothing
<1>2. ASSUME NEW V \in SUBSET S, V # {}, \A x \in V : V \ {x} \in Good PROVE V \in Good
  <2>1. IsFiniteSet(V)
    BY FS_Subset
  <2>2. /\ Some(V) \in V
        /\ SumFunctionOnSet(f, V) = f[Some(V)] + SumFunctionOnSet(f, V \ {Some(V)})
        /\ SumFunctionOnSet(g, V) = g[Some(V)] + SumFunctionOnSet(g, V \ {Some(V)})
    BY <1>2, <2>1, SumStep
  <2> QED BY <1>2, <2>2
<1>3. \A V \in SUBSET S : V \in Good
  <2> HIDE DEF Good
  <2> QED BY <1>1, <1>2, SubsetInduction
<1> QED BY <1>3

\* Nothing but zeros adds up to zero.
LEMMA SumOfZeros ==
  ASSUME NEW f, NEW S, IsFiniteSet(S), \A x \in S : f[x] = 0
  PROVE  SumFunctionOnSet(f, S) = 0
<1> DEFINE Good == {V \in SUBSET S : SumFunctionOnSet(f, V) = 0}
<1>1. {} \in Good
  BY SumOfNothing
<1>2. ASSUME NEW V \in SUBSET S, V # {}, \A x \in V : V \ {x} \in Good PROVE V \in Good
  <2>1. IsFiniteSet(V)
    BY FS_Subset
  <2>2. Some(V) \in V /\ SumFunctionOnSet(f, V) = f[Some(V)] + SumFunctionOnSet(f, V \ {Some(V)})
    BY <1>2, <2>1, SumStep
  <2> QED BY <1>2, <2>2
<1>3. \A V \in SUBSET S : V \in Good
  <2> HIDE DEF Good
  <2> QED BY <1>1, <1>2, SubsetInduction
<1> QED BY <1>3

-----------------------------------------------------------------------------
(* The totals of the services, and how a step moves them. *)

\* The entries whose quantities make up an item's recorded progress.
Recorded(i, except) == {e \in LiveEntries \ except : entry[e].item = i}

\* What an entry adds to an item.
Counts(e, i) == entry[e].st = "live" /\ entry[e].item = i
Adds(e, i) == IF Counts(e, i) THEN entry[e].n ELSE 0

LEMMA AdvancedIs ==
  ASSUME TypeOK, NEW i \in Item, NEW except
  PROVE  /\ Advanced(i, except) \in Nat
         /\ Recorded(i, except) \in SUBSET Entry
         /\ IsFiniteSet(Recorded(i, except))
         /\ \A e \in Entry : entry[e].n \in Nat
<1>1. Recorded(i, except) \in SUBSET Entry
  BY DEF Recorded, LiveEntries
<1>2. \A e \in Entry : entry[e].n \in Nat
  BY ConstantsAssumption, ItemsAssumption DEF TypeOK, EntryType
<1>3. IsFiniteSet(Recorded(i, except))
  BY <1>1, FS_Subset, ConstantsAssumption
<1>4. \A e \in Recorded(i, except) : [x \in Entry |-> entry[x].n][e] \in Nat
  BY <1>1, <1>2
<1>5. Advanced(i, except) = SumFunctionOnSet([x \in Entry |-> entry[x].n], Recorded(i, except))
  BY DEF Advanced, Recorded
<1> QED BY <1>1, <1>2, <1>3, <1>4, <1>5, SumNat

\* An item's progress is an entry's and the others'.
LEMMA AdvancedSplit ==
  ASSUME TypeOK, NEW i \in Item, NEW e \in Entry
  PROVE  Advanced(i, {}) = Advanced(i, {e}) + Adds(e, i)
<1> DEFINE f == [x \in Entry |-> entry[x].n]
<1>1. /\ Advanced(i, {}) = SumFunctionOnSet(f, Recorded(i, {}))
      /\ Advanced(i, {e}) = SumFunctionOnSet(f, Recorded(i, {e}))
  BY DEF Advanced, Recorded
<1>2. Recorded(i, {e}) = Recorded(i, {}) \ {e}
  BY DEF Recorded
<1>3. Advanced(i, {e}) \in Nat /\ \A x \in Recorded(i, {}) : f[x] \in Int
  BY AdvancedIs
<1>4. CASE Counts(e, i)
  <2>1. e \in Recorded(i, {}) /\ IsFiniteSet(Recorded(i, {}))
    BY <1>4, AdvancedIs DEF Recorded, LiveEntries, Counts
  <2>2. Advanced(i, {}) = f[e] + Advanced(i, {e})
    <3>1. Advanced(i, {e}) = SumFunctionOnSet(f, Recorded(i, {}) \ {e})
      BY <1>1, <1>2, Zenon
    <3> HIDE DEF f
    <3>2. SumFunctionOnSet(f, Recorded(i, {}))
            = f[e] + SumFunctionOnSet(f, Recorded(i, {}) \ {e})
      BY <1>3, <2>1, SumWithout
    <3> QED BY <1>1, <3>1, <3>2
  <2>3. f[e] = entry[e].n /\ entry[e].n \in Nat
    BY AdvancedIs
  <2> QED BY <1>3, <1>4, <2>2, <2>3 DEF Adds
<1>5. CASE ~Counts(e, i)
  <2>1. Recorded(i, {e}) = Recorded(i, {})
    BY <1>5 DEF Recorded, LiveEntries, Counts
  <2> QED BY <1>1, <1>3, <1>5, <2>1 DEF Adds
<1> QED BY <1>4, <1>5

\* A step leaves what some entries add to an item when it leaves what each adds.
LEMMA AdvancedKept ==
  ASSUME TypeOK, TypeOK', NEW i \in Item, NEW except,
         \A e \in Entry \ except : entry'[e] = entry[e] \/ (~Counts(e, i) /\ ~Counts(e, i)')
  PROVE  Advanced(i, except)' = Advanced(i, except)
<1> DEFINE f == [x \in Entry |-> entry[x].n]
           g == [x \in Entry |-> entry'[x].n]
<1>1. /\ Advanced(i, except) = SumFunctionOnSet(f, Recorded(i, except))
      /\ Advanced(i, except)' = SumFunctionOnSet(g, Recorded(i, except)')
  BY DEF Advanced, Recorded
<1>2. \A e \in Entry : e \in Recorded(i, except) <=> e \in Recorded(i, except)'
  BY DEF Recorded, Counts, LiveEntries
<1>3. Recorded(i, except)' = Recorded(i, except)
  BY <1>2 DEF Recorded, LiveEntries
<1>4. \A e \in Recorded(i, except) : f[e] = g[e]
  BY DEF Recorded, LiveEntries, Counts
<1>5. IsFiniteSet(Recorded(i, except))
  BY AdvancedIs
<1>6. SumFunctionOnSet(f, Recorded(i, except)) = SumFunctionOnSet(g, Recorded(i, except))
  <2> HIDE DEF f, g
  <2> QED BY <1>4, <1>5, SumSame
<1>7. SumFunctionOnSet(g, Recorded(i, except)') = SumFunctionOnSet(g, Recorded(i, except))
  BY <1>3, Zenon
<1> QED BY <1>1, <1>6, <1>7

\* The shares of an item, one by one.
LEMMA HandedIs ==
  ASSUME TypeOK, NEW i \in Item, NEW except
  PROVE  /\ Handed(i, except) \in Nat
         /\ IsFiniteSet(Worker \ except)
         /\ \A w \in Worker : share[i][w].n \in Nat
<1>1. \A w \in Worker : share[i][w].n \in Nat
  BY ConstantsAssumption, ItemsAssumption DEF TypeOK
<1>2. IsFiniteSet(Worker \ except)
  BY FS_Subset, ConstantsAssumption
<1>3. \A w \in Worker \ except : [x \in Worker |-> share[i][x].n][w] \in Nat
  BY <1>1
<1> QED BY <1>1, <1>2, <1>3, SumNat DEF Handed

LEMMA HandedSplit ==
  ASSUME TypeOK, NEW i \in Item, NEW w \in Worker
  PROVE  Handed(i, {}) = Handed(i, {w}) + share[i][w].n
<1> DEFINE f == [x \in Worker |-> share[i][x].n]
<1>1. Handed(i, {}) = SumFunctionOnSet(f, Worker)
  <2>1. Worker \ {} = Worker
    OBVIOUS
  <2>2. Handed(i, {}) = SumFunctionOnSet(f, Worker \ {})
    BY DEF Handed
  <2> QED BY <2>1, <2>2, Zenon
<1>2. Handed(i, {w}) = SumFunctionOnSet(f, Worker \ {w}) /\ Handed(i, {w}) \in Nat
  BY HandedIs DEF Handed
<1>3. IsFiniteSet(Worker) /\ (\A x \in Worker : f[x] \in Int) /\ f[w] = share[i][w].n
  <2>1. \A x \in Worker : share[i][x].n \in Nat
    BY HandedIs
  <2> QED BY <2>1, ConstantsAssumption
<1>4. SumFunctionOnSet(f, Worker) = f[w] + SumFunctionOnSet(f, Worker \ {w})
  <2> HIDE DEF f
  <2> QED BY <1>3, SumWithout
<1> QED BY <1>1, <1>2, <1>3, <1>4

\* What is handed out to some workers does not grow unless the share of one does.
LEMMA HandedFalls ==
  ASSUME TypeOK, TypeOK', NEW i \in Item, NEW except,
         \A w \in Worker \ except : share'[i][w].n <= share[i][w].n
  PROVE  Handed(i, except)' \in Nat /\ Handed(i, except)' <= Handed(i, except)
<1> DEFINE f == [x \in Worker |-> share[i][x].n]
           g == [x \in Worker |-> share'[i][x].n]
<1>1. /\ Handed(i, except) = SumFunctionOnSet(f, Worker \ except)
      /\ Handed(i, except)' = SumFunctionOnSet(g, Worker \ except)
  BY DEF Handed
<1>2. \A w \in Worker \ except : f[w] \in Nat /\ g[w] \in Nat /\ g[w] <= f[w]
  BY HandedIs, ConstantsAssumption, ItemsAssumption DEF TypeOK
<1>3. IsFiniteSet(Worker \ except)
  BY HandedIs
<1>4. /\ SumFunctionOnSet(g, Worker \ except) \in Nat
      /\ SumFunctionOnSet(g, Worker \ except) <= SumFunctionOnSet(f, Worker \ except)
  <2> HIDE DEF f, g
  <2> QED BY <1>2, <1>3, SumMonotone, SumNat
<1> QED BY <1>1, <1>4

-----------------------------------------------------------------------------
(* Who writes an entry, or a share, holds the project of its item. *)

\* Two items' projects are one when their quotes are.
LEMMA ProjectOfItem ==
  ASSUME IInv, NEW p1 \in Project, NEW p2 \in Project, project[p1].status # "new",
         project[p2].status # "new", project[p1].quote = project[p2].quote
  PROVE  p1 = p2
<1>1. project[p1].quote \in Quote
  BY DEF IInv, RowsBelong
<1>2. p1 \in ProjectsOf(project[p1].quote) /\ p2 \in ProjectsOf(project[p1].quote)
  BY DEF ProjectsOf
<1> QED BY <1>1, <1>2 DEF IInv, OneProject

\* A row has one holder.
LEMMA OneHolder ==
  ASSUME IInv, NEW r1 \in Req, NEW r2 \in Req, pc[r1] = "locked", pc[r2] = "locked",
         job[r1].row = job[r2].row
  PROVE  r1 = r2
  BY DEF IInv, LocksAreHeld

\* A request that commits is not where it was.
LEMMA CommitLeaves ==
  ASSUME TypeOK, NEW r \in Req, NEW toDrop, Commit(r, toDrop)
  PROVE  pc'[r] # "locked"
  BY DEF Commit, TypeOK

LEMMA EntryWriter ==
  ASSUME IInv, Next, NEW e \in Entry, entry'[e] # entry[e]
  PROVE  \E r \in Req : /\ pc[r] = "locked" /\ pc'[r] # "locked"
                        /\ job[r].row = entry'[e].project
                        /\ entry[e].st # "new" => job[r].row = entry[e].project
<1>0. TypeOK /\ entry \in [Entry -> EntryType]
  BY DEF IInv, TypeOK
<1>1. entry[e].st # "new" => entry'[e].project = entry[e].project
  BY EntriesStay
<1>2. ASSUME NEW r \in Req, NEW x \in Entry, NEW n \in 0..MaxQty, RegisterProgress(r, x, n)
      PROVE  /\ pc[r] = "locked" /\ pc'[r] # "locked"
             /\ entry[e].st = "new" /\ entry'[e].project = job[r].row
  BY <1>0, <1>2, CommitLeaves DEF RegisterProgress, Doing
<1>3. ASSUME NEW r \in Req, NEW n \in 0..MaxQty, NEW w \in Worker \cup {None},
             UpdateProgress(r, n, w)
      PROVE  /\ pc[r] = "locked" /\ pc'[r] # "locked"
             /\ entry[e].st # "new" /\ entry[e].project = job[r].row
  <2>1. e = job[r].entry
    BY <1>0, <1>3 DEF UpdateProgress, Save
  <2>2. pc[r] = "locked" /\ pc'[r] # "locked" /\ job[r].op = "update_progress"
    BY <1>0, <1>3, CommitLeaves DEF UpdateProgress, Doing
  <2> QED BY <2>1, <2>2 DEF IInv, JobsMakeSense, MakesSense, Busy, EntryOps
<1>4. ASSUME NEW r \in Req, DeleteProgress(r)
      PROVE  /\ pc[r] = "locked" /\ pc'[r] # "locked"
             /\ entry[e].st # "new" /\ entry[e].project = job[r].row
  <2>1. entry' = [entry EXCEPT ![job[r].entry].st = "gone"]
    BY <1>4 DEF DeleteProgress
  <2>2. e = job[r].entry
    BY <1>0, <2>1 DEF EntryType
  <2>3. \A d : Commit(r, d) => pc'[r] # "locked"
    BY <1>0, CommitLeaves
  <2>4. pc[r] = "locked" /\ pc'[r] # "locked" /\ job[r].op = "delete_progress"
    BY <1>4, <2>3 DEF DeleteProgress, Doing
  <2> QED BY <2>2, <2>4 DEF IInv, JobsMakeSense, MakesSense, Busy, EntryOps
<1> QED BY <1>1, <1>2, <1>3, <1>4, EntrySteps

\* A share that grows is of an item of the project its writer holds.
LEMMA ShareWriter ==
  ASSUME IInv, Next, NEW i \in Item, NEW w \in Worker, ~(share'[i][w].n <= share[i][w].n)
  PROVE  \E r \in Req, n \in 0..MaxQty, price \in Price \cup {None} :
           /\ AssignService(r, n, price)
           /\ pc[r] = "locked" /\ pc'[r] # "locked"
           /\ job[r].op = "assign_service" /\ OfTheProject(job[r])
           /\ job[r].item = i /\ job[r].worker = w
<1>0. TypeOK /\ share \in [Item -> [Worker -> [n : 0..MaxQty, price : Price \cup {None}]]]
  BY DEF IInv, TypeOK
<1>1. \A x \in 0..MaxQty : x <= x /\ 0 <= x
  BY ItemsAssumption
<1>2. share[i][w].n \in 0..MaxQty
  BY <1>0
<1>3. share' # share
  BY <1>1, <1>2
<1>4. ASSUME NEW x \in Item, NEW v \in Worker, DeleteAssignment(x, v) PROVE FALSE
  <2>1. share' = [share EXCEPT ![x][v] = NoShare]
    BY <1>4 DEF DeleteAssignment
  <2>2. share'[i][w] = share[i][w] \/ share'[i][w] = NoShare
    BY <1>0, <2>1
  <2> QED BY <1>1, <1>2, <2>2 DEF NoShare
<1>5. ASSUME NEW r \in Req, NEW n \in 0..MaxQty, NEW price \in Price \cup {None},
             AssignService(r, n, price)
      PROVE  /\ pc[r] = "locked" /\ pc'[r] # "locked"
             /\ job[r].op = "assign_service" /\ OfTheProject(job[r])
             /\ job[r].item = i /\ job[r].worker = w
  <2>1. /\ pc[r] = "locked" /\ pc'[r] # "locked"
        /\ job[r].op = "assign_service" /\ OfTheProject(job[r])
    BY <1>0, <1>5, CommitLeaves DEF AssignService, Doing
  <2>2. PICK new : share' = [share EXCEPT ![job[r].item][job[r].worker] = new]
    BY <1>5 DEF AssignService
  <2>3. share'[i][w] # share[i][w]
    BY <1>1, <1>2
  <2>4. job[r].item = i /\ job[r].worker = w
    BY <1>0, <2>2, <2>3
  <2> QED BY <2>1, <2>4
<1> QED BY <1>3, <1>4, <1>5, ShareSteps

-----------------------------------------------------------------------------
(* What a request holds while it holds its row. *)

\* What a request read of an item of its project is what the quote still says,
\* and the item of the entry it was asked about is of its project.
JobsKnow ==
  \A r \in Req : Busy(r) =>
    /\ job[r].op \in EntryOps =>
         OfTheProject(job[r]) /\ job[r].item = entry[job[r].entry].item
    /\ job[r].op \in ItemOps \cup EntryOps /\ OfTheProject(job[r]) =>
         job[r].qty = qty[job[r].item]

\* What it counted with its row locked is still there: nobody else adds to the
\* item, or touches the ledger of the project, until it ends.
CountsHold ==
  \A r \in Req : pc[r] = "locked" =>
    /\ \A i \in Item :
         /\ job[r].op = "register_progress" /\ OfTheProject(job[r]) /\ job[r].item = i
         => counted[r] + Advanced(i, {}) <= qty[i]
    /\ \A i \in Item, e \in Entry :
         /\ job[r].op = "update_progress" /\ job[r].item = i /\ job[r].entry = e
         => counted[r] + Advanced(i, {e}) <= qty[i]
    /\ \A i \in Item, w \in Worker :
         /\ job[r].op = "assign_service" /\ OfTheProject(job[r])
         /\ job[r].item = i /\ job[r].worker = w
         => counted[r] + Handed(i, {w}) <= qty[i]
    /\ \A p \in Project :
         job[r].op = "finalize_project" /\ job[r].row = p =>
         counted[r] = PendingBalance(p)

TotalsInv ==
  /\ IInv
  /\ JobsKnow
  /\ CountsHold
  /\ counted \in [Req -> Int]
  /\ ProgressFits
  /\ HandOutsFit
  /\ FinishedSettled

\* The lines of a quote that has a project stay.
LEMMA QtyStays ==
  ASSUME IInv, Next, NEW i \in Item, NEW p \in Project, project[p].status # "new",
         i[1] = project[p].quote
  PROVE  qty'[i] = qty[i]
<1>1. PICK q \in Quote, l \in Line : i = <<q, l>>
  BY DEF Item
<1>2. p \in ProjectsOf(q)
  BY <1>1 DEF ProjectsOf
<1>3. quoteStatus[q] = "in_project"
  BY <1>2 DEF IInv, OneProject
<1> QED BY <1>1, <1>3, NextQuoteFrozen

LEMMA NextJobsKnow ==
  ASSUME IInv, JobsKnow, Next PROVE JobsKnow'
<1> SUFFICES ASSUME NEW r \in Req, Busy(r)'
             PROVE  /\ job'[r].op \in EntryOps =>
                         /\ OfTheProject(job[r])'
                         /\ job'[r].item = entry'[job'[r].entry].item
                    /\ job'[r].op \in ItemOps \cup EntryOps /\ OfTheProject(job[r])' =>
                         job'[r].qty = qty'[job'[r].item]
  BY DEF JobsKnow
<1>0. TypeOK /\ RowsBelong /\ RowsStay
  BY NextRowsStay DEF IInv
<1>1. CASE Read(r)
  <2>1. UNCHANGED <<entry, qty, project>>
    BY <1>1, NoData DEF data
  <2>2. ASSUME NEW j \in JobType, Begin(r, j)
        PROVE  /\ job'[r].op = j.op /\ job'[r].row = j.row /\ job'[r].item = j.item
               /\ job'[r].entry = j.entry /\ job'[r].qty = j.qty
    <3>1. job'[r] = [j EXCEPT !.seen = RowStatus(j.row)]
      BY <1>0, <2>2 DEF Begin, TypeOK
    <3> QED BY <3>1 DEF JobType
  <2>3. ASSUME NEW op \in QuoteOps \cup ProjectOps \cup PhotoOps, NEW j \in JobType,
               j.op = op, Begin(r, j)
        PROVE  job'[r].op \notin ItemOps \cup EntryOps
    BY <2>2, <2>3 DEF QuoteOps, ProjectOps, PhotoOps, ItemOps, EntryOps
  <2>4. ASSUME NEW op \in QuoteOps, NEW q \in Quote, ReadQuote(r, op, q)
        PROVE  job'[r].op \notin ItemOps \cup EntryOps
    <3> DEFINE j == [NoJob EXCEPT !.op = op, !.row = q]
    <3>1. j \in JobType /\ j.op = op
      BY NoJobType DEF JobType, Row, AllOps, NoJob
    <3> QED BY <2>3, <2>4, <3>1 DEF ReadQuote
  <2>5. ASSUME NEW op \in ProjectOps, NEW p \in Project, ReadProject(r, op, p)
        PROVE  job'[r].op \notin ItemOps \cup EntryOps
    <3> DEFINE j == [NoJob EXCEPT !.op = op, !.row = p]
    <3>1. j \in JobType /\ j.op = op
      BY NoJobType DEF JobType, Row, AllOps, NoJob
    <3> QED BY <2>3, <2>5, <3>1 DEF ReadProject
  <2>6. ASSUME NEW op \in PhotoOps, NEW f \in Photo, ReadPhoto(r, op, f)
        PROVE  job'[r].op \notin ItemOps \cup EntryOps
    <3> DEFINE j == [NoJob EXCEPT !.op = op, !.row = entry[photo[f].entry].project,
                                  !.entry = photo[f].entry, !.photo = f]
    <3>1. photo[f].entry \in Entry /\ entry[photo[f].entry].project \in Project
      BY <1>0, <2>6 DEF ReadPhoto, RowsBelong
    <3>2. j \in JobType /\ j.op = op
      BY <3>1, NoJobType DEF JobType, Row, AllOps, NoJob
    <3> QED BY <2>3, <2>6, <3>2 DEF ReadPhoto
  <2>7. ASSUME NEW op \in ItemOps, NEW p \in Project, NEW i \in Item,
               NEW w \in Worker \cup {None}, ReadItem(r, op, p, i, w)
        PROVE  job'[r].op \notin EntryOps /\ job'[r].qty = qty[job'[r].item]
    <3> DEFINE j == [NoJob EXCEPT !.op = op, !.row = p, !.item = i, !.qty = qty[i],
                                  !.worker = w]
    <3>1. qty[i] \in 0..MaxQty
      BY <1>0 DEF TypeOK
    <3>2. j \in JobType /\ j.op = op /\ j.item = i /\ j.qty = qty[i]
      BY <3>1, NoJobType DEF JobType, Row, AllOps, NoJob
    <3> QED BY <2>2, <2>7, <3>2 DEF ReadItem, ItemOps, EntryOps
  <2>8. ASSUME NEW op \in EntryOps, NEW e \in Entry, ReadEntry(r, op, e)
        PROVE  /\ job'[r].item[1] = project[job'[r].row].quote
               /\ job'[r].item = entry[job'[r].entry].item
               /\ job'[r].qty = qty[job'[r].item]
    <3> DEFINE j == [NoJob EXCEPT !.op = op, !.row = entry[e].project, !.entry = e,
                                  !.item = entry[e].item, !.qty = qty[entry[e].item],
                                  !.worker = entry[e].worker]
    <3>1. /\ entry[e].project \in Project
          /\ entry[e].item \in Item
          /\ entry[e].worker \in Worker \cup {None}
          /\ entry[e].item[1] = project[entry[e].project].quote
      BY <1>0, <2>8 DEF ReadEntry, RowsBelong, TypeOK, EntryType, IInv,
                        LedgerHangsTogether, LiveEntries
    <3>2. qty[entry[e].item] \in 0..MaxQty
      BY <1>0, <3>1 DEF TypeOK
    <3>3. /\ j \in JobType /\ j.op = op /\ j.row = entry[e].project /\ j.entry = e
          /\ j.item = entry[e].item /\ j.qty = qty[entry[e].item]
      BY <3>1, <3>2, NoJobType DEF JobType, Row, AllOps, NoJob
    <3> QED BY <2>2, <2>8, <3>1, <3>3 DEF ReadEntry
  <2> QED BY <1>1, <2>1, <2>4, <2>5, <2>6, <2>7, <2>8 DEF Read, OfTheProject
<1>2. CASE ~Read(r)
  <2>1. /\ Busy(r)
        /\ job'[r].op = job[r].op
        /\ job'[r].row = job[r].row
        /\ job'[r].item = job[r].item
        /\ job'[r].entry = job[r].entry
        /\ job'[r].qty = job[r].qty
    BY <1>2, JobSteps
  <2>2. MakesSense(job[r])
    BY <2>1 DEF IInv, JobsMakeSense
  <2>3. job[r].op \in ItemOps \cup EntryOps =>
          /\ job[r].row \in Project /\ project[job[r].row].status # "new"
          /\ job[r].item \in Item
    <3>1. job[r].op \in ItemOps \cup EntryOps => job[r].row \in Project
      BY <2>2 DEF MakesSense, QuoteOps, ItemOps, EntryOps
    <3>2. job[r].row \in Project => project[job[r].row].status # "new"
      BY <1>0, <2>2, RowStatusType DEF MakesSense, Row
    <3> QED BY <2>2, <3>1, <3>2 DEF MakesSense
  <2>4. job[r].op \in ItemOps \cup EntryOps =>
          project'[job[r].row].quote = project[job[r].row].quote
    BY <1>0, <2>3 DEF RowsStay
  <2>5. job[r].op \in EntryOps => entry'[job[r].entry].item = entry[job[r].entry].item
    BY <1>0, <2>2 DEF RowsStay, MakesSense
  <2>6. job[r].op \in ItemOps \cup EntryOps /\ OfTheProject(job[r]) =>
          qty'[job[r].item] = qty[job[r].item]
    BY <2>3, QtyStays DEF OfTheProject
  <2> QED BY <2>1, <2>4, <2>5, <2>6 DEF JobsKnow, OfTheProject
<1> QED BY <1>1, <1>2

\* A request that holds its row has just taken it, or is where it was.
LEMMA LockedSteps ==
  ASSUME IInv, counted \in [Req -> Int], Next, NEW r \in Req, pc'[r] = "locked"
  PROVE  \/ LockRow(r)
         \/ pc[r] = "locked" /\ counted'[r] = counted[r] /\ job'[r] = job[r]
<1> DEFINE Kept == pc[r] = "locked" /\ counted'[r] = counted[r] /\ job'[r] = job[r]
<1>0. TypeOK
  BY DEF IInv
<1>1. ASSUME NEW r0 \in Req, NEW d, Commit(r0, d) PROVE Kept
  BY <1>0, <1>1 DEF Commit, Forget, TypeOK
<1>2. ASSUME NEW r0 \in Req, Rollback(r0) \/ Die(r0) \/ DropFiles(r0) PROVE Kept
  BY <1>0, <1>2 DEF Rollback, Die, DropFiles, Forget, TypeOK
<1>3. ASSUME NEW r0 \in Req, Read(r0) PROVE Kept
  <2>1. PICK j \in JobType : Begin(r0, j)
    BY <1>3, ReadBegins
  <2> QED BY <1>0, <2>1 DEF Begin, TypeOK
<1>4. ASSUME NEW r0 \in Req, LockRow(r0), r0 # r PROVE Kept
  BY <1>0, <1>4 DEF LockRow, TypeOK
<1>5. ASSUME NEW r0 \in Req, NEW f \in Photo, StorePhoto(r0, f) PROVE Kept
  BY <1>0, <1>5 DEF StorePhoto, TypeOK
<1>6. ASSUME UNCHANGED <<pc, job, counted>> PROVE Kept
  BY <1>6
<1>7. ASSUME NEW r0 \in Req, Write(r0) PROVE Kept
  <2>1. (\E d : Commit(r0, d)) \/ \E f \in Photo : StorePhoto(r0, f)
    BY <1>7 DEF Write, UpdateQuote, DeleteQuote, StartProject, FinalizeProject,
       RegisterProgress, UpdateProgress, DeleteProgress, AddEvidence, DeleteEvidence,
       RegisterPayment, AssignService
  <2> QED BY <1>1, <1>5, <2>1
<1> QED BY <1>2, <1>3, <1>4, <1>6, <1>7
        DEF Next, CreateQuote, DeleteAssignment, SetWorkerServices

\* The project a request holds has started.
LEMMA HeldProject ==
  ASSUME IInv, NEW r \in Req, pc[r] = "locked", job[r].row \in Project
  PROVE  project[job[r].row].status # "new"
<1>1. RowStatus(job[r].row) # "new"
  BY DEF IInv, JobsMakeSense, MakesSense, Busy
<1> QED BY <1>1, RowStatusType DEF IInv, Row

\* While a request holds a project, no entry of it moves.
LEMMA HeldEntries ==
  ASSUME IInv, Next, NEW r \in Req, pc[r] = "locked", pc'[r] = "locked",
         NEW p \in Project, job[r].row = p, NEW e \in Entry, entry'[e] # entry[e]
  PROVE  entry'[e].project # p /\ (entry[e].st # "new" => entry[e].project # p)
<1>1. PICK r0 \in Req :
            /\ pc[r0] = "locked" /\ pc'[r0] # "locked"
            /\ job[r0].row = entry'[e].project
            /\ entry[e].st # "new" => job[r0].row = entry[e].project
  BY EntryWriter
<1>2. job[r0].row # p
  BY <1>1, OneHolder
<1> QED BY <1>1, <1>2

\* An entry that counts for an item is of the project of the item's quote.
LEMMA CountsForProject ==
  ASSUME IInv, NEW i \in Item, NEW e \in Entry, Counts(e, i),
         NEW p \in Project, project[p].status # "new", i[1] = project[p].quote
  PROVE  entry[e].project = p
<1>1. /\ entry[e].project \in Project
      /\ project[entry[e].project].status # "new"
      /\ entry[e].item[1] = project[entry[e].project].quote
  BY DEF Counts, IInv, RowsBelong, LedgerHangsTogether, LiveEntries
<1> QED BY <1>1, ProjectOfItem DEF Counts

\* Nor is more of its items recorded or taken back.
LEMMA HeldProgress ==
  ASSUME IInv, Next, NEW r \in Req, pc[r] = "locked", pc'[r] = "locked",
         NEW p \in Project, job[r].row = p, NEW i \in Item, i[1] = project[p].quote,
         NEW except
  PROVE  Advanced(i, except)' = Advanced(i, except)
<1>0. IInv' /\ RowsStay
  BY NextIInv, NextRowsStay
<1>1. project[p].status # "new"
  BY HeldProject
<1>2. project'[p].status # "new" /\ i[1] = project'[p].quote
  BY <1>0, <1>1 DEF RowsStay
<1>3. ASSUME NEW e \in Entry, entry'[e] # entry[e] PROVE ~Counts(e, i) /\ ~Counts(e, i)'
  <2>1. entry'[e].project # p /\ (entry[e].st # "new" => entry[e].project # p)
    BY <1>3, HeldEntries
  <2>2. ~Counts(e, i)
    BY <1>1, <2>1, CountsForProject DEF Counts
  <2>3. Counts(e, i)' => entry'[e].project = p
    <3>1. Counts(e, i)' =>
            /\ entry'[e].project \in Project
            /\ project'[entry'[e].project].status # "new"
            /\ entry'[e].item[1] = project'[entry'[e].project].quote
      BY <1>0 DEF Counts, IInv, RowsBelong, LedgerHangsTogether, LiveEntries
    <3>2. \A p2 \in Project : project'[p2].status # "new" /\ project'[p2].quote = i[1] => p2 = p
      BY <1>0, <1>2 DEF IInv, OneProject, ProjectsOf, RowsBelong
    <3> QED BY <3>1, <3>2 DEF Counts
  <2> QED BY <2>1, <2>2, <2>3
<1> QED BY <1>0, <1>3, AdvancedKept DEF IInv

\* Nor more of them handed out.
LEMMA HeldHandOuts ==
  ASSUME IInv, Next, NEW r \in Req, pc[r] = "locked", pc'[r] = "locked",
         NEW p \in Project, job[r].row = p, NEW i \in Item, i[1] = project[p].quote,
         NEW except
  PROVE  Handed(i, except)' \in Nat /\ Handed(i, except)' <= Handed(i, except)
<1>1. ASSUME NEW w \in Worker, ~(share'[i][w].n <= share[i][w].n) PROVE FALSE
  <2>1. PICK r0 \in Req :
            /\ pc[r0] = "locked" /\ pc'[r0] # "locked"
            /\ job[r0].op = "assign_service" /\ OfTheProject(job[r0])
            /\ job[r0].item = i
    BY <1>1, ShareWriter
  <2>2. job[r0].row \in Project
    BY <2>1 DEF IInv, JobsMakeSense, MakesSense, Busy, QuoteOps
  <2>3. job[r0].row = p
    BY <2>1, <2>2, HeldProject, ProjectOfItem DEF OfTheProject
  <2> QED BY <2>1, <2>3, OneHolder
<1> QED BY <1>1, HandedFalls, NextIInv DEF IInv

\* Who pays holds the project.
LEMMA PaymentSteps ==
  ASSUME IInv, Next, NEW p \in Project, payments'[p] # payments[p]
  PROVE  \E r \in Req, amount \in 1..MaxAmount :
           /\ RegisterPayment(r, amount) /\ job[r].row = p
           /\ pc[r] = "locked" /\ pc'[r] # "locked"
<1>0. TypeOK
  BY DEF IInv
<1>1. ASSUME NEW r \in Req, NEW amount \in 0..MaxAmount, RegisterPayment(r, amount)
      PROVE  /\ amount \in 1..MaxAmount /\ job[r].row = p
             /\ pc[r] = "locked" /\ pc'[r] # "locked"
  <2>1. amount \in 1..MaxAmount
    BY <1>1, ItemsAssumption DEF RegisterPayment, Positive
  <2>2. pc[r] = "locked" /\ pc'[r] # "locked"
    BY <1>0, <1>1, CommitLeaves DEF RegisterPayment, Doing
  <2>3. job[r].row = p
    BY <1>0, <1>1 DEF RegisterPayment, TypeOK
  <2> QED BY <2>1, <2>2, <2>3
<1>2. ASSUME NEW r \in Req, Write(r),
             ~\E amount \in 0..MaxAmount : RegisterPayment(r, amount)
      PROVE  payments' = payments
  BY <1>2 DEF Write, UpdateQuote, DeleteQuote, StartProject, FinalizeProject,
              RegisterProgress, UpdateProgress, DeleteProgress, StorePhoto, AddEvidence,
              DeleteEvidence, AssignService
<1>3. ASSUME NEW r \in Req, Read(r) \/ LockRow(r) \/ Rollback(r) \/ Die(r) \/ DropFiles(r)
      PROVE  payments' = payments
  BY <1>3, NoData DEF data, DropFiles
<1> QED BY <1>1, <1>2, <1>3 DEF Next, CreateQuote, DeleteAssignment, SetWorkerServices

\* What a project is owed is a number, and depends on its entries and payments.
LEMMA BalanceKept ==
  ASSUME NEW p \in Project, payments'[p] = payments[p],
         \A e \in Entry : entry'[e] # entry[e] =>
                            e \notin EntriesOf(p) /\ e \notin EntriesOf(p)'
  PROVE  PendingBalance(p)' = PendingBalance(p)
<1>1. TotalPaid(p)' = TotalPaid(p)
  BY DEF TotalPaid
<1>2. \A e : e \in EntriesOf(p)' <=> e \in EntriesOf(p)
  BY DEF EntriesOf, LiveEntries
<1>3. EntriesOf(p)' = EntriesOf(p)
  BY <1>2
<1>4. \A e \in EntriesOf(p) : entry'[e] = entry[e]
  BY DEF EntriesOf, LiveEntries
<1>5. [e \in EntriesOf(p) |-> entry[e].n * UnitPrice[entry[e].item[2]]]'
        = [e \in EntriesOf(p) |-> entry[e].n * UnitPrice[entry[e].item[2]]]
  BY <1>3, <1>4
<1>6. AdvancedValue(p)' = AdvancedValue(p)
  BY <1>5, Zenon DEF AdvancedValue
<1> QED BY <1>1, <1>6 DEF PendingBalance

LEMMA HeldBalance ==
  ASSUME IInv, Next, NEW r \in Req, pc[r] = "locked", pc'[r] = "locked",
         NEW p \in Project, job[r].row = p
  PROVE  PendingBalance(p)' = PendingBalance(p)
<1>1. payments'[p] = payments[p]
  BY PaymentSteps, OneHolder
<1>2. \A e \in Entry : entry'[e] # entry[e] =>
                         e \notin EntriesOf(p) /\ e \notin EntriesOf(p)'
  BY HeldEntries DEF EntriesOf, LiveEntries
<1> QED BY <1>1, <1>2, BalanceKept

-----------------------------------------------------------------------------
(* The totals, step by step. *)

\* What the entries of a project are worth.
LEMMA WorthType ==
  IInv => \A p \in Project :
            /\ IsFiniteSet(EntriesOf(p))
            /\ \A e \in EntriesOf(p) : entry[e].n * UnitPrice[entry[e].item[2]] \in Nat
<1> SUFFICES ASSUME IInv, NEW p \in Project
             PROVE  /\ IsFiniteSet(EntriesOf(p))
                    /\ \A e \in EntriesOf(p) :
                         entry[e].n * UnitPrice[entry[e].item[2]] \in Nat
  OBVIOUS
<1>1. IsFiniteSet(EntriesOf(p))
  BY FS_Subset, ConstantsAssumption DEF EntriesOf, LiveEntries
<1>2. ASSUME NEW e \in EntriesOf(p)
      PROVE  entry[e].n * UnitPrice[entry[e].item[2]] \in Nat
  <2>1. entry[e].item \in Item /\ entry[e].n \in 0..MaxQty
    BY DEF EntriesOf, LiveEntries, IInv, RowsBelong, TypeOK, EntryType
  <2>2. entry[e].item[2] \in Line
    BY <2>1 DEF Item
  <2>3. entry[e].n \in Nat /\ UnitPrice[entry[e].item[2]] \in Nat
    BY <2>1, <2>2, ItemsAssumption
  <2>4. \A a, b \in Nat : a * b \in Nat
    OBVIOUS
  <2> QED BY <2>3, <2>4
<1> QED BY <1>1, <1>2

\* What a project's work is worth, and what was paid for it.
LEMMA BalanceType ==
  ASSUME IInv, NEW p \in Project
  PROVE  /\ AdvancedValue(p) \in Nat /\ TotalPaid(p) \in Nat
         /\ PendingBalance(p) \in Int
<1>1. AdvancedValue(p) \in Nat
  <2> DEFINE f == [e \in EntriesOf(p) |-> entry[e].n * UnitPrice[entry[e].item[2]]]
  <2>1. IsFiniteSet(EntriesOf(p)) /\ \A e \in EntriesOf(p) : f[e] \in Nat
    BY WorthType
  <2>2. AdvancedValue(p) = SumFunctionOnSet(f, EntriesOf(p))
    BY DEF AdvancedValue, SumFunction
  <2> HIDE DEF f
  <2> QED BY <2>1, <2>2, SumNat
<1>2. TotalPaid(p) \in Nat
  <2>1. payments[p] \in Seq(1..MaxAmount)
    BY DEF IInv, TypeOK
  <2>2. DOMAIN payments[p] = 1..Len(payments[p]) /\ Len(payments[p]) \in Nat
    BY <2>1
  <2>3. IsFiniteSet(DOMAIN payments[p])
    <3>1. \A k \in Nat : IsFiniteSet(1..k)
      BY FS_Interval
    <3>2. IsFiniteSet(1..Len(payments[p]))
      BY <2>2, <3>1
    <3> QED BY <2>2, <3>2, Zenon
  <2>4. \A k \in DOMAIN payments[p] : payments[p][k] \in Nat
    BY <2>1, <2>2, ItemsAssumption
  <2>5. TotalPaid(p) = SumFunctionOnSet(payments[p], DOMAIN payments[p])
    BY DEF TotalPaid, SumFunction
  <2> QED BY <2>3, <2>4, <2>5, SumNat
<1> QED BY <1>1, <1>2 DEF PendingBalance

\* A request counts a number, the one its service goes by.
LEMMA CountIs ==
  ASSUME IInv, JobsKnow, NEW r \in Req, Busy(r)
  PROVE  /\ Count(job[r]) \in Int
         /\ \A i \in Item :
              /\ job[r].op = "register_progress" /\ OfTheProject(job[r]) /\ job[r].item = i
              => Count(job[r]) + Advanced(i, {}) = qty[i]
         /\ \A i \in Item, e \in Entry :
              /\ job[r].op = "update_progress" /\ job[r].item = i /\ job[r].entry = e
              => Count(job[r]) + Advanced(i, {e}) = qty[i]
         /\ \A i \in Item, w \in Worker :
              /\ job[r].op = "assign_service" /\ OfTheProject(job[r])
              /\ job[r].item = i /\ job[r].worker = w
              => Count(job[r]) + Handed(i, {w}) = qty[i]
         /\ \A p \in Project :
              job[r].op = "finalize_project" /\ job[r].row = p =>
              Count(job[r]) = PendingBalance(p)
<1>0. TypeOK /\ job[r] \in JobType /\ MakesSense(job[r])
  BY DEF IInv, TypeOK, JobsMakeSense
<1>1. /\ job[r].qty \in Int
      /\ \A i \in Item : qty[i] \in Int
  BY <1>0, ItemsAssumption DEF TypeOK, JobType
<1>2. ASSUME NEW i \in Item, job[r].op = "register_progress", job[r].item = i
      PROVE  /\ Count(job[r]) \in Int
             /\ OfTheProject(job[r]) => Count(job[r]) + Advanced(i, {}) = qty[i]
  <2>1. Count(job[r]) = job[r].qty - Advanced(i, {})
    BY <1>2 DEF Count
  <2>2. OfTheProject(job[r]) => job[r].qty = qty[i]
    BY <1>2 DEF JobsKnow, ItemOps
  <2>3. Advanced(i, {}) \in Int
    BY <1>0, AdvancedIs
  <2> QED BY <1>1, <2>1, <2>2, <2>3
<1>3. ASSUME NEW i \in Item, NEW e \in Entry, job[r].op = "update_progress",
             job[r].item = i, job[r].entry = e
      PROVE  Count(job[r]) \in Int /\ Count(job[r]) + Advanced(i, {e}) = qty[i]
  <2>1. Count(job[r]) = job[r].qty - Advanced(i, {e})
    BY <1>3 DEF Count
  <2>2. job[r].qty = qty[i]
    BY <1>3 DEF JobsKnow, EntryOps
  <2>3. Advanced(i, {e}) \in Int
    BY <1>0, AdvancedIs
  <2> QED BY <1>1, <2>1, <2>2, <2>3
<1>4. ASSUME NEW i \in Item, NEW w \in Worker, job[r].op = "assign_service",
             job[r].item = i, job[r].worker = w
      PROVE  /\ Count(job[r]) \in Int
             /\ OfTheProject(job[r]) => Count(job[r]) + Handed(i, {w}) = qty[i]
  <2>1. Count(job[r]) = job[r].qty - Handed(i, {w})
    BY <1>4 DEF Count
  <2>2. OfTheProject(job[r]) => job[r].qty = qty[i]
    BY <1>4 DEF JobsKnow, ItemOps
  <2>3. Handed(i, {w}) \in Nat
    BY <1>0, HandedIs
  <2> QED BY <1>1, <2>1, <2>2, <2>3
<1>5. ASSUME NEW p \in Project, job[r].op = "finalize_project", job[r].row = p
      PROVE  Count(job[r]) \in Int /\ Count(job[r]) = PendingBalance(p)
  BY <1>5, BalanceType DEF Count
<1>6. Count(job[r]) \in Int
  <2>1. /\ job[r].op \in {"register_progress", "update_progress", "assign_service"} =>
             job[r].item \in Item
        /\ job[r].op = "update_progress" => job[r].entry \in Entry
        /\ job[r].op = "assign_service" => job[r].worker \in Worker
        /\ job[r].op = "finalize_project" => job[r].row \in Project
    BY <1>0 DEF MakesSense, ItemOps, EntryOps, QuoteOps
  <2>2. CASE job[r].op \notin {"register_progress", "update_progress", "assign_service",
                              "finalize_project"}
    BY <2>2 DEF Count
  <2> QED BY <1>2, <1>3, <1>4, <1>5, <2>1, <2>2
<1> QED BY <1>2, <1>3, <1>4, <1>5, <1>6

LEMMA NextCounted ==
  ASSUME IInv, JobsKnow, counted \in [Req -> Int], Next PROVE counted' \in [Req -> Int]
<1>1. ASSUME NEW r \in Req, NEW d, Commit(r, d) PROVE counted' \in [Req -> Int]
  BY <1>1 DEF Commit, Forget
<1>2. ASSUME NEW r \in Req, Write(r) PROVE counted' \in [Req -> Int]
  <2>1. (\E d : Commit(r, d)) \/ \E f \in Photo : StorePhoto(r, f)
    BY <1>2 DEF Write, UpdateQuote, DeleteQuote, StartProject, FinalizeProject,
       RegisterProgress, UpdateProgress, DeleteProgress, AddEvidence, DeleteEvidence,
       RegisterPayment, AssignService
  <2> QED BY <1>1, <2>1 DEF StorePhoto
<1>3. ASSUME NEW r \in Req, LockRow(r) PROVE counted' \in [Req -> Int]
  <2>1. Count(job[r]) \in Int
    BY <1>3, CountIs DEF LockRow, Busy
  <2> QED BY <1>3, <2>1 DEF LockRow
<1>4. ASSUME NEW r \in Req, Read(r) PROVE counted' \in [Req -> Int]
  <2>1. PICK j \in JobType : Begin(r, j)
    BY <1>4, ReadBegins
  <2> QED BY <2>1 DEF Begin
<1>5. ASSUME NEW r \in Req, Rollback(r) \/ Die(r) \/ DropFiles(r)
      PROVE  counted' \in [Req -> Int]
  BY <1>5 DEF Rollback, Die, DropFiles, Forget
<1> QED BY <1>2, <1>3, <1>4, <1>5 DEF Next, CreateQuote, DeleteAssignment, SetWorkerServices

\* What was just counted holds.
LEMMA LockCountsHold ==
  ASSUME IInv, JobsKnow, counted \in [Req -> Int], NEW r \in Req, LockRow(r)
  PROVE  /\ \A i \in Item :
              /\ job'[r].op = "register_progress" /\ OfTheProject(job[r])' /\ job'[r].item = i
              => counted'[r] + Advanced(i, {})' <= qty'[i]
         /\ \A i \in Item, e \in Entry :
              /\ job'[r].op = "update_progress" /\ job'[r].item = i /\ job'[r].entry = e
              => counted'[r] + Advanced(i, {e})' <= qty'[i]
         /\ \A i \in Item, w \in Worker :
              /\ job'[r].op = "assign_service" /\ OfTheProject(job[r])'
              /\ job'[r].item = i /\ job'[r].worker = w
              => counted'[r] + Handed(i, {w})' <= qty'[i]
         /\ \A p \in Project :
              job'[r].op = "finalize_project" /\ job'[r].row = p =>
              counted'[r] = PendingBalance(p)'
<1>0. TypeOK /\ UNCHANGED data /\ Busy(r) /\ counted'[r] = Count(job[r])
  BY NoData DEF IInv, LockRow, Busy
<1>1. /\ job'[r].op = job[r].op /\ job'[r].item = job[r].item /\ job'[r].entry = job[r].entry
      /\ job'[r].worker = job[r].worker /\ job'[r].row = job[r].row
  BY <1>0 DEF LockRow, TypeOK, JobType
<1>2. \A i \in Item : qty'[i] = qty[i] /\ qty[i] \in Int
  BY <1>0, ItemsAssumption DEF data, TypeOK
<1>3. OfTheProject(job[r])' = OfTheProject(job[r])
  BY <1>0, <1>1 DEF OfTheProject, data
<1>4. ASSUME NEW i \in Item, NEW except
      PROVE  Advanced(i, except)' = Advanced(i, except) /\ Handed(i, except)' = Handed(i, except)
  BY <1>0 DEF Advanced, Handed, LiveEntries, data
<1>5. ASSUME NEW p \in Project PROVE PendingBalance(p)' = PendingBalance(p)
  BY <1>0, BalanceKept DEF data
<1>6. ASSUME NEW i \in Item, job'[r].op = "register_progress", OfTheProject(job[r])',
             job'[r].item = i
      PROVE  counted'[r] + Advanced(i, {})' <= qty'[i]
  <2>1. Count(job[r]) + Advanced(i, {}) = qty[i]
    BY <1>0, <1>1, <1>3, <1>6, CountIs
  <2> QED BY <1>0, <1>2, <1>4, <2>1
<1>7. ASSUME NEW i \in Item, NEW e \in Entry, job'[r].op = "update_progress",
             job'[r].item = i, job'[r].entry = e
      PROVE  counted'[r] + Advanced(i, {e})' <= qty'[i]
  <2>1. Count(job[r]) + Advanced(i, {e}) = qty[i]
    BY <1>0, <1>1, <1>7, CountIs
  <2>2. Advanced(i, {e})' = Advanced(i, {e})
    BY <1>4
  <2> QED BY <1>0, <1>2, <2>1, <2>2
<1>8. ASSUME NEW i \in Item, NEW w \in Worker, job'[r].op = "assign_service",
             OfTheProject(job[r])', job'[r].item = i, job'[r].worker = w
      PROVE  counted'[r] + Handed(i, {w})' <= qty'[i]
  <2>1. Count(job[r]) + Handed(i, {w}) = qty[i]
    BY <1>0, <1>1, <1>3, <1>8, CountIs
  <2>2. Handed(i, {w})' = Handed(i, {w})
    BY <1>4
  <2> QED BY <1>0, <1>2, <2>1, <2>2
<1>9. ASSUME NEW p \in Project, job'[r].op = "finalize_project", job'[r].row = p
      PROVE  counted'[r] = PendingBalance(p)'
  BY <1>0, <1>1, <1>5, <1>9, CountIs
<1> QED BY <1>6, <1>7, <1>8, <1>9

\* What was counted before a step of another request holds after it.
LEMMA KeptCountsHold ==
  ASSUME IInv, JobsKnow, CountsHold, counted \in [Req -> Int], Next,
         NEW r \in Req, pc[r] = "locked", pc'[r] = "locked",
         counted'[r] = counted[r], job'[r] = job[r]
  PROVE  /\ \A i \in Item :
              /\ job'[r].op = "register_progress" /\ OfTheProject(job[r])' /\ job'[r].item = i
              => counted'[r] + Advanced(i, {})' <= qty'[i]
         /\ \A i \in Item, e \in Entry :
              /\ job'[r].op = "update_progress" /\ job'[r].item = i /\ job'[r].entry = e
              => counted'[r] + Advanced(i, {e})' <= qty'[i]
         /\ \A i \in Item, w \in Worker :
              /\ job'[r].op = "assign_service" /\ OfTheProject(job[r])'
              /\ job'[r].item = i /\ job'[r].worker = w
              => counted'[r] + Handed(i, {w})' <= qty'[i]
         /\ \A p \in Project :
              job'[r].op = "finalize_project" /\ job'[r].row = p =>
              counted'[r] = PendingBalance(p)'
<1>0. TypeOK /\ TypeOK' /\ RowsStay /\ counted[r] \in Int
  BY NextIInv, NextRowsStay DEF IInv
<1>1. job[r].op \notin QuoteOps =>
        job[r].row \in Project /\ project[job[r].row].status # "new"
  BY HeldProject DEF IInv, JobsMakeSense, MakesSense, Busy
<1>2. ASSUME job[r].op \notin QuoteOps PROVE OfTheProject(job[r])' = OfTheProject(job[r])
  BY <1>0, <1>1, <1>2 DEF OfTheProject, RowsStay
<1>3. ASSUME job[r].op \notin QuoteOps, NEW i \in Item, job[r].item = i,
             OfTheProject(job[r])
      PROVE  /\ qty'[i] = qty[i] /\ qty[i] \in Int
             /\ i[1] = project[job[r].row].quote
  <2>1. i[1] = project[job[r].row].quote /\ qty[i] \in Int
    BY <1>0, <1>3, ItemsAssumption DEF OfTheProject, TypeOK
  <2> QED BY <1>1, <1>3, <2>1, QtyStays
<1>4. ASSUME NEW i \in Item, job'[r].op = "register_progress", OfTheProject(job[r])',
             job'[r].item = i
      PROVE  counted'[r] + Advanced(i, {})' <= qty'[i]
  <2>1. job[r].op \notin QuoteOps /\ OfTheProject(job[r]) /\ job[r].item = i
    BY <1>2, <1>4 DEF QuoteOps
  <2>2. counted[r] + Advanced(i, {}) <= qty[i]
    BY <1>4, <2>1 DEF CountsHold
  <2>3. Advanced(i, {})' = Advanced(i, {})
    BY <1>1, <1>3, <2>1, HeldProgress
  <2> QED BY <1>3, <2>1, <2>2, <2>3
<1>5. ASSUME NEW i \in Item, NEW e \in Entry, job'[r].op = "update_progress",
             job'[r].item = i, job'[r].entry = e
      PROVE  counted'[r] + Advanced(i, {e})' <= qty'[i]
  <2>1. job[r].op \notin QuoteOps /\ OfTheProject(job[r]) /\ job[r].item = i
    BY <1>5 DEF QuoteOps, EntryOps, JobsKnow, Busy
  <2>2. counted[r] + Advanced(i, {e}) <= qty[i]
    BY <1>5, <2>1 DEF CountsHold
  <2>3. Advanced(i, {e})' = Advanced(i, {e})
    BY <1>1, <1>3, <2>1, HeldProgress
  <2> QED BY <1>3, <2>1, <2>2, <2>3
<1>6. ASSUME NEW i \in Item, NEW w \in Worker, job'[r].op = "assign_service",
             OfTheProject(job[r])', job'[r].item = i, job'[r].worker = w
      PROVE  counted'[r] + Handed(i, {w})' <= qty'[i]
  <2>1. job[r].op \notin QuoteOps /\ OfTheProject(job[r]) /\ job[r].item = i
    BY <1>2, <1>6 DEF QuoteOps
  <2>2. counted[r] + Handed(i, {w}) <= qty[i]
    BY <1>6, <2>1 DEF CountsHold
  <2>3. Handed(i, {w})' \in Nat /\ Handed(i, {w})' <= Handed(i, {w})
    BY <1>1, <1>3, <2>1, HeldHandOuts
  <2>4. Handed(i, {w}) \in Nat
    BY <1>0, HandedIs
  <2> QED BY <1>0, <1>3, <2>1, <2>2, <2>3, <2>4
<1>7. ASSUME NEW p \in Project, job'[r].op = "finalize_project", job'[r].row = p
      PROVE  counted'[r] = PendingBalance(p)'
  <2>1. counted[r] = PendingBalance(p)
    BY <1>7 DEF CountsHold
  <2> QED BY <1>7, <2>1, HeldBalance
<1> QED BY <1>4, <1>5, <1>6, <1>7

LEMMA NextCountsHold ==
  ASSUME IInv, JobsKnow, CountsHold, counted \in [Req -> Int], Next PROVE CountsHold'
<1>1. ASSUME NEW r \in Req, pc'[r] = "locked"
      PROVE  \/ LockRow(r)
             \/ pc[r] = "locked" /\ counted'[r] = counted[r] /\ job'[r] = job[r]
  BY <1>1, LockedSteps
<1> QED BY <1>1, LockCountsHold, KeptCountsHold DEF CountsHold

\* Step lemmas about the state after a step.
LEMMA AdvancedSplitNext ==
  (\A i \in Item, e \in Entry :
     TypeOK => /\ Advanced(i, {}) = Advanced(i, {e}) + Adds(e, i)
               /\ Advanced(i, {e}) \in Nat /\ Advanced(i, {}) \in Nat)'
<1>1. \A i \in Item, e \in Entry :
        TypeOK => /\ Advanced(i, {}) = Advanced(i, {e}) + Adds(e, i)
                  /\ Advanced(i, {e}) \in Nat /\ Advanced(i, {}) \in Nat
  BY AdvancedSplit, AdvancedIs
<1> QED BY <1>1, PTL

LEMMA HandedSplitNext ==
  (\A i \in Item, w \in Worker :
     TypeOK => /\ Handed(i, {}) = Handed(i, {w}) + share[i][w].n
               /\ Handed(i, {w}) \in Nat /\ Handed(i, {}) \in Nat)'
<1>1. \A i \in Item, w \in Worker :
        TypeOK => /\ Handed(i, {}) = Handed(i, {w}) + share[i][w].n
                  /\ Handed(i, {w}) \in Nat /\ Handed(i, {}) \in Nat
  BY HandedSplit, HandedIs
<1> QED BY <1>1, PTL

\* When one entry moves at most, the item's progress moves with it.
LEMMA OneEntryMoves ==
  ASSUME IInv, Next, NEW i \in Item, NEW e \in Entry,
         \A x \in Entry \ {e} : entry'[x] = entry[x]
  PROVE  /\ Advanced(i, {}) = Advanced(i, {e}) + Adds(e, i)
         /\ Advanced(i, {})' = Advanced(i, {e}) + Adds(e, i)'
         /\ Advanced(i, {e}) \in Nat /\ Adds(e, i) \in Nat /\ Adds(e, i)' \in Nat
<1>0. TypeOK /\ TypeOK'
  BY NextIInv DEF IInv
<1>1. Advanced(i, {}) = Advanced(i, {e}) + Adds(e, i) /\ Advanced(i, {e}) \in Nat
  BY <1>0, AdvancedSplit, AdvancedIs
<1>2. Advanced(i, {})' = Advanced(i, {e})' + Adds(e, i)'
  BY <1>0, AdvancedSplitNext
<1>3. Advanced(i, {e})' = Advanced(i, {e})
  BY <1>0, AdvancedKept
<1>4. Adds(e, i) \in Nat /\ Adds(e, i)' \in Nat
  BY <1>0, ItemsAssumption DEF Adds, TypeOK, EntryType
<1> QED BY <1>1, <1>2, <1>3, <1>4

\* When one share moves at most, what is handed out of its item moves with it.
LEMMA OneShareMoves ==
  ASSUME IInv, Next, NEW i \in Item, NEW w \in Worker,
         \A x \in Worker \ {w} : share'[i][x] = share[i][x]
  PROVE  /\ Handed(i, {}) = Handed(i, {w}) + share[i][w].n
         /\ Handed(i, {})' = Handed(i, {w}) + share'[i][w].n
         /\ Handed(i, {w}) \in Nat /\ share[i][w].n \in Nat /\ share'[i][w].n \in Nat
<1>0. TypeOK /\ TypeOK'
  BY NextIInv DEF IInv
<1>1. Handed(i, {}) = Handed(i, {w}) + share[i][w].n /\ Handed(i, {w}) \in Nat
  BY <1>0, HandedSplit, HandedIs
<1>2. Handed(i, {})' = Handed(i, {w})' + share'[i][w].n
  BY <1>0, HandedSplitNext
<1>3. Handed(i, {w})' = Handed(i, {w})
  <2> DEFINE f == [x \in Worker |-> share[i][x].n]
             g == [x \in Worker |-> share'[i][x].n]
  <2>1. IsFiniteSet(Worker \ {w})
    BY <1>0, HandedIs
  <2>2. \A x \in Worker \ {w} : f[x] = g[x]
    OBVIOUS
  <2>3. SumFunctionOnSet(f, Worker \ {w}) = SumFunctionOnSet(g, Worker \ {w})
    <3> HIDE DEF f, g
    <3> QED BY <2>1, <2>2, SumSame
  <2> QED BY <2>3 DEF Handed
<1>4. share[i][w].n \in Nat /\ share'[i][w].n \in Nat
  BY <1>0, ItemsAssumption DEF TypeOK
<1> QED BY <1>1, <1>2, <1>3, <1>4

\* Nothing is recorded or handed out of a quote that is not in a project.
LEMMA FreshItem ==
  ASSUME IInv, NEW i \in Item, quoteStatus[i[1]] # "in_project"
  PROVE  Advanced(i, {}) = 0 /\ Handed(i, {}) = 0
<1>1. i[1] \in Quote /\ ProjectsOf(i[1]) = {}
  BY DEF IInv, OneProject, Item
<1>2. Advanced(i, {}) = 0
  <2>1. ASSUME NEW e \in Recorded(i, {}) PROVE FALSE
    <3>1. e \in LiveEntries /\ entry[e].item = i
      BY DEF Recorded
    <3>2. /\ entry[e].project \in Project /\ project[entry[e].project].status # "new"
          /\ project[entry[e].project].quote = i[1]
      BY <3>1 DEF IInv, LedgerHangsTogether, RowsBelong, LiveEntries
    <3> QED BY <1>1, <3>2 DEF ProjectsOf
  <2>2. Recorded(i, {}) = {}
    BY <2>1
  <2>3. Advanced(i, {}) = SumFunctionOnSet([e \in Entry |-> entry[e].n], Recorded(i, {}))
    BY DEF Advanced, Recorded
  <2>4. Advanced(i, {}) = SumFunctionOnSet([e \in Entry |-> entry[e].n], {})
    BY <2>2, <2>3, Zenon
  <2> QED BY <2>4, SumOfNothing
<1>3. Handed(i, {}) = 0
  <2>1. \A w \in Worker : share[i][w].n \in Nat
    BY HandedIs DEF IInv
  <2>2. \A w \in Worker : share[i][w].n = 0
    BY <1>1, <2>1 DEF IInv, LedgerHangsTogether
  <2>3. \A w \in Worker \ {} : [x \in Worker |-> share[i][x].n][w] = 0
    BY <2>2
  <2>4. IsFiniteSet(Worker \ {})
    BY HandedIs DEF IInv
  <2> QED BY <2>3, <2>4, SumOfZeros DEF Handed
<1> QED BY <1>2, <1>3

\* Only a draft, or a new quote, changes its lines; no entry or share then moves.
LEMMA QtySteps ==
  ASSUME IInv, Next
  PROVE  \/ qty' = qty
         \/ /\ UNCHANGED <<entry, share>>
            /\ \A i \in Item : qty'[i] = qty[i] \/ quoteStatus[i[1]] # "in_project"
<1>1. ASSUME NEW r \in Req, Write(r)
      PROVE  qty' = qty \/ UNCHANGED <<entry, share>>
  BY <1>1 DEF Write, UpdateQuote, DeleteQuote, StartProject, FinalizeProject,
              RegisterProgress, UpdateProgress, DeleteProgress, StorePhoto, AddEvidence,
              DeleteEvidence, RegisterPayment, AssignService
<1>2. ASSUME NEW r \in Req, Read(r) \/ LockRow(r) \/ Rollback(r) \/ Die(r) \/ DropFiles(r)
      PROVE  qty' = qty
  BY <1>2, NoData DEF data, DropFiles
<1>3. qty' = qty \/ UNCHANGED <<entry, share>>
  BY <1>1, <1>2 DEF Next, CreateQuote, DeleteAssignment, SetWorkerServices
<1>4. ASSUME NEW i \in Item PROVE qty'[i] = qty[i] \/ quoteStatus[i[1]] # "in_project"
  <2>1. PICK q \in Quote, l \in Line : i = <<q, l>>
    BY DEF Item
  <2> QED BY <2>1, NextQuoteFrozen
<1> QED BY <1>3, <1>4

\* The recorded progress of an item goes on fitting.
LEMMA NextProgressFits ==
  ASSUME IInv, JobsKnow, CountsHold, counted \in [Req -> Int], ProgressFits, Next
  PROVE  ProgressFits'
<1> SUFFICES ASSUME NEW i \in Item PROVE Advanced(i, {})' <= qty'[i]
  BY DEF ProgressFits
<1>0. /\ TypeOK /\ TypeOK' /\ Advanced(i, {}) <= qty[i]
      /\ entry \in [Entry -> EntryType]
  BY NextIInv DEF IInv, ProgressFits, TypeOK
<1>1. qty[i] \in Nat /\ qty'[i] \in Nat /\ Advanced(i, {}) \in Nat
  BY <1>0, AdvancedIs, ItemsAssumption DEF TypeOK
<1>2. CASE UNCHANGED entry
  <2>1. Advanced(i, {})' = Advanced(i, {})
    BY <1>2 DEF Advanced, LiveEntries
  <2>2. qty'[i] = qty[i] \/ Advanced(i, {}) = 0
    BY QtySteps, FreshItem
  <2> QED BY <1>0, <1>1, <2>1, <2>2
<1>3. ASSUME NEW r \in Req, NEW e \in Entry, NEW n \in 0..MaxQty, RegisterProgress(r, e, n)
      PROVE  Advanced(i, {})' <= qty'[i]
  <2>1. /\ qty' = qty /\ n <= counted[r] /\ entry[e].st = "new" /\ pc[r] = "locked"
        /\ job[r].op = "register_progress" /\ OfTheProject(job[r])
        /\ \A x \in Entry \ {e} : entry'[x] = entry[x]
        /\ entry'[e].st = "live" /\ entry'[e].item = job[r].item /\ entry'[e].n = n
    BY <1>0, <1>3 DEF RegisterProgress, Doing
  <2>2. /\ Advanced(i, {}) = Advanced(i, {e}) + Adds(e, i)
        /\ Advanced(i, {})' = Advanced(i, {e}) + Adds(e, i)'
        /\ Advanced(i, {e}) \in Nat /\ Adds(e, i) \in Nat /\ Adds(e, i)' \in Nat
    BY <2>1, OneEntryMoves
  <2>3. Adds(e, i) = 0
    BY <2>1 DEF Adds, Counts
  <2>4. CASE job[r].item = i
    <3>1. counted[r] + Advanced(i, {}) <= qty[i] /\ counted[r] \in Int
      BY <2>1, <2>4 DEF CountsHold
    <3>2. Adds(e, i)' = n
      BY <2>1, <2>4 DEF Adds, Counts
    <3> QED BY <1>1, <2>1, <2>2, <2>3, <3>1, <3>2
  <2>5. CASE job[r].item # i
    <3>1. Adds(e, i)' = 0
      BY <2>1, <2>5 DEF Adds, Counts
    <3> QED BY <1>0, <1>1, <2>1, <2>2, <2>3, <3>1
  <2> QED BY <2>4, <2>5
<1>4. ASSUME NEW r \in Req, NEW n \in 0..MaxQty, NEW w \in Worker \cup {None},
             UpdateProgress(r, n, w)
      PROVE  Advanced(i, {})' <= qty'[i]
  <2>1. /\ qty' = qty /\ (n <= counted[r] \/ n = 0) /\ pc[r] = "locked"
        /\ job[r].op = "update_progress"
    BY <1>4 DEF UpdateProgress, Doing
  <2>2. PICK e \in Entry : e = job[r].entry
    BY <2>1 DEF IInv, JobsMakeSense, MakesSense, Busy, EntryOps
  <2>3. /\ entry[e].st = "live" /\ entry'[e].n = CorrectedQty(r, n)
        /\ \A x \in Entry \ {e} : entry'[x] = entry[x]
        /\ entry'[e].item = entry[e].item /\ entry[e].item = job[r].item
    <3>1. \A x \in Entry \ {e} : entry'[x] = entry[x]
      BY <1>0, <1>4, <2>2 DEF UpdateProgress, Save
    <3>2. entry[e].st = "live" /\ entry'[e].n = CorrectedQty(r, n)
      BY <1>4, <2>2, CorrectedFields
    <3>3. entry'[e].item = entry[e].item
      BY <3>2, EntriesStay
    <3>4. entry[e].item = job[r].item
      BY <2>1, <2>2 DEF JobsKnow, EntryOps, Busy
    <3> QED BY <3>1, <3>2, <3>3, <3>4
  <2>4. /\ Advanced(i, {}) = Advanced(i, {e}) + Adds(e, i)
        /\ Advanced(i, {})' = Advanced(i, {e}) + Adds(e, i)'
        /\ Advanced(i, {e}) \in Nat /\ Adds(e, i) \in Nat /\ Adds(e, i)' \in Nat
    BY <2>3, OneEntryMoves
  <2>5. CASE n # 0 /\ job[r].item = i
    <3>1. counted[r] + Advanced(i, {e}) <= qty[i] /\ counted[r] \in Int
      BY <2>1, <2>2, <2>5 DEF CountsHold
    <3>2. Adds(e, i)' = n \/ Adds(e, i)' = 0
      BY <2>3, <2>5 DEF Adds, Counts, CorrectedQty
    <3>3. n \in Nat
      BY ItemsAssumption
    <3> QED BY <1>1, <2>1, <2>4, <2>5, <3>1, <3>2, <3>3
  <2>6. CASE n = 0 \/ job[r].item # i
    <3>1. Adds(e, i)' <= Adds(e, i)
      <4>1. CASE job[r].item # i
        BY <2>3, <4>1 DEF Adds, Counts
      <4>2. CASE n = 0
        <5>1. entry'[e].n = entry[e].n
          BY <2>2, <2>3, <4>2 DEF CorrectedQty
        <5> QED BY <2>3, <2>4, <5>1 DEF Adds, Counts
      <4> QED BY <2>6, <4>1, <4>2
    <3> QED BY <1>0, <1>1, <2>1, <2>4, <3>1
  <2> QED BY <2>5, <2>6
<1>5. ASSUME NEW r \in Req, DeleteProgress(r) PROVE Advanced(i, {})' <= qty'[i]
  <2>1. /\ qty' = qty /\ entry' = [entry EXCEPT ![job[r].entry].st = "gone"]
        /\ pc[r] = "locked" /\ job[r].op = "delete_progress"
    BY <1>5 DEF DeleteProgress, Doing
  <2>2. PICK e \in Entry : e = job[r].entry
    BY <2>1 DEF IInv, JobsMakeSense, MakesSense, Busy, EntryOps
  <2>3. /\ \A x \in Entry \ {e} : entry'[x] = entry[x]
        /\ entry'[e].st = "gone"
    BY <1>0, <2>1, <2>2 DEF EntryType
  <2>4. /\ Advanced(i, {}) = Advanced(i, {e}) + Adds(e, i)
        /\ Advanced(i, {})' = Advanced(i, {e}) + Adds(e, i)'
        /\ Advanced(i, {e}) \in Nat /\ Adds(e, i) \in Nat
    BY <2>3, OneEntryMoves
  <2>5. Adds(e, i)' = 0
    BY <2>3 DEF Adds, Counts
  <2> QED BY <1>0, <1>1, <2>1, <2>4, <2>5
<1> QED BY <1>2, <1>3, <1>4, <1>5, EntrySteps

\* What is handed out of an item goes on fitting.
LEMMA NextHandOutsFit ==
  ASSUME IInv, JobsKnow, CountsHold, counted \in [Req -> Int], HandOutsFit, Next
  PROVE  HandOutsFit'
<1> SUFFICES ASSUME NEW i \in Item PROVE Handed(i, {})' <= qty'[i]
  BY DEF HandOutsFit
<1>0. /\ TypeOK /\ TypeOK' /\ Handed(i, {}) <= qty[i]
      /\ share \in [Item -> [Worker -> [n : 0..MaxQty, price : Price \cup {None}]]]
  BY NextIInv DEF IInv, HandOutsFit, TypeOK
<1>1. qty[i] \in Nat /\ qty'[i] \in Nat /\ Handed(i, {}) \in Nat
  <2>1. Handed(i, {}) \in Nat
    BY <1>0, HandedIs
  <2> QED BY <1>0, <2>1, ItemsAssumption DEF TypeOK
<1>2. ASSUME \A w \in Worker : share'[i][w].n <= share[i][w].n
      PROVE  Handed(i, {})' <= qty'[i]
  <2>1. Handed(i, {})' \in Nat /\ Handed(i, {})' <= Handed(i, {})
    BY <1>0, <1>2, HandedFalls
  <2>2. qty'[i] = qty[i] \/ Handed(i, {}) = 0
    BY QtySteps, FreshItem
  <2> QED BY <1>0, <1>1, <2>1, <2>2
<1>3. ASSUME NEW w \in Worker, ~(share'[i][w].n <= share[i][w].n)
      PROVE  Handed(i, {})' <= qty'[i]
  <2>1. PICK r \in Req, n \in 0..MaxQty, price \in Price \cup {None} :
            /\ AssignService(r, n, price)
            /\ pc[r] = "locked" /\ job[r].op = "assign_service" /\ OfTheProject(job[r])
            /\ job[r].item = i /\ job[r].worker = w
    BY <1>3, ShareWriter
  <2>2. counted[r] + Handed(i, {w}) <= qty[i] /\ counted[r] \in Int
    BY <2>1 DEF CountsHold
  <2>3. /\ qty' = qty /\ n <= counted[r] /\ share'[i][w].n = n
        /\ \A x \in Worker \ {w} : share'[i][x] = share[i][x]
    BY <1>0, <2>1 DEF AssignService
  <2>4. Handed(i, {})' = Handed(i, {w}) + n /\ Handed(i, {w}) \in Nat
    BY <2>3, OneShareMoves
  <2>5. n \in Nat
    BY ItemsAssumption
  <2> QED BY <1>1, <2>2, <2>3, <2>4, <2>5
<1> QED BY <1>2, <1>3

\* A finished project's balance does not move, and one that finishes has none, or
\* is known to be waived.
LEMMA NextFinishedSettled ==
  ASSUME IInv, CountsHold, counted \in [Req -> Int], FinishedSettled, Next
  PROVE  FinishedSettled'
<1> SUFFICES ASSUME NEW p \in Project, project'[p].status = "finished", ~project'[p].waived
             PROVE  PendingBalance(p)' <= 0
  BY DEF FinishedSettled
<1>0. project \in [Project -> [status : ProjectStatus, quote : Quote \cup {None},
                               waived : BOOLEAN]]
  BY DEF IInv, TypeOK
<1>1. CASE project[p].status = "finished"
  <2>1. LedgerOf(p)' = LedgerOf(p)
    BY <1>1, NextLedgerFrozen
  <2>2. project'[p] = project[p] /\ payments'[p] = payments[p]
    BY <2>1 DEF LedgerOf
  <2>3. ASSUME NEW e \in Entry, entry'[e] # entry[e]
        PROVE  e \notin EntriesOf(p) /\ e \notin EntriesOf(p)'
    <3>1. /\ project[entry'[e].project].status = "in_progress"
          /\ entry[e].st = "live" => entry[e].project = entry'[e].project
      BY <2>3, EntryMoves
    <3> QED BY <1>1, <3>1 DEF EntriesOf, LiveEntries
  <2>4. PendingBalance(p)' = PendingBalance(p)
    BY <2>2, <2>3, BalanceKept
  <2> QED BY <1>1, <2>2, <2>4 DEF FinishedSettled
<1>2. CASE project[p].status # "finished"
  <2>1. PICK r \in Req, confirm \in BOOLEAN : FinalizeProject(r, confirm)
    <3>1. project' # project
      BY <1>2
    <3>2. ASSUME NEW r \in Req, NEW x \in Project, StartProject(r, x) PROVE FALSE
      BY <1>0, <1>2, <3>2 DEF StartProject
    <3> QED BY <3>1, <3>2, StatusSteps DEF CreateQuote, DeleteQuote
  <2>2. /\ project' = [project EXCEPT ![job[r].row].status = "finished",
                                      ![job[r].row].waived = (counted[r] > 0)]
        /\ pc[r] = "locked" /\ job[r].op = "finalize_project"
        /\ UNCHANGED <<entry, payments>>
    BY <2>1 DEF FinalizeProject, Doing
  <2>3. job[r].row = p
    BY <1>0, <1>2, <2>2
  <2>4. project'[p].waived = (counted[r] > 0)
    <3>1. project'[p] = [status |-> "finished", quote |-> project[p].quote,
                         waived |-> counted[r] > 0]
      BY <1>0, <2>2, <2>3
    <3> QED BY <3>1
  <2>5. counted[r] = PendingBalance(p) /\ counted[r] \in Int
    BY <2>2, <2>3 DEF CountsHold
  <2>6. PendingBalance(p)' = PendingBalance(p)
    BY <2>2, BalanceKept
  <2>7. ~(counted[r] > 0)
    BY <2>4, Zenon
  <2> QED BY <2>5, <2>6, <2>7
<1> QED BY <1>1, <1>2

LEMMA InitTotals == Init => TotalsInv
<1> SUFFICES ASSUME Init PROVE TotalsInv
  OBVIOUS
<1>0. IInv /\ TypeOK
  BY InitIInv DEF IInv
<1>1. JobsKnow /\ CountsHold /\ counted \in [Req -> Int]
  BY DEF Init, JobsKnow, CountsHold, Busy
<1>2. ProgressFits /\ HandOutsFit
  <2>1. \A i \in Item : quoteStatus[i[1]] # "in_project" /\ qty[i] = 0
    BY DEF Init, Item
  <2> QED BY <1>0, <2>1, FreshItem DEF ProgressFits, HandOutsFit
<1>3. FinishedSettled
  BY DEF Init, FinishedSettled
<1> QED BY <1>0, <1>1, <1>2, <1>3 DEF TotalsInv

LEMMA StutterTotals == TotalsInv /\ UNCHANGED vars => TotalsInv'
<1> SUFFICES ASSUME TotalsInv, UNCHANGED vars PROVE TotalsInv'
  OBVIOUS
<1>0. IInv'
  BY StutterIInv DEF TotalsInv
<1>1. UNCHANGED <<quoteStatus, qty, project, entry, payments, share, pc, job, counted>>
  BY DEF vars, data
<1>2. ASSUME NEW i, NEW except
      PROVE  Advanced(i, except)' = Advanced(i, except) /\ Handed(i, except)' = Handed(i, except)
  BY <1>1 DEF Advanced, Handed, LiveEntries
<1>3. ASSUME NEW p PROVE PendingBalance(p)' = PendingBalance(p)
  BY <1>1 DEF PendingBalance, AdvancedValue, EntriesOf, LiveEntries, TotalPaid
<1>4. JobsKnow' /\ (counted \in [Req -> Int])'
  BY <1>1 DEF TotalsInv, JobsKnow, Busy, OfTheProject
<1>5. CountsHold'
  BY <1>1, <1>2, <1>3 DEF TotalsInv, CountsHold, OfTheProject
<1>6. ProgressFits' /\ HandOutsFit' /\ FinishedSettled'
  BY <1>1, <1>2, <1>3 DEF TotalsInv, ProgressFits, HandOutsFit, FinishedSettled
<1> QED BY <1>0, <1>4, <1>5, <1>6 DEF TotalsInv

LEMMA NextTotals == TotalsInv /\ Next => TotalsInv'
  BY NextIInv, NextJobsKnow, NextCountsHold, NextCounted, NextProgressFits,
     NextHandOutsFit, NextFinishedSettled DEF TotalsInv

\* What the totals rest on holds of every reachable state.
THEOREM TotalsHold == Spec => []TotalsInv
<1>1. TotalsInv /\ [Next]_vars => TotalsInv'
  BY NextTotals, StutterTotals
<1> QED BY InitTotals, <1>1, PTL DEF Spec

\* Entries recorded, corrected and deleted at once never exceed what was quoted.
THEOREM RecordedProgressFits == Spec => []ProgressFits
  BY TotalsHold, PTL DEF TotalsInv

\* Nor do the hand-outs of an item, made at once, exceed it.
THEOREM HandedOutFits == Spec => []HandOutsFit
  BY TotalsHold, PTL DEF TotalsInv

\* A project that closed without waiving a balance is owed nothing, for ever.
THEOREM ClosedProjectsAreSettled == Spec => []FinishedSettled
  BY TotalsHold, PTL DEF TotalsInv

(***************************************************************************)
(* 4. The steps of WorkLedger.                                             *)
(***************************************************************************)

\* A project is nothing until it starts: nothing was paid on it, or waived.
NewProjects ==
  \A p \in Project : project[p].status = "new" => payments[p] = <<>> /\ ~project[p].waived

LEMMA NextNewProjects ==
  ASSUME IInv, NewProjects, Next PROVE NewProjects'
<1> SUFFICES ASSUME NEW p \in Project, project'[p].status = "new"
             PROVE  payments'[p] = <<>> /\ ~project'[p].waived
  BY DEF NewProjects
<1>0. /\ project \in [Project -> [status : ProjectStatus, quote : Quote \cup {None},
                                  waived : BOOLEAN]]
      /\ project[p].status = "new"
  BY NextRowsStay DEF IInv, TypeOK, RowsStay
<1>1. project'[p] = project[p]
  <2>1. ASSUME NEW r \in Req, NEW x \in Project, StartProject(r, x)
        PROVE  project'[p] = project[p]
    BY <1>0, <2>1 DEF StartProject
  <2>2. ASSUME NEW r \in Req, NEW confirm \in BOOLEAN, FinalizeProject(r, confirm)
        PROVE  project'[p] = project[p]
    <3>1. job[r].row # p
      BY <1>0, <2>2, HeldProject DEF FinalizeProject, Doing
    <3> QED BY <1>0, <2>2, <3>1 DEF FinalizeProject
  <2> QED BY <2>1, <2>2, StatusSteps DEF CreateQuote, DeleteQuote
<1>2. payments'[p] = payments[p]
  <2>1. ASSUME payments'[p] # payments[p] PROVE FALSE
    <3>1. PICK r \in Req : pc[r] = "locked" /\ job[r].row = p
      BY <2>1, PaymentSteps
    <3> QED BY <1>0, <3>1, HeldProject
  <2> QED BY <2>1
<1> QED BY <1>0, <1>1, <1>2 DEF NewProjects

-----------------------------------------------------------------------------
(* Sums of one member, and of a sequence. *)

LEMMA SumOfOne ==
  ASSUME NEW f, NEW x, f[x] \in Int PROVE SumFunctionOnSet(f, {x}) = f[x]
<1>1. IsFiniteSet({x}) /\ {x} \ {x} = {}
  BY FS_Singleton
<1>2. SumFunctionOnSet(f, {x}) = f[x] + SumFunctionOnSet(f, {x} \ {x})
  BY <1>1, SumWithout
<1>3. SumFunctionOnSet(f, {x} \ {x}) = 0
  BY <1>1, SumOfNothing, Zenon
<1> QED BY <1>2, <1>3

\* Members that are at most c add up to at most c for each.
LEMMA SumAtMost ==
  ASSUME NEW f, NEW S, IsFiniteSet(S), NEW c \in Nat, \A x \in S : f[x] \in 0..c
  PROVE  SumFunctionOnSet(f, S) <= Cardinality(S) * c
<1> DEFINE Good == {V \in SUBSET S :
                      /\ SumFunctionOnSet(f, V) \in Nat
                      /\ SumFunctionOnSet(f, V) <= Cardinality(V) * c}
<1>0. \A V \in SUBSET S : IsFiniteSet(V) /\ Cardinality(V) \in Nat
  BY FS_Subset, FS_CardinalityType
<1>1. {} \in Good
  <2>1. Cardinality({}) = 0 /\ SumFunctionOnSet(f, {}) = 0
    BY FS_EmptySet, SumOfNothing
  <2> QED BY <2>1
<1>2. ASSUME NEW V \in SUBSET S, V # {}, \A x \in V : V \ {x} \in Good PROVE V \in Good
  <2>1. /\ Some(V) \in V
        /\ SumFunctionOnSet(f, V) = f[Some(V)] + SumFunctionOnSet(f, V \ {Some(V)})
    BY <1>0, <1>2, SumStep
  <2>2. Cardinality(V \ {Some(V)}) = Cardinality(V) - 1
    BY <1>0, <2>1, FS_RemoveElement
  <2>3. /\ SumFunctionOnSet(f, V \ {Some(V)}) \in Nat
        /\ SumFunctionOnSet(f, V \ {Some(V)}) <= (Cardinality(V) - 1) * c
    BY <1>2, <2>1, <2>2
  <2>4. (Cardinality(V) - 1) * c + c = Cardinality(V) * c
    BY <1>0
  <2>5. Cardinality(V) * c \in Int /\ (Cardinality(V) - 1) * c \in Int
    BY <1>0
  <2>6. f[Some(V)] \in 0..c
    BY <2>1
  <2> QED BY <2>1, <2>3, <2>4, <2>5, <2>6
<1>3. \A V \in SUBSET S : V \in Good
  <2> HIDE DEF Good
  <2> QED BY <1>1, <1>2, SubsetInduction
<1> QED BY <1>3

-----------------------------------------------------------------------------
(* WorkLedger's variables, and what moves them. *)

\* What WorkLedger knows of the quote q of a project p: p is its one project.
Maps(q, p) ==
  /\ ProjectsOf(q) = {p}
  /\ EarnedOf[q] = AdvancedValue(p)
  /\ PaidOf[q] = TotalPaid(p)
  /\ WaivedOf[q] <=> project[p].waived
  /\ Stages[q] = IF project[p].status = "finished" THEN "closed" ELSE "work"
  /\ AdvancedValue(p) \in Nat /\ TotalPaid(p) \in Nat
  /\ quoteStatus[q] = "in_project"

Mapped ==
  \A q \in Quote, p \in Project :
    project[p].status # "new" /\ project[p].quote = q => Maps(q, p)

LEMMA ProjectsMap == IInv => Mapped
<1> SUFFICES ASSUME IInv, NEW q \in Quote, NEW p \in Project,
                    project[p].status # "new", project[p].quote = q
             PROVE  Maps(q, p)
  BY DEF Mapped
<1>0. AdvancedValue(p) \in Nat /\ TotalPaid(p) \in Nat
  BY BalanceType
<1>1. ProjectsOf(q) = {p}
  <2>1. p \in ProjectsOf(q) /\ \A x \in ProjectsOf(q) : x = p
    BY DEF ProjectsOf, IInv, OneProject
  <2> QED BY <2>1
<1>2. EarnedOf[q] = AdvancedValue(p)
  <2> DEFINE f == [x \in ProjectsOf(q) |-> AdvancedValue(x)]
  <2>1. f[p] = AdvancedValue(p) /\ DOMAIN f = {p}
    BY <1>1
  <2>2. EarnedOf[q] = SumFunctionOnSet(f, DOMAIN f)
    BY DEF EarnedOf, SumFunction
  <2> HIDE DEF f
  <2>3. SumFunctionOnSet(f, DOMAIN f) = SumFunctionOnSet(f, {p})
    BY <2>1, Zenon
  <2>4. SumFunctionOnSet(f, {p}) = f[p]
    BY <1>0, <2>1, SumOfOne
  <2> QED BY <2>1, <2>2, <2>3, <2>4
<1>3. PaidOf[q] = TotalPaid(p)
  <2> DEFINE f == [x \in ProjectsOf(q) |-> TotalPaid(x)]
  <2>1. f[p] = TotalPaid(p) /\ DOMAIN f = {p}
    BY <1>1
  <2>2. PaidOf[q] = SumFunctionOnSet(f, DOMAIN f)
    BY DEF PaidOf, SumFunction
  <2> HIDE DEF f
  <2>3. SumFunctionOnSet(f, DOMAIN f) = SumFunctionOnSet(f, {p})
    BY <2>1, Zenon
  <2>4. SumFunctionOnSet(f, {p}) = f[p]
    BY <1>0, <2>1, SumOfOne
  <2> QED BY <2>1, <2>2, <2>3, <2>4
<1>4. WaivedOf[q] <=> project[p].waived
  BY <1>1, Zenon DEF WaivedOf
<1>5. quoteStatus[q] = "in_project"
  BY <1>1 DEF IInv, OneProject
<1>6. Stages[q] = IF project[p].status = "finished" THEN "closed" ELSE "work"
  BY <1>1, <1>5 DEF Stages, StageOf
<1> QED BY <1>0, <1>1, <1>2, <1>3, <1>4, <1>5, <1>6 DEF Maps

LEMMA ProjectsMapNext == (IInv => Mapped)'
<1>1. IInv => Mapped
  BY ProjectsMap
<1> QED BY <1>1, PTL

\* A quote with no project.
LEMMA NoProjectMaps ==
  ASSUME NEW q \in Quote, ProjectsOf(q) = {}
  PROVE  EarnedOf[q] = 0 /\ PaidOf[q] = 0 /\ WaivedOf[q] = FALSE
<1>1. EarnedOf[q] = 0
  <2> DEFINE f == [x \in ProjectsOf(q) |-> AdvancedValue(x)]
  <2>1. EarnedOf[q] = SumFunctionOnSet(f, DOMAIN f)
    BY DEF EarnedOf, SumFunction
  <2>2. DOMAIN f = {}
    OBVIOUS
  <2> HIDE DEF f
  <2>3. SumFunctionOnSet(f, DOMAIN f) = SumFunctionOnSet(f, {})
    BY <2>2, Zenon
  <2> QED BY <2>1, <2>3, SumOfNothing
<1>2. PaidOf[q] = 0
  <2> DEFINE f == [x \in ProjectsOf(q) |-> TotalPaid(x)]
  <2>1. PaidOf[q] = SumFunctionOnSet(f, DOMAIN f)
    BY DEF PaidOf, SumFunction
  <2>2. DOMAIN f = {}
    OBVIOUS
  <2> HIDE DEF f
  <2>3. SumFunctionOnSet(f, DOMAIN f) = SumFunctionOnSet(f, {})
    BY <2>2, Zenon
  <2> QED BY <2>1, <2>3, SumOfNothing
<1>3. WaivedOf[q] = FALSE
  BY DEF WaivedOf
<1> QED BY <1>1, <1>2, <1>3

\* What a step leaves of WorkLedger's variables, by what it leaves of the rows.
LEMMA MappedKept ==
  /\ UNCHANGED <<quoteStatus, project>> => UNCHANGED <<Stages, WaivedOf>>
  /\ UNCHANGED <<project, entry>> => UNCHANGED EarnedOf
  /\ UNCHANGED <<project, payments>> => UNCHANGED PaidOf
  /\ UNCHANGED entry => UNCHANGED AdvancedOf
  /\ UNCHANGED share => UNCHANGED HandedOf
<1>1. UNCHANGED <<quoteStatus, project>> => UNCHANGED <<Stages, WaivedOf>>
  BY DEF Stages, StageOf, WaivedOf, ProjectsOf
<1>2. UNCHANGED <<project, entry>> => UNCHANGED EarnedOf
  BY DEF EarnedOf, ProjectsOf, AdvancedValue, EntriesOf, LiveEntries
<1>3. UNCHANGED <<project, payments>> => UNCHANGED PaidOf
  BY DEF PaidOf, ProjectsOf, TotalPaid
<1>4. UNCHANGED entry => UNCHANGED AdvancedOf
  BY DEF AdvancedOf, Advanced, LiveEntries
<1>5. UNCHANGED share => UNCHANGED HandedOf
  BY DEF HandedOf, Handed
<1> QED BY <1>1, <1>2, <1>3, <1>4, <1>5

\* The projects of a quote, by what a step leaves of the rows of projects.
LEMMA ProjectsOfKept ==
  ASSUME NEW q \in Quote,
         \A p \in Project : (project'[p].status # "new" /\ project'[p].quote = q)
                              <=> (project[p].status # "new" /\ project[p].quote = q)
  PROVE  ProjectsOf(q)' = ProjectsOf(q)
  BY DEF ProjectsOf

-----------------------------------------------------------------------------
(* The steps of the requests, as steps of WorkLedger. *)

LEMMA CreateMaps ==
  ASSUME IInv, NEW q \in Quote, NEW lines \in [Line -> 0..MaxQty], CreateQuote(q, lines)
  PROVE  Ledger!Create(q, lines)
<1>0. quoteStatus \in [Quote -> QuoteStatus]
  BY DEF IInv, TypeOK
<1>1. UNCHANGED <<AdvancedOf, HandedOf, EarnedOf, PaidOf>>
  BY MappedKept DEF CreateQuote
<1>2. UNCHANGED WaivedOf
  BY DEF WaivedOf, ProjectsOf, CreateQuote
<1>3. Stages[q] = "none" /\ Stages' = [Stages EXCEPT ![q] = "draft"]
  <2>1. \A x \in Quote : StageOf(x)' = IF x = q THEN "draft" ELSE StageOf(x)
    BY <1>0 DEF CreateQuote, StageOf, ProjectsOf
  <2>2. StageOf(q) = "none"
    BY DEF CreateQuote, StageOf
  <2> QED BY <2>1, <2>2 DEF Stages
<1>4. qty' = [i \in Item |-> IF i[1] = q THEN lines[i[2]] ELSE qty[i]]
  BY DEF CreateQuote
<1> QED BY <1>1, <1>2, <1>3, <1>4 DEF Ledger!Create, Ledger!WithLines, Ledger!Item, Item

\* A quote whose request may edit it is a draft, with no project.
LEMMA EditableQuote ==
  ASSUME IInv, NEW r \in Req, pc[r] = "locked", job[r].op \in QuoteOps, Editable(r)
  PROVE  /\ job[r].row \in Quote /\ quoteStatus[job[r].row] = "draft"
         /\ ProjectsOf(job[r].row) = {}
         /\ Stages[job[r].row] = "draft"
<1>1. job[r].row \in Quote /\ RowStatus(job[r].row) # "new"
  BY DEF IInv, JobsMakeSense, MakesSense, Busy
<1>2. /\ RowStatus(job[r].row) = quoteStatus[job[r].row]
      /\ quoteStatus[job[r].row] \in QuoteStatus
  BY <1>1 DEF RowStatus, IInv, TypeOK
<1>3. quoteStatus[job[r].row] \notin Terminal \cup {"gone", "new"}
  BY <1>1, <1>2 DEF IInv, LocksAreHeld, Editable
<1>4. quoteStatus[job[r].row] = "draft"
  BY <1>2, <1>3 DEF QuoteStatus, Terminal
<1>5. ProjectsOf(job[r].row) = {}
  BY <1>1, <1>4 DEF IInv, OneProject
<1> QED BY <1>1, <1>4, <1>5 DEF Stages, StageOf

\* A project whose request may edit it is in progress, and so is its quote.
LEMMA EditableProject ==
  ASSUME IInv, NEW r \in Req, pc[r] = "locked", job[r].op \notin QuoteOps, Editable(r)
  PROVE  /\ job[r].row \in Project /\ project[job[r].row].status = "in_progress"
         /\ project[job[r].row].quote \in Quote
<1>0. Quote \cap Project = {}
  BY ConstantsAssumption
<1>1. job[r].row \in Project /\ RowStatus(job[r].row) # "new"
  BY DEF IInv, JobsMakeSense, MakesSense, Busy
<1>2. /\ RowStatus(job[r].row) = project[job[r].row].status
      /\ project[job[r].row].status \in ProjectStatus
  BY <1>0, <1>1 DEF RowStatus, IInv, TypeOK
<1>3. project[job[r].row].status \notin Terminal \cup {"new"}
  BY <1>1, <1>2 DEF IInv, LocksAreHeld, Editable
<1>4. project[job[r].row].status = "in_progress"
  BY <1>2, <1>3 DEF ProjectStatus, Terminal
<1> QED BY <1>1, <1>4 DEF IInv, RowsBelong

LEMMA ReviseMaps ==
  ASSUME IInv, NEW r \in Req, NEW lines \in [Line -> 0..MaxQty], UpdateQuote(r, lines)
  PROVE  job[r].row \in Quote /\ Ledger!Revise(job[r].row, lines)
<1>1. job[r].row \in Quote /\ Stages[job[r].row] = "draft"
  BY EditableQuote DEF UpdateQuote, Doing, QuoteOps
<1>2. UNCHANGED <<Stages, AdvancedOf, HandedOf, EarnedOf, PaidOf, WaivedOf>>
  BY MappedKept DEF UpdateQuote
<1>3. qty' = [i \in Item |-> IF i[1] = job[r].row THEN lines[i[2]] ELSE qty[i]]
  BY DEF UpdateQuote
<1> QED BY <1>1, <1>2, <1>3 DEF Ledger!Revise, Ledger!WithLines, Ledger!Item, Item

LEMMA RemoveMaps ==
  ASSUME IInv, NEW r \in Req, DeleteQuote(r)
  PROVE  job[r].row \in Quote /\ Ledger!Remove(job[r].row)
<1>0. quoteStatus \in [Quote -> QuoteStatus]
  BY DEF IInv, TypeOK
<1>1. PICK q \in Quote : q = job[r].row /\ Stages[q] = "draft"
  BY EditableQuote DEF DeleteQuote, Doing, QuoteOps
<1>2. UNCHANGED <<AdvancedOf, HandedOf, EarnedOf, PaidOf>>
  BY MappedKept DEF DeleteQuote
<1>3. UNCHANGED WaivedOf
  BY DEF WaivedOf, ProjectsOf, DeleteQuote
<1>4. Stages' = [Stages EXCEPT ![q] = "gone"]
  <2>1. \A x \in Quote : StageOf(x)' = IF x = q THEN "gone" ELSE StageOf(x)
    BY <1>0, <1>1 DEF DeleteQuote, StageOf, ProjectsOf
  <2> QED BY <2>1 DEF Stages
<1>5. qty' = [i \in Item |-> IF i[1] = q THEN 0 ELSE qty[i]]
  BY <1>1 DEF DeleteQuote
<1>6. qty' = Ledger!WithLines(q, [l \in Line |-> 0])
  <2>1. \A i \in Item : i[2] \in Line
    BY DEF Item
  <2> QED BY <1>5, <2>1 DEF Ledger!WithLines, Ledger!Item, Item
<1> QED BY <1>1, <1>2, <1>3, <1>4, <1>6 DEF Ledger!Remove

\* A project nobody started has no work and no payments.
LEMMA NewProjectIsEmpty ==
  ASSUME IInv, NewProjects, NEW p \in Project, project[p].status = "new"
  PROVE  AdvancedValue(p) = 0 /\ TotalPaid(p) = 0 /\ ~project[p].waived
<1>1. EntriesOf(p) = {}
  BY DEF EntriesOf, IInv, LedgerHangsTogether
<1>2. AdvancedValue(p) = 0
  <2> DEFINE f == [e \in EntriesOf(p) |-> entry[e].n * UnitPrice[entry[e].item[2]]]
  <2>1. AdvancedValue(p) = SumFunctionOnSet(f, DOMAIN f)
    BY DEF AdvancedValue, SumFunction
  <2>2. DOMAIN f = {}
    BY <1>1
  <2> HIDE DEF f
  <2>3. SumFunctionOnSet(f, DOMAIN f) = SumFunctionOnSet(f, {})
    BY <2>2, Zenon
  <2> QED BY <2>1, <2>3, SumOfNothing
<1>3. TotalPaid(p) = 0
  <2>1. TotalPaid(p) = SumFunctionOnSet(payments[p], DOMAIN payments[p])
    BY DEF TotalPaid, SumFunction
  <2>2. DOMAIN payments[p] = {}
    BY DEF NewProjects
  <2>3. SumFunctionOnSet(payments[p], DOMAIN payments[p]) = SumFunctionOnSet(payments[p], {})
    BY <2>2, Zenon
  <2> QED BY <2>1, <2>3, SumOfNothing
<1> QED BY <1>2, <1>3 DEF NewProjects

LEMMA StartMaps ==
  ASSUME IInv, IInv', NewProjects, NEW r \in Req, NEW p \in Project, StartProject(r, p)
  PROVE  job[r].row \in Quote /\ Ledger!Start(job[r].row)
<1>0. /\ quoteStatus \in [Quote -> QuoteStatus]
      /\ project \in [Project -> [status : ProjectStatus, quote : Quote \cup {None},
                                  waived : BOOLEAN]]
  BY DEF IInv, TypeOK
<1>1. PICK q \in Quote : q = job[r].row /\ Stages[q] = "draft" /\ ProjectsOf(q) = {}
  BY EditableQuote DEF StartProject, Doing, QuoteOps
<1>2. /\ project' = [project EXCEPT ![p].status = "in_progress", ![p].quote = q]
      /\ quoteStatus' = [quoteStatus EXCEPT ![q] = "in_project"]
      /\ project[p].status = "new"
      /\ UNCHANGED <<qty, entry, payments, share>>
  BY <1>1 DEF StartProject, BecomesProject
<1>3. /\ project'[p].status = "in_progress" /\ project'[p].quote = q
      /\ project'[p].waived = project[p].waived
      /\ \A x \in Project \ {p} : project'[x] = project[x]
  BY <1>0, <1>2
<1>4. UNCHANGED <<AdvancedOf, HandedOf>>
  BY <1>2, MappedKept
<1>5. \A x \in Quote \ {q} : ProjectsOf(x)' = ProjectsOf(x)
  BY <1>2, <1>3, ProjectsOfKept
<1>6. Maps(q, p)'
  BY <1>3, ProjectsMapNext DEF Mapped
<1>7. \A x \in Project : AdvancedValue(x)' = AdvancedValue(x) /\ TotalPaid(x)' = TotalPaid(x)
  BY <1>2 DEF AdvancedValue, EntriesOf, LiveEntries, TotalPaid
<1>8. AdvancedValue(p) = 0 /\ TotalPaid(p) = 0 /\ ~project[p].waived
  BY <1>2, NewProjectIsEmpty
<1>9. EarnedOf[q] = 0 /\ PaidOf[q] = 0 /\ WaivedOf[q] = FALSE
  BY <1>1, NoProjectMaps
<1>10. UNCHANGED EarnedOf
  <2>1. EarnedOf'[q] = EarnedOf[q]
    BY <1>6, <1>7, <1>8, <1>9 DEF Maps
  <2>2. \A x \in Quote \ {q} : EarnedOf'[x] = EarnedOf[x]
    BY <1>5, <1>7 DEF EarnedOf, ProjectsOf
  <2> QED BY <2>1, <2>2 DEF EarnedOf
<1>11. UNCHANGED PaidOf
  <2>1. PaidOf'[q] = PaidOf[q]
    BY <1>6, <1>7, <1>8, <1>9 DEF Maps
  <2>2. \A x \in Quote \ {q} : PaidOf'[x] = PaidOf[x]
    BY <1>5, <1>7 DEF PaidOf, ProjectsOf
  <2> QED BY <2>1, <2>2 DEF PaidOf
<1>12. UNCHANGED WaivedOf
  <2>1. \A x \in Quote \ {q} : WaivedOf'[x] = WaivedOf[x]
    BY <1>2, <1>3, <1>5 DEF WaivedOf, ProjectsOf
  <2>2. WaivedOf'[q] = WaivedOf[q]
    <3>1. ~WaivedOf'[q]
      BY <1>3, <1>6, <1>8 DEF Maps
    <3>2. WaivedOf'[q] = FALSE
      BY <3>1 DEF WaivedOf
    <3> QED BY <1>9, <3>2
  <2> QED BY <2>1, <2>2 DEF WaivedOf
<1>13. Stages' = [Stages EXCEPT ![q] = "work"]
  <2>1. Stages'[q] = "work"
    BY <1>3, <1>6 DEF Maps
  <2>2. \A x \in Quote \ {q} : Stages'[x] = Stages[x]
    BY <1>0, <1>2, <1>3, <1>5 DEF Stages, StageOf, ProjectsOf
  <2> QED BY <2>1, <2>2 DEF Stages
<1> QED BY <1>1, <1>2, <1>4, <1>10, <1>11, <1>12, <1>13 DEF Ledger!Start

LEMMA CloseMaps ==
  ASSUME IInv, IInv', CountsHold, counted \in [Req -> Int],
         NEW r \in Req, NEW confirm \in BOOLEAN, FinalizeProject(r, confirm)
  PROVE  /\ project[job[r].row].quote \in Quote
         /\ Ledger!Close(project[job[r].row].quote)
<1>0. /\ quoteStatus \in [Quote -> QuoteStatus]
      /\ project \in [Project -> [status : ProjectStatus, quote : Quote \cup {None},
                                  waived : BOOLEAN]]
  BY DEF IInv, TypeOK
<1>1. PICK p \in Project : /\ p = job[r].row /\ project[p].status = "in_progress"
                           /\ project[p].quote \in Quote
  BY EditableProject DEF FinalizeProject, Doing, QuoteOps
<1>2. PICK q \in Quote : q = project[p].quote
  BY <1>1
<1>3. /\ pc[r] = "locked" /\ job[r].op = "finalize_project"
      /\ project' = [project EXCEPT ![p].status = "finished", ![p].waived = (counted[r] > 0)]
      /\ UNCHANGED <<quoteStatus, qty, entry, payments, share>>
  BY <1>1 DEF FinalizeProject, Doing
<1>4. /\ project'[p] = [status |-> "finished", quote |-> q, waived |-> (counted[r] > 0)]
      /\ \A x \in Project \ {p} : project'[x] = project[x]
  BY <1>0, <1>2, <1>3
<1>5. /\ project'[p].status = "finished" /\ project'[p].quote = q
      /\ project'[p].waived <=> (counted[r] > 0)
  <2>1. project'[p].status = "finished" /\ project'[p].quote = q
    BY <1>4
  <2>2. project'[p].waived = (counted[r] > 0)
    BY <1>4
  <2> QED BY <2>1, <2>2, Zenon
<1>6. Maps(q, p) /\ Maps(q, p)'
  BY <1>1, <1>2, <1>5, ProjectsMap, ProjectsMapNext DEF Mapped
<1>7. UNCHANGED <<AdvancedOf, HandedOf>>
  BY <1>3, MappedKept
<1>8. \A x \in Quote : ProjectsOf(x)' = ProjectsOf(x)
  BY <1>1, <1>2, <1>4, <1>5, ProjectsOfKept
<1>9. \A x \in Project : AdvancedValue(x)' = AdvancedValue(x) /\ TotalPaid(x)' = TotalPaid(x)
  BY <1>3 DEF AdvancedValue, EntriesOf, LiveEntries, TotalPaid
<1>10. UNCHANGED <<EarnedOf, PaidOf>>
  BY <1>8, <1>9 DEF EarnedOf, PaidOf, ProjectsOf
<1>11. \A x \in Quote \ {q} : p \notin ProjectsOf(x)
  BY <1>2 DEF ProjectsOf
<1>12. WaivedOf' = [WaivedOf EXCEPT ![q] = EarnedOf[q] > PaidOf[q]]
  <2>1. \A x \in Quote \ {q} : WaivedOf'[x] = WaivedOf[x]
    BY <1>4, <1>8, <1>11 DEF WaivedOf, ProjectsOf
  <2>2. counted[r] = PendingBalance(p)
    BY <1>1, <1>3 DEF CountsHold
  <2>3. (counted[r] > 0) <=> (EarnedOf[q] > PaidOf[q])
    BY <1>6, <2>2 DEF Maps, PendingBalance
  <2>4. WaivedOf'[q] <=> (EarnedOf[q] > PaidOf[q])
    BY <1>5, <1>6, <2>3 DEF Maps
  <2>5. WaivedOf'[q] = (EarnedOf[q] > PaidOf[q])
    <3>1. CASE EarnedOf[q] > PaidOf[q]
      <4>1. WaivedOf'[q] = TRUE
        BY <2>4, <3>1 DEF WaivedOf
      <4> QED BY <3>1, <4>1
    <3>2. CASE ~(EarnedOf[q] > PaidOf[q])
      <4>1. WaivedOf'[q] = FALSE
        BY <2>4, <3>2 DEF WaivedOf
      <4>2. (EarnedOf[q] > PaidOf[q]) = FALSE
        BY <3>2
      <4> QED BY <4>1, <4>2, Zenon
    <3> QED BY <3>1, <3>2
  <2> QED BY <2>1, <2>5, Zenon DEF WaivedOf
<1>13. Stages[q] = "work" /\ Stages' = [Stages EXCEPT ![q] = "closed"]
  <2>1. Stages[q] = "work" /\ Stages'[q] = "closed"
    BY <1>1, <1>5, <1>6 DEF Maps
  <2>2. \A x \in Quote \ {q} : Stages'[x] = Stages[x]
    BY <1>0, <1>3, <1>4, <1>8, <1>11 DEF Stages, StageOf, ProjectsOf
  <2> QED BY <2>1, <2>2 DEF Stages
<1>14. Ledger!Close(q)
  BY <1>3, <1>7, <1>10, <1>12, <1>13 DEF Ledger!Close
<1> QED BY <1>1, <1>2, <1>14, Zenon

\* What an entry adds to the value of a project's work.
Worth(e, p) ==
  IF e \in EntriesOf(p) THEN entry[e].n * UnitPrice[entry[e].item[2]] ELSE 0

LEMMA WorthTypeNext ==
  (IInv => \A p \in Project :
             /\ IsFiniteSet(EntriesOf(p))
             /\ \A e \in EntriesOf(p) : entry[e].n * UnitPrice[entry[e].item[2]] \in Nat)'
<1>1. IInv => \A p \in Project :
             /\ IsFiniteSet(EntriesOf(p))
             /\ \A e \in EntriesOf(p) : entry[e].n * UnitPrice[entry[e].item[2]] \in Nat
  BY WorthType
<1> QED BY <1>1, PTL

\* When one entry moves, the value of a project's work moves by what it is worth.
LEMMA ValueMoves ==
  ASSUME IInv, IInv', NEW e \in Entry, NEW p \in Project,
         \A x \in Entry \ {e} : entry'[x] = entry[x]
  PROVE  AdvancedValue(p)' = AdvancedValue(p) + Worth(e, p)' - Worth(e, p)
<1> DEFINE f == [x \in EntriesOf(p) |-> entry[x].n * UnitPrice[entry[x].item[2]]]
           g == [x \in EntriesOf(p)' |-> entry'[x].n * UnitPrice[entry'[x].item[2]]]
<1>1. /\ AdvancedValue(p) = SumFunctionOnSet(f, EntriesOf(p))
      /\ AdvancedValue(p)' = SumFunctionOnSet(g, EntriesOf(p)')
  BY DEF AdvancedValue, SumFunction
<1>2. IsFiniteSet(EntriesOf(p)) /\ IsFiniteSet(EntriesOf(p)')
  BY WorthType, WorthTypeNext
<1>3. /\ \A x \in EntriesOf(p) : f[x] \in Int
      /\ \A x \in EntriesOf(p)' : g[x] \in Int
  BY WorthType, WorthTypeNext
<1>4. EntriesOf(p) \ {e} = EntriesOf(p)' \ {e}
  BY DEF EntriesOf, LiveEntries
<1>5. \A x \in EntriesOf(p) \ {e} : f[x] = g[x]
  BY <1>4 DEF EntriesOf, LiveEntries
<1>6. /\ Worth(e, p) = IF e \in EntriesOf(p) THEN f[e] ELSE 0
      /\ Worth(e, p)' = IF e \in EntriesOf(p)' THEN g[e] ELSE 0
  BY DEF Worth
<1> HIDE DEF f, g
<1>7. SumFunctionOnSet(g, EntriesOf(p)') = SumFunctionOnSet(f, EntriesOf(p))
        + (IF e \in EntriesOf(p)' THEN g[e] ELSE 0) - (IF e \in EntriesOf(p) THEN f[e] ELSE 0)
  BY <1>2, <1>3, <1>4, <1>5, SumMoves
<1> QED BY <1>1, <1>6, <1>7

\* One entry of an item of the project went from `old' to `new'.
LEMMA RecordMaps ==
  ASSUME TotalsInv, TotalsInv', Next,
         UNCHANGED <<quoteStatus, qty, project, payments, share>>,
         NEW p \in Project, project[p].status = "in_progress",
         NEW q \in Quote, q = project[p].quote, NEW l \in Line,
         NEW e \in Entry, \A x \in Entry \ {e} : entry'[x] = entry[x],
         entry[e].st = "live" => entry[e].project = p /\ entry[e].item = <<q, l>>,
         entry'[e].st = "live" => entry'[e].project = p /\ entry'[e].item = <<q, l>>,
         NEW old \in Nat, old = (IF entry[e].st = "live" THEN entry[e].n ELSE 0),
         NEW new \in Nat, new = (IF entry'[e].st = "live" THEN entry'[e].n ELSE 0)
  PROVE  Ledger!Record(q, l, old, new)
<1>0. IInv /\ IInv' /\ ProgressFits'
  BY DEF TotalsInv
<1>1. PICK i \in Item : i = <<q, l>>
  BY DEF Item
<1>2. Maps(q, p) /\ Maps(q, p)'
  BY <1>0, ProjectsMap, ProjectsMapNext DEF Mapped
<1>3. UNCHANGED <<Stages, WaivedOf, PaidOf, HandedOf>>
  BY MappedKept
<1>4. ASSUME NEW j \in Item
      PROVE  /\ Advanced(j, {})' = Advanced(j, {}) + Adds(e, j)' - Adds(e, j)
             /\ Adds(e, j) <= Advanced(j, {}) /\ Advanced(j, {}) \in Nat
  <2>1. /\ Advanced(j, {}) = Advanced(j, {e}) + Adds(e, j)
        /\ Advanced(j, {})' = Advanced(j, {e}) + Adds(e, j)'
        /\ Advanced(j, {e}) \in Nat /\ Adds(e, j) \in Nat /\ Adds(e, j)' \in Nat
    BY <1>0, OneEntryMoves
  <2> QED BY <2>1
<1>5. Adds(e, i) = old /\ Adds(e, i)' = new
  BY <1>1 DEF Adds, Counts
<1>6. \A j \in Item \ {i} : Adds(e, j) = 0 /\ Adds(e, j)' = 0
  BY <1>1 DEF Adds, Counts
<1>7. AdvancedOf' = [AdvancedOf EXCEPT ![i] = @ - old + new]
  <2>1. \A j \in Item \ {i} : Advanced(j, {})' = Advanced(j, {})
    BY <1>4, <1>6
  <2>2. Advanced(i, {})' = Advanced(i, {}) - old + new
    BY <1>4, <1>5
  <2> QED BY <2>1, <2>2 DEF AdvancedOf
<1>8. old <= AdvancedOf[i] /\ AdvancedOf[i] - old + new <= qty[i]
  <2>1. old <= Advanced(i, {}) /\ Advanced(i, {})' = Advanced(i, {}) - old + new
    BY <1>4, <1>5
  <2>2. Advanced(i, {})' <= qty[i]
    BY <1>0 DEF ProgressFits
  <2> QED BY <2>1, <2>2 DEF AdvancedOf
<1>9. EarnedOf' = [EarnedOf EXCEPT ![q] = @ + (new - old) * UnitPrice[l]]
  <2>0. UnitPrice[l] \in Nat
    BY ItemsAssumption
  <2>1. Worth(e, p) = old * UnitPrice[l] /\ Worth(e, p)' = new * UnitPrice[l]
    <3>1. \A a \in Nat : 0 * a = 0
      OBVIOUS
    <3> QED BY <2>0, <3>1 DEF Worth, EntriesOf, LiveEntries
  <2>2. \A x \in Project \ {p} : Worth(e, x) = 0 /\ Worth(e, x)' = 0
    BY DEF Worth, EntriesOf, LiveEntries
  <2>3. \A x \in Project : AdvancedValue(x) \in Nat
    BY <1>0, BalanceType
  <2>4. \A x \in Project \ {p} : AdvancedValue(x)' = AdvancedValue(x)
    BY <1>0, <2>2, <2>3, ValueMoves
  <2>5. AdvancedValue(p)' = AdvancedValue(p) + (new - old) * UnitPrice[l]
    <3>1. AdvancedValue(p)' = AdvancedValue(p) + new * UnitPrice[l] - old * UnitPrice[l]
      BY <1>0, <2>1, ValueMoves
    <3>2. (new - old) * UnitPrice[l] = new * UnitPrice[l] - old * UnitPrice[l]
      BY <2>0
    <3>3. new * UnitPrice[l] \in Int /\ old * UnitPrice[l] \in Int
      BY <2>0
    <3> QED BY <2>3, <3>1, <3>2, <3>3
  <2>6. EarnedOf'[q] = EarnedOf[q] + (new - old) * UnitPrice[l]
    BY <1>2, <2>5 DEF Maps
  <2>7. \A x \in Quote \ {q} : p \notin ProjectsOf(x)
    BY DEF ProjectsOf
  <2>8. \A x \in Quote \ {q} : EarnedOf'[x] = EarnedOf[x]
    BY <2>4, <2>7 DEF EarnedOf, ProjectsOf
  <2> QED BY <2>6, <2>8 DEF EarnedOf
<1>10. Stages[q] = "work"
  BY <1>2 DEF Maps
<1> QED BY <1>1, <1>3, <1>7, <1>8, <1>9, <1>10 DEF Ledger!Record

\* A payment appended to those of a project adds its amount to what was paid.
LEMMA PaidGrows ==
  ASSUME NEW s \in Seq(1..MaxAmount), NEW amount \in 1..MaxAmount
  PROVE  /\ SumFunction(s) \in Int
         /\ SumFunction(Append(s, amount)) = SumFunction(s) + amount
         /\ SumFunction(s) <= Len(s) * MaxAmount
<1> DEFINE n == Len(s)
           t == Append(s, amount)
           S == 1..n
           T == 1..(n + 1)
           x == n + 1
<1>0. MaxAmount \in Nat /\ n \in Nat
  BY ItemsAssumption
<1>1. DOMAIN s = S /\ DOMAIN t = T
  BY <1>0
<1>2. \A k \in S : s[k] \in 0..MaxAmount /\ t[k] = s[k]
  BY <1>0
<1>3. t[x] = amount /\ x \in T /\ x \notin S
  BY <1>0
<1>4. IsFiniteSet(S) /\ Cardinality(S) = n
  <2>1. /\ 1 \in Int /\ n \in Int
        /\ (IF 1 > n THEN 0 ELSE n - 1 + 1) = n
    BY <1>0
  <2>2. /\ IsFiniteSet(1..n)
        /\ Cardinality(1..n) = IF 1 > n THEN 0 ELSE n - 1 + 1
    BY <2>1, FS_Interval
  <2> QED BY <2>1, <2>2
<1>5. IsFiniteSet(T)
  BY <1>0, FS_Interval
<1>6. S \ {x} = T \ {x}
  BY <1>0
<1>7. SumFunction(s) = SumFunctionOnSet(s, S) /\ SumFunction(t) = SumFunctionOnSet(t, T)
  BY <1>1, Zenon DEF SumFunction
<1>8. \A k \in T : t[k] \in Int
  BY <1>0
<1> HIDE DEF t, S, T, x
<1>9. /\ SumFunctionOnSet(s, S) \in Int
      /\ SumFunctionOnSet(t, T) = SumFunctionOnSet(s, S)
           + (IF x \in T THEN t[x] ELSE 0) - (IF x \in S THEN s[x] ELSE 0)
  BY <1>0, <1>2, <1>4, <1>5, <1>6, <1>8, SumMoves
<1>10. SumFunctionOnSet(s, S) <= Cardinality(S) * MaxAmount
  BY <1>0, <1>2, <1>4, SumAtMost
<1>11. SumFunctionOnSet(t, T) = SumFunctionOnSet(s, S) + amount
  BY <1>3, <1>9
<1>12. SumFunction(s) <= n * MaxAmount
  BY <1>4, <1>7, <1>10
<1>13. SumFunction(t) = SumFunction(s) + amount /\ SumFunction(s) \in Int
  BY <1>7, <1>9, <1>11
<1>14. t = Append(s, amount)
  BY DEF t
<1> QED BY <1>12, <1>13, <1>14, Zenon

LEMMA CollectMaps ==
  ASSUME IInv, IInv', NEW r \in Req, NEW amount \in 1..MaxAmount, RegisterPayment(r, amount)
  PROVE  /\ project[job[r].row].quote \in Quote /\ amount \in 1..MaxPaid
         /\ Ledger!Collect(project[job[r].row].quote, amount)
<1>1. PICK p \in Project : /\ p = job[r].row /\ project[p].status = "in_progress"
                           /\ project[p].quote \in Quote
  BY EditableProject DEF RegisterPayment, Doing, QuoteOps
<1>2. PICK q \in Quote : q = project[p].quote
  BY <1>1
<1>3. /\ payments' = [payments EXCEPT ![p] = Append(@, amount)]
      /\ Len(payments[p]) < MaxPayments
      /\ UNCHANGED <<quoteStatus, qty, project, entry, share>>
  BY <1>1 DEF RegisterPayment
<1>4. /\ payments[p] \in Seq(1..MaxAmount) /\ payments'[p] = Append(payments[p], amount)
      /\ \A x \in Project \ {p} : payments'[x] = payments[x]
  BY <1>3 DEF IInv, TypeOK
<1>5. UNCHANGED <<Stages, WaivedOf, AdvancedOf, HandedOf, EarnedOf>>
  BY <1>3, MappedKept
<1>6. Maps(q, p) /\ Maps(q, p)'
  BY <1>1, <1>2, <1>3, ProjectsMap, ProjectsMapNext DEF Mapped
<1>7. /\ TotalPaid(p)' = TotalPaid(p) + amount
      /\ TotalPaid(p) <= Len(payments[p]) * MaxAmount
      /\ TotalPaid(p) \in Int
  BY <1>4, PaidGrows DEF TotalPaid
<1>8. PaidOf' = [PaidOf EXCEPT ![q] = @ + amount]
  <2>1. \A x \in Project \ {p} : TotalPaid(x)' = TotalPaid(x)
    BY <1>4 DEF TotalPaid
  <2>2. \A x \in Quote \ {q} : p \notin ProjectsOf(x)
    BY <1>2 DEF ProjectsOf
  <2>3. \A x \in Quote \ {q} : PaidOf'[x] = PaidOf[x]
    BY <1>3, <2>1, <2>2 DEF PaidOf, ProjectsOf
  <2>4. PaidOf'[q] = PaidOf[q] + amount
    BY <1>6, <1>7 DEF Maps
  <2> QED BY <2>3, <2>4 DEF PaidOf
<1>9. PaidOf[q] + amount <= MaxPaid /\ amount \in 1..MaxPaid
  <2> DEFINE n == Len(payments[p])
  <2>0. n \in Nat /\ n + 1 <= MaxPayments /\ MaxPayments \in Nat /\ MaxAmount \in Nat
    BY <1>3, <1>4, ItemsAssumption
  <2>1. \A a, b, c \in Nat : a <= b => a * c <= b * c
    OBVIOUS
  <2>2. /\ (n + 1) * MaxAmount <= MaxPayments * MaxAmount
        /\ 1 * MaxAmount <= MaxPayments * MaxAmount
    BY <2>0, <2>1
  <2>3. (n + 1) * MaxAmount = n * MaxAmount + MaxAmount
    BY <2>0
  <2>4. n * MaxAmount \in Nat /\ MaxPayments * MaxAmount \in Nat
    BY <2>0
  <2>5. PaidOf[q] = TotalPaid(p)
    BY <1>6 DEF Maps
  <2> QED BY <1>7, <2>0, <2>2, <2>3, <2>4, <2>5 DEF MaxPaid
<1>10. Stages[q] = "work"
  BY <1>1, <1>6 DEF Maps
<1>11. Ledger!Collect(q, amount)
  BY <1>3, <1>5, <1>8, <1>9, <1>10 DEF Ledger!Collect, Ledger!MaxPaid, MaxPaid
<1> QED BY <1>1, <1>2, <1>9, <1>11, Zenon

\* The share of a worker in an item that has a project went from `old' to `new'.
LEMMA HandOutMaps ==
  ASSUME TotalsInv, TotalsInv', Next,
         UNCHANGED <<quoteStatus, qty, project, payments, entry>>,
         NEW q \in Quote, NEW l \in Line, NEW i \in Item, i = <<q, l>>,
         NEW p \in Project, project[p].status # "new", project[p].quote = q,
         NEW w \in Worker, NEW new, share' = [share EXCEPT ![i][w] = new]
  PROVE  Ledger!HandOut(q, l, share[i][w].n, share'[i][w].n)
<1>0. IInv /\ IInv' /\ HandOutsFit'
      /\ share \in [Item -> [Worker -> [n : 0..MaxQty, price : Price \cup {None}]]]
  BY DEF TotalsInv, IInv, TypeOK
<1>1. UNCHANGED <<Stages, WaivedOf, PaidOf, EarnedOf, AdvancedOf>>
  BY MappedKept
<1>2. Stages[q] \in {"work", "closed"}
  BY <1>0, ProjectsMap DEF Mapped, Maps
<1>3. /\ \A j \in Item \ {i} : share'[j] = share[j]
      /\ \A x \in Worker \ {w} : share'[i][x] = share[i][x]
  BY <1>0
<1>4. \A j \in Item \ {i} : Handed(j, {})' = Handed(j, {})
  BY <1>3 DEF Handed
<1>5. /\ Handed(i, {})' = Handed(i, {}) - share[i][w].n + share'[i][w].n
      /\ share[i][w].n <= Handed(i, {})
  <2>1. /\ Handed(i, {}) = Handed(i, {w}) + share[i][w].n
        /\ Handed(i, {})' = Handed(i, {w}) + share'[i][w].n
        /\ Handed(i, {w}) \in Nat /\ share[i][w].n \in Nat /\ share'[i][w].n \in Nat
    BY <1>0, <1>3, OneShareMoves
  <2> QED BY <2>1
<1>6. HandedOf' = [HandedOf EXCEPT ![i] = @ - share[i][w].n + share'[i][w].n]
  BY <1>4, <1>5 DEF HandedOf
<1>7. Handed(i, {})' <= qty[i]
  BY <1>0 DEF HandOutsFit
<1>8. share[i][w].n <= HandedOf[i] /\ HandedOf[i] - share[i][w].n + share'[i][w].n <= qty[i]
  BY <1>5, <1>7 DEF HandedOf
<1> QED BY <1>1, <1>2, <1>6, <1>8 DEF Ledger!HandOut

RecordsSome(q) == \E l \in Line, old, new \in 0..MaxQty : Ledger!Record(q, l, old, new)

LEMMA RegisterMaps ==
  ASSUME TotalsInv, TotalsInv', Next,
         NEW r \in Req, NEW e \in Entry, NEW n \in 0..MaxQty, RegisterProgress(r, e, n)
  PROVE  \E q \in Quote : RecordsSome(q)
<1>0. IInv /\ entry \in [Entry -> EntryType]
  BY DEF TotalsInv, IInv, TypeOK
<1>1. /\ pc[r] = "locked" /\ job[r].op = "register_progress" /\ Editable(r)
      /\ UNCHANGED <<quoteStatus, qty, project, payments, share>>
      /\ entry[e].st = "new" /\ job[r].item[1] = project[job[r].row].quote
  BY DEF RegisterProgress, Doing, OfTheProject
<1>2. PICK p \in Project : /\ p = job[r].row /\ project[p].status = "in_progress"
                           /\ project[p].quote \in Quote
  BY <1>0, <1>1, EditableProject DEF QuoteOps
<1>3. PICK q \in Quote : q = project[p].quote
  BY <1>2
<1>4. job[r].item \in Item
  BY <1>0, <1>1 DEF IInv, JobsMakeSense, MakesSense, Busy, ItemOps
<1>5. PICK l \in Line : job[r].item = <<q, l>>
  BY <1>1, <1>2, <1>3, <1>4 DEF Item
<1>6. /\ \A x \in Entry \ {e} : entry'[x] = entry[x]
      /\ entry'[e].st = "live" /\ entry'[e].project = p
      /\ entry'[e].item = <<q, l>> /\ entry'[e].n = n
  BY <1>0, <1>2, <1>5 DEF RegisterProgress
<1>7. 0 \in Nat /\ n \in Nat /\ 0 \in 0..MaxQty
  BY ItemsAssumption
<1>8. Ledger!Record(q, l, 0, n)
  BY <1>1, <1>2, <1>3, <1>6, <1>7, RecordMaps
<1> QED BY <1>7, <1>8 DEF RecordsSome

\* The entry of a request that may edit it is one of the request's project.
LEMMA EntryOfJob ==
  ASSUME IInv, JobsKnow, NEW r \in Req, pc[r] = "locked", job[r].op \in EntryOps, Editable(r)
  PROVE  \E e \in Entry, p \in Project, q \in Quote, l \in Line :
           /\ e = job[r].entry /\ entry[e].st # "new"
           /\ project[p].status = "in_progress" /\ q = project[p].quote
           /\ entry[e].project = p /\ entry[e].item = <<q, l>>
<1>1. PICK p \in Project : /\ p = job[r].row /\ project[p].status = "in_progress"
                           /\ project[p].quote \in Quote
  BY EditableProject DEF EntryOps, QuoteOps
<1>2. PICK e \in Entry : e = job[r].entry /\ entry[e].st # "new" /\ entry[e].project = p
  BY <1>1 DEF IInv, JobsMakeSense, MakesSense, Busy
<1>3. job[r].item \in Item /\ job[r].item = entry[e].item /\ job[r].item[1] = project[p].quote
  BY <1>1, <1>2 DEF JobsKnow, OfTheProject, IInv, JobsMakeSense, MakesSense, Busy
<1>4. PICK q \in Quote, l \in Line : entry[e].item = <<q, l>> /\ q = project[p].quote
  BY <1>3 DEF Item
<1> QED BY <1>1, <1>2, <1>4

LEMMA CorrectMaps ==
  ASSUME TotalsInv, TotalsInv', Next,
         NEW r \in Req, NEW n \in 0..MaxQty, NEW w \in Worker \cup {None},
         UpdateProgress(r, n, w)
  PROVE  \E q \in Quote : RecordsSome(q)
<1>0. IInv /\ JobsKnow /\ entry \in [Entry -> EntryType] /\ entry' \in [Entry -> EntryType]
  BY DEF TotalsInv, IInv, TypeOK
<1>1. /\ pc[r] = "locked" /\ job[r].op \in EntryOps /\ Editable(r)
      /\ UNCHANGED <<quoteStatus, qty, project, payments, share>>
  BY DEF UpdateProgress, Doing, EntryOps
<1>2. PICK e \in Entry, p \in Project, q \in Quote, l \in Line :
        /\ e = job[r].entry /\ entry[e].st # "new"
        /\ project[p].status = "in_progress" /\ q = project[p].quote
        /\ entry[e].project = p /\ entry[e].item = <<q, l>>
  BY <1>0, <1>1, EntryOfJob
<1>3. /\ \A x \in Entry \ {e} : entry'[x] = entry[x]
      /\ entry[e].st = "live" /\ entry'[e].st = "live"
      /\ entry'[e].project = p /\ entry'[e].item = <<q, l>>
  BY <1>0, <1>2 DEF UpdateProgress, Save
<1>4. PICK old \in 0..MaxQty : old = entry[e].n
  BY <1>0 DEF EntryType
<1>5. PICK new \in 0..MaxQty : new = entry'[e].n
  BY <1>0 DEF EntryType
<1>6. old \in Nat /\ new \in Nat
  BY ItemsAssumption
<1>7. Ledger!Record(q, l, old, new)
  BY <1>1, <1>2, <1>3, <1>4, <1>5, <1>6, RecordMaps
<1> QED BY <1>7 DEF RecordsSome

LEMMA UnrecordMaps ==
  ASSUME TotalsInv, TotalsInv', Next, NEW r \in Req, DeleteProgress(r)
  PROVE  \E q \in Quote : RecordsSome(q)
<1>0. IInv /\ JobsKnow /\ entry \in [Entry -> EntryType]
  BY DEF TotalsInv, IInv, TypeOK
<1>1. /\ pc[r] = "locked" /\ job[r].op \in EntryOps /\ Editable(r)
      /\ UNCHANGED <<quoteStatus, qty, project, payments, share>>
      /\ entry' = [entry EXCEPT ![job[r].entry].st = "gone"]
  BY DEF DeleteProgress, Doing, EntryOps
<1>2. PICK e \in Entry, p \in Project, q \in Quote, l \in Line :
        /\ e = job[r].entry /\ entry[e].st # "new"
        /\ project[p].status = "in_progress" /\ q = project[p].quote
        /\ entry[e].project = p /\ entry[e].item = <<q, l>>
  BY <1>0, <1>1, EntryOfJob
<1>3. \A x \in Entry \ {e} : entry'[x] = entry[x]
  BY <1>0, <1>1, <1>2
<1>4. entry'[e].st = "gone"
  BY <1>0, <1>1, <1>2 DEF EntryType
<1>5. PICK old \in 0..MaxQty : old = (IF entry[e].st = "live" THEN entry[e].n ELSE 0)
  BY <1>0, ItemsAssumption DEF EntryType
<1>6. old \in Nat /\ 0 \in Nat /\ 0 \in 0..MaxQty
  BY ItemsAssumption
<1>7. Ledger!Record(q, l, old, 0)
  BY <1>1, <1>2, <1>3, <1>4, <1>5, <1>6, RecordMaps
<1> QED BY <1>6, <1>7 DEF RecordsSome

-----------------------------------------------------------------------------
HandsOutSome(q) == \E l \in Line, old, new \in 0..MaxQty : Ledger!HandOut(q, l, old, new)

LEMMA AssignMaps ==
  ASSUME TotalsInv, TotalsInv', Next,
         NEW r \in Req, NEW n \in 0..MaxQty, NEW price \in Price \cup {None},
         AssignService(r, n, price)
  PROVE  \E q \in Quote : HandsOutSome(q)
<1>0. /\ IInv
      /\ share \in [Item -> [Worker -> [n : 0..MaxQty, price : Price \cup {None}]]]
      /\ share' \in [Item -> [Worker -> [n : 0..MaxQty, price : Price \cup {None}]]]
  BY DEF TotalsInv, IInv, TypeOK
<1>1. /\ pc[r] = "locked" /\ job[r].op = "assign_service"
      /\ UNCHANGED <<quoteStatus, qty, project, payments, entry>>
      /\ job[r].item[1] = project[job[r].row].quote
  BY DEF AssignService, Doing, OfTheProject
<1>2. job[r].item \in Item /\ job[r].worker \in Worker /\ job[r].row \in Project
  BY <1>0, <1>1 DEF IInv, JobsMakeSense, MakesSense, Busy, ItemOps, QuoteOps
<1>3. PICK p \in Project : p = job[r].row /\ project[p].status # "new"
  BY <1>0, <1>1, <1>2, HeldProject
<1>4. PICK q \in Quote, l \in Line : job[r].item = <<q, l>> /\ project[p].quote = q
  BY <1>1, <1>2, <1>3 DEF Item
<1>5. PICK i \in Item, w \in Worker : i = <<q, l>> /\ i = job[r].item /\ w = job[r].worker
  BY <1>2, <1>4
<1>6. PICK new : share' = [share EXCEPT ![i][w] = new]
  BY <1>5 DEF AssignService
<1>7. Ledger!HandOut(q, l, share[i][w].n, share'[i][w].n)
  BY <1>1, <1>3, <1>4, <1>5, <1>6, HandOutMaps
<1>8. share[i][w].n \in 0..MaxQty /\ share'[i][w].n \in 0..MaxQty
  BY <1>0
<1> QED BY <1>7, <1>8 DEF HandsOutSome

LEMMA TakeBackMaps ==
  ASSUME TotalsInv, TotalsInv', Next,
         NEW i \in Item, NEW w \in Worker, DeleteAssignment(i, w)
  PROVE  \E q \in Quote : HandsOutSome(q)
<1>0. /\ IInv
      /\ share \in [Item -> [Worker -> [n : 0..MaxQty, price : Price \cup {None}]]]
      /\ share' \in [Item -> [Worker -> [n : 0..MaxQty, price : Price \cup {None}]]]
  BY DEF TotalsInv, IInv, TypeOK
<1>1. /\ share[i][w].n > 0 /\ share' = [share EXCEPT ![i][w] = NoShare]
      /\ UNCHANGED <<quoteStatus, qty, project, payments, entry>>
  BY DEF DeleteAssignment
<1>2. PICK q \in Quote, l \in Line : i = <<q, l>>
  BY DEF Item
<1>3. PICK p \in Project : project[p].status # "new" /\ project[p].quote = q
  <2>1. ProjectsOf(i[1]) # {}
    BY <1>0, <1>1 DEF IInv, LedgerHangsTogether
  <2> QED BY <1>2, <2>1 DEF ProjectsOf
<1>4. Ledger!HandOut(q, l, share[i][w].n, share'[i][w].n)
  BY <1>1, <1>2, <1>3, HandOutMaps
<1>5. share[i][w].n \in 0..MaxQty /\ share'[i][w].n \in 0..MaxQty
  BY <1>0
<1> QED BY <1>4, <1>5 DEF HandsOutSome

-----------------------------------------------------------------------------
LEMMA InitMaps == Init => Ledger!Init
<1> SUFFICES ASSUME Init PROVE Ledger!Init
  OBVIOUS
<1>1. IInv
  BY InitIInv
<1>2. ASSUME NEW q \in Quote PROVE ProjectsOf(q) = {} /\ StageOf(q) = "none"
  BY DEF Init, ProjectsOf, StageOf
<1>3. /\ Stages = [q \in Quote |-> "none"]
      /\ EarnedOf = [q \in Quote |-> 0]
      /\ PaidOf = [q \in Quote |-> 0]
      /\ WaivedOf = [q \in Quote |-> FALSE]
  <2>1. Stages = [q \in Quote |-> "none"]
    BY <1>2 DEF Stages
  <2>2. \A q \in Quote : EarnedOf[q] = 0 /\ PaidOf[q] = 0 /\ WaivedOf[q] = FALSE
    BY <1>2, NoProjectMaps
  <2>3. EarnedOf = [q \in Quote |-> 0]
    BY <2>2 DEF EarnedOf
  <2>4. PaidOf = [q \in Quote |-> 0]
    BY <2>2 DEF PaidOf
  <2>5. WaivedOf = [q \in Quote |-> FALSE]
    BY <2>2 DEF WaivedOf
  <2> QED BY <2>1, <2>3, <2>4, <2>5
<1>4. /\ AdvancedOf = [i \in Item |-> 0]
      /\ HandedOf = [i \in Item |-> 0]
  <2>1. ASSUME NEW i \in Item PROVE Advanced(i, {}) = 0 /\ Handed(i, {}) = 0
    <3>1. quoteStatus[i[1]] # "in_project"
      BY DEF Init, Item
    <3> QED BY <1>1, <3>1, FreshItem
  <2> QED BY <2>1 DEF AdvancedOf, HandedOf
<1>5. qty = [i \in Item |-> 0]
  BY DEF Init
<1> QED BY <1>3, <1>4, <1>5 DEF Ledger!Init, Ledger!Item, Item

\* What moves no total moves nothing WorkLedger sees.
LEMMA SilentMaps ==
  ASSUME UNCHANGED <<quoteStatus, qty, project, entry, payments, share>>
  PROVE  UNCHANGED Ledger!vars
  BY MappedKept DEF Ledger!vars

LEMMA NextMaps ==
  ASSUME TotalsInv, TotalsInv', NewProjects, Next
  PROVE  [Ledger!Next]_(Ledger!vars)
<1>0. IInv /\ IInv' /\ CountsHold /\ counted \in [Req -> Int]
  BY DEF TotalsInv
<1>1. ASSUME NEW q \in Quote, NEW lines \in [Line -> 0..MaxQty], CreateQuote(q, lines)
      PROVE  Ledger!Next
  BY <1>0, <1>1, CreateMaps DEF Ledger!Next
<1>2. ASSUME NEW i \in Item, NEW w \in Worker, DeleteAssignment(i, w) PROVE Ledger!Next
  BY <1>2, TakeBackMaps DEF HandsOutSome, Ledger!Next
<1>3. ASSUME NEW w \in Worker, NEW price \in Price \cup {None}, SetWorkerServices(w, price)
      PROVE  UNCHANGED Ledger!vars
  BY <1>3, SilentMaps DEF SetWorkerServices
<1>4. ASSUME NEW r \in Req, Read(r) \/ LockRow(r) \/ Rollback(r) \/ Die(r) \/ DropFiles(r)
      PROVE  UNCHANGED Ledger!vars
  <2>1. UNCHANGED <<quoteStatus, qty, project, entry, payments, share>>
    BY <1>4, NoData DEF data, DropFiles
  <2> QED BY <2>1, SilentMaps
<1>5. ASSUME NEW r \in Req, Write(r) PROVE [Ledger!Next]_(Ledger!vars)
  <2>1. ASSUME NEW lines \in [Line -> 0..MaxQty], UpdateQuote(r, lines) PROVE Ledger!Next
    BY <1>0, <2>1, ReviseMaps DEF Ledger!Next
  <2>2. ASSUME DeleteQuote(r) PROVE Ledger!Next
    BY <1>0, <2>2, RemoveMaps DEF Ledger!Next
  <2>3. ASSUME NEW p \in Project, StartProject(r, p) PROVE Ledger!Next
    BY <1>0, <2>3, StartMaps DEF Ledger!Next
  <2>4. ASSUME NEW confirm \in BOOLEAN, FinalizeProject(r, confirm) PROVE Ledger!Next
    BY <1>0, <2>4, CloseMaps DEF Ledger!Next
  <2>5. ASSUME NEW e \in Entry, NEW n \in 0..MaxQty, RegisterProgress(r, e, n)
        PROVE  Ledger!Next
    BY <2>5, RegisterMaps DEF RecordsSome, Ledger!Next
  <2>6. ASSUME NEW n \in 0..MaxQty, NEW w \in Worker \cup {None}, UpdateProgress(r, n, w)
        PROVE  Ledger!Next
    BY <2>6, CorrectMaps DEF RecordsSome, Ledger!Next
  <2>7. ASSUME DeleteProgress(r) PROVE Ledger!Next
    BY <2>7, UnrecordMaps DEF RecordsSome, Ledger!Next
  <2>8. ASSUME NEW f \in Photo, StorePhoto(r, f) PROVE UNCHANGED Ledger!vars
    BY <2>8, SilentMaps DEF StorePhoto
  <2>9. ASSUME AddEvidence(r) \/ DeleteEvidence(r) PROVE UNCHANGED Ledger!vars
    BY <2>9, SilentMaps DEF AddEvidence, DeleteEvidence
  <2>10. ASSUME NEW amount \in 0..MaxAmount, RegisterPayment(r, amount) PROVE Ledger!Next
    <3>1. amount \in 1..MaxAmount
      BY <2>10, ItemsAssumption DEF RegisterPayment, Positive
    <3>2. PICK q \in Quote, a \in 1..MaxPaid : Ledger!Collect(q, a)
      BY <1>0, <2>10, <3>1, CollectMaps
    <3> QED BY <3>2 DEF Ledger!Next, Ledger!MaxPaid, MaxPaid
  <2>11. ASSUME NEW n \in 0..MaxQty, NEW price \in Price \cup {None},
                AssignService(r, n, price)
         PROVE  Ledger!Next
    BY <2>11, AssignMaps DEF HandsOutSome, Ledger!Next
  <2> QED BY <1>5, <2>1, <2>2, <2>3, <2>4, <2>5, <2>6, <2>7, <2>8, <2>9, <2>10, <2>11
          DEF Write
<1> QED BY <1>1, <1>2, <1>3, <1>4, <1>5 DEF Next

\* Every step of the requests, whatever they interleave, is one WorkLedger allows
\* or changes nothing it sees: they keep its whole promise.
THEOREM RequestsImplementLedger == Spec => ImplementsLedger
<1>1. Init => TotalsInv /\ NewProjects /\ Ledger!Init
  BY InitTotals, InitMaps DEF Init, NewProjects
<1>2. TotalsInv /\ NewProjects /\ [Next]_vars => TotalsInv' /\ NewProjects'
  <2>1. TotalsInv /\ NewProjects /\ UNCHANGED vars => NewProjects'
    BY DEF NewProjects, vars, data
  <2> QED BY <2>1, NextTotals, StutterTotals, NextNewProjects DEF TotalsInv
<1>3. TotalsInv /\ TotalsInv' /\ NewProjects /\ [Next]_vars => [Ledger!Next]_(Ledger!vars)
  <2>1. UNCHANGED vars => UNCHANGED Ledger!vars
    BY SilentMaps DEF vars, data
  <2> QED BY <2>1, NextMaps
<1> QED BY <1>1, <1>2, <1>3, PTL DEF Spec, ImplementsLedger, Ledger!Spec
=============================================================================
