------------------------------- MODULE Folios -------------------------------
(***************************************************************************)
(* apps/folios: the folio a document takes inside the transaction that     *)
(* creates it, and the settings that say how it is made.                   *)
(*                                                                         *)
(* A request reads the setting of its type of document (`Begin'), and      *)
(* either draws suffixes until one is new, or locks the counter of the     *)
(* prefix and counts from it.  `Register' is the insert under the unique   *)
(* index of IssuedFolio: it waits for a transaction that holds the same    *)
(* folio uncommitted.  The document, its folio and the counter are         *)
(* committed together; an error or a dead process undoes the three.        *)
(*                                                                         *)
(* One account; a folio is a pair of prefix and suffix.  A random suffix   *)
(* that reads as a number is that number, since then both modes can write  *)
(* the same folio (in the code, from eight digits on).                     *)
(***************************************************************************)
EXTENDS Integers

CONSTANTS
  Req,        \* requests that create documents at once
  Doc,        \* documents, by id
  Type,       \* types of document
  Prefix,     \* prefixes (claves), those of the random folios among them
  AutoPrefix, \* the prefix of each type's random folios
  Suffix,     \* what the generator may draw
  OldFolio,   \* the folio of each document older than the assignment, or None
  Attempts,   \* draws before a request gives up
  MaxNumber,  \* the largest number last_number holds
  None        \* "nothing": as a setting, random folios

Folio == Prefix \X (Suffix \cup Nat)

ASSUME FoliosAssumption ==
  /\ AutoPrefix \in [Type -> Prefix]
  /\ None \notin Req \cup Doc \cup Prefix \cup Folio
  /\ Attempts \in Nat \ {0} /\ MaxNumber \in Nat

\* Old documents were given folios that differ (backfill_legacy_folios).
ASSUME OldFoliosDiffer ==
  /\ OldFolio \in [Doc -> Folio \cup {None}]
  /\ \A d1, d2 \in Doc :
       OldFolio[d1] # None /\ OldFolio[d1] = OldFolio[d2] => d1 = d2

VARIABLES
  setting, \* the prefix of each type, None while its folios are random
  counter, \* last number given with each prefix
  issued,  \* every folio that came out
  folio,   \* the folio of each document, None while it does not exist
  gone,    \* documents deleted
  pc, job, \* each request: where it is, and the folio it is after
  lock     \* who holds the counter of each prefix

vars == <<setting, counter, issued, folio, gone, pc, job, lock>>

NoJob == [doc |-> None, prefix |-> None, sequential |-> FALSE,
          number |-> 0, tries |-> 0, want |-> None]

Init ==
  /\ setting = [t \in Type |-> None]
  /\ counter = [p \in Prefix |-> 0]
  /\ issued = {OldFolio[d] : d \in Doc} \ {None}
  /\ folio = OldFolio
  /\ gone = {}
  /\ pc = [r \in Req |-> "idle"]
  /\ job = [r \in Req |-> NoJob]
  /\ lock = [p \in Prefix |-> None]

-----------------------------------------------------------------------------
(* assign_folio. *)

\* The setting is read without a lock.
Begin(r, d, t) ==
  /\ pc[r] = "idle"
  /\ folio[d] = None /\ \A o \in Req : job[o].doc # d
  /\ job' = [job EXCEPT ![r] =
       [NoJob EXCEPT !.doc = d,
                     !.sequential = setting[t] # None,
                     !.prefix = IF setting[t] = None THEN AutoPrefix[t]
                                ELSE setting[t]]]
  /\ pc' = [pc EXCEPT ![r] = IF setting[t] = None THEN "next" ELSE "lock"]
  /\ UNCHANGED <<setting, counter, issued, folio, gone, lock>>

\* _locked_counter: a counter someone holds, or is creating, is waited for.
LockCounter(r) ==
  LET p == job[r].prefix IN
  /\ pc[r] = "lock"
  /\ lock[p] = None
  /\ lock' = [lock EXCEPT ![p] = r]
  /\ job' = [job EXCEPT ![r].number = counter[p]]
  /\ pc' = [pc EXCEPT ![r] = "next"]
  /\ UNCHANGED <<setting, counter, issued, folio, gone>>

Draw(r, s) ==
  /\ pc[r] = "next" /\ ~job[r].sequential
  /\ job[r].tries < Attempts
  /\ job' = [job EXCEPT ![r].want = <<job[r].prefix, s>>, ![r].tries = @ + 1]
  /\ pc' = [pc EXCEPT ![r] = "register"]
  /\ UNCHANGED <<setting, counter, issued, folio, gone, lock>>

CountOn(r) ==
  LET n == job[r].number + 1 IN
  /\ pc[r] = "next" /\ job[r].sequential
  /\ job[r].number < MaxNumber
  /\ job' = [job EXCEPT ![r].want = <<job[r].prefix, n>>, ![r].number = n]
  /\ pc' = [pc EXCEPT ![r] = "register"]
  /\ UNCHANGED <<setting, counter, issued, folio, gone, lock>>

\* The folios inserted by transactions that have not ended.
Uncommitted == {job[r].want : r \in {o \in Req : pc[o] = "registered"}}

\* Taken, as it would be without the unique index.
TakenByNobody(f) == FALSE

\* IssuedFolio's unique index: the folio came out before.
Taken(f) == f \in issued

\* _register: True, and the folio is the request's, or False, and it goes on.
Register(r) ==
  /\ pc[r] = "register"
  /\ job[r].want \notin Uncommitted
  /\ pc' = [pc EXCEPT ![r] = IF Taken(job[r].want) THEN "next" ELSE "registered"]
  /\ UNCHANGED <<setting, counter, issued, folio, gone, job, lock>>

-----------------------------------------------------------------------------
(* The end of the document's transaction. *)

\* End, as it would be if the counter stayed locked.
EndHolding(r) ==
  /\ pc' = [pc EXCEPT ![r] = "idle"]
  /\ job' = [job EXCEPT ![r] = NoJob]
  /\ UNCHANGED lock

End(r) ==
  /\ pc' = [pc EXCEPT ![r] = "idle"]
  /\ job' = [job EXCEPT ![r] = NoJob]
  /\ lock' = [p \in Prefix |-> IF lock[p] = r THEN None ELSE lock[p]]

\* The counter after the request: saved when its folio came from it.
CounterAfter(r) ==
  IF job[r].sequential THEN [counter EXCEPT ![job[r].prefix] = job[r].number]
  ELSE counter

Commit(r) ==
  /\ pc[r] = "registered"
  /\ folio' = [folio EXCEPT ![job[r].doc] = job[r].want]
  /\ issued' = issued \cup {job[r].want}
  /\ counter' = CounterAfter(r)
  /\ End(r)
  /\ UNCHANGED <<setting, gone>>

\* Undo, as it would be if the counter were saved in a transaction of its own.
UndoButTheCounter(r) ==
  /\ pc[r] = "registered"
  /\ counter' = CounterAfter(r)
  /\ End(r)
  /\ UNCHANGED <<setting, issued, folio, gone>>

\* An error in the service that creates the document, or a process that dies:
\* "the number returns to the counter".
Undo(r) ==
  /\ pc[r] # "idle"
  /\ End(r)
  /\ UNCHANGED <<setting, counter, issued, folio, gone>>

\* AUTO_EXHAUSTED: every draw came out before; or the column is full.
GiveUp(r) ==
  /\ pc[r] = "next"
  /\ IF job[r].sequential THEN job[r].number = MaxNumber
     ELSE job[r].tries = Attempts
  /\ End(r)
  /\ UNCHANGED <<setting, counter, issued, folio, gone>>

-----------------------------------------------------------------------------
(* configure_folios, and documents that are deleted. *)

\* What was issued and the counters stay: a prefix that returns goes on.
ConfigureFolios(t, p) ==
  /\ setting' = [setting EXCEPT ![t] = p]
  /\ UNCHANGED <<counter, issued, folio, gone, pc, job, lock>>

\* The folio of a deleted document stays issued.
DeleteDocument(d) ==
  /\ folio[d] # None /\ d \notin gone
  /\ gone' = gone \cup {d}
  /\ UNCHANGED <<setting, counter, issued, folio, pc, job, lock>>

\* A request goes on, whichever mode it is in.
Advance(r) ==
  \/ \E s \in Suffix : Draw(r, s)
  \/ CountOn(r)
  \/ Commit(r)
  \/ GiveUp(r)

Next ==
  \/ \E r \in Req, d \in Doc, t \in Type : Begin(r, d, t)
  \/ \E r \in Req : LockCounter(r) \/ Register(r) \/ Advance(r) \/ Undo(r)
  \/ \E t \in Type, p \in Prefix \cup {None} : ConfigureFolios(t, p)
  \/ \E d \in Doc : DeleteDocument(d)

Spec == Init /\ [][Next]_vars

\* The server runs the requests it accepted, and the database serves in turn
\* those that wait for a counter or for someone else's uncommitted folio.
Fairness ==
  \A r \in Req : SF_vars(LockCounter(r)) /\ SF_vars(Register(r)) /\ WF_vars(Advance(r))

FairSpec == Spec /\ Fairness

-----------------------------------------------------------------------------
(* Properties. *)

PCs == {"idle", "lock", "next", "register", "registered"}

JobType ==
  [doc : Doc \cup {None}, prefix : Prefix \cup {None}, sequential : BOOLEAN,
   number : 0..MaxNumber, tries : 0..Attempts, want : Folio \cup {None}]

\* Every row and every request has its shape; a request draws no more than
\* AUTO_ATTEMPTS times.
TypeOK ==
  /\ setting \in [Type -> Prefix \cup {None}]
  /\ counter \in [Prefix -> 0..MaxNumber]
  /\ issued \subseteq Folio
  /\ folio \in [Doc -> Folio \cup {None}]
  /\ gone \subseteq Doc
  /\ pc \in [Req -> PCs]
  /\ job \in [Req -> JobType]
  /\ lock \in [Prefix -> Req \cup {None}]

\* No two documents of the account ever have the same folio, whatever their
\* types, their settings when they took it, and whether they still exist
\* (folios_issued_unique_per_owner; "not deleted with the document").
FoliosDiffer ==
  \A d1, d2 \in Doc : folio[d1] # None /\ folio[d1] = folio[d2] => d1 = d2

\* Every number a counter went through is on a document: one undone leaves no
\* gap ("the number returns to the counter", assign_folio).
NoGaps ==
  \A p \in Prefix : \A n \in 1..counter[p] : \E d \in Doc : folio[d] = <<p, n>>

\* A counter only rises ("the counter only goes up", assign_folio), also when
\* a prefix is left and chosen again.
CounterNeverFalls == [][\A p \in Prefix : counter'[p] >= counter[p]]_vars

\* A document being created ends, with its folio or without: no two of them
\* wait for each other's counter or folio.
EveryDocumentEnds == \A r \in Req : pc[r] # "idle" ~> pc[r] = "idle"

\* Every step of the requests is one of FolioBook's, or none: a document takes
\* at once a folio nobody had, in its prefix the first free number after the
\* counter.
Book == INSTANCE FolioBook
ImplementsBook == Book!Spec

=============================================================================
