---------------------------- MODULE FoliosProofs ----------------------------
(***************************************************************************)
(* Folios keeps its promise for every set of requests, documents, types    *)
(* and prefixes: it implements FolioBook.  A step of a request says        *)
(* nothing of the folios other requests are after, so the invariant must:  *)
(* the folios issued are those on documents, what a request has registered *)
(* is nobody else's, and between the counter it locked and the number it   *)
(* is at every number came out before.                                     *)
(***************************************************************************)
EXTENDS Folios, TLAPS

\* The register and the documents say the same.
IssuedIsGiven == issued = {folio[d] : d \in Doc} \ {None}

\* The document of a request is its own, and has no folio yet.
OwnDocument ==
  /\ \A r \in Req : pc[r] # "idle" => /\ job[r].doc \in Doc
                                      /\ folio[job[r].doc] = None
                                      /\ job[r].prefix \in Prefix
  /\ \A r \in Req : pc[r] = "idle" => job[r].doc = None
  /\ \A r1, r2 \in Req : job[r1].doc # None /\ job[r1].doc = job[r2].doc => r1 = r2

\* Past the lock, and after a folio from its prefix's counter.
Counting(r) == pc[r] \in {"next", "register", "registered"} /\ job[r].sequential

\* The numbers a counting request has passed over.
Passed(r) ==
  IF pc[r] = "next" THEN counter[job[r].prefix] + 1 .. job[r].number
  ELSE counter[job[r].prefix] + 1 .. job[r].number - 1

\* A request that counts holds its counter, and passed over issued folios only.
CountsOn ==
  /\ \A r \in Req : pc[r] = "lock" => job[r].sequential
  /\ \A r \in Req : Counting(r) =>
       /\ lock[job[r].prefix] = r
       /\ job[r].number >= counter[job[r].prefix]
       /\ \A m \in Passed(r) : <<job[r].prefix, m>> \in issued

\* What a request is after has the form of its mode.
WantsItsFolio ==
  \A r \in Req : pc[r] \in {"register", "registered"} =>
    IF job[r].sequential
    THEN /\ job[r].number > counter[job[r].prefix]
         /\ job[r].want = <<job[r].prefix, job[r].number>>
    ELSE \E s \in Suffix : job[r].want = <<job[r].prefix, s>>

\* A registered folio is new, and one request's only.
RegisteredIsNew ==
  /\ \A r \in Req : pc[r] = "registered" => job[r].want \notin issued
  /\ \A r1, r2 \in Req :
       /\ pc[r1] = "registered" /\ pc[r2] = "registered"
       /\ job[r1].want = job[r2].want
       => r1 = r2

IInv == /\ TypeOK /\ IssuedIsGiven /\ OwnDocument /\ CountsOn /\ WantsItsFolio
        /\ RegisteredIsNew /\ FoliosDiffer /\ NoGaps

-----------------------------------------------------------------------------
USE FoliosAssumption

LEMMA InitIInv == Init => IInv
<1> SUFFICES ASSUME Init PROVE IInv
  OBVIOUS
<1>1. TypeOK
  BY OldFoliosDiffer DEF Init, TypeOK, JobType, NoJob, PCs
<1>2. IssuedIsGiven /\ OwnDocument
  BY DEF Init, IssuedIsGiven, OwnDocument, NoJob
<1>3. CountsOn /\ WantsItsFolio /\ RegisteredIsNew
  BY DEF Init, CountsOn, Counting, WantsItsFolio, RegisteredIsNew
<1>4. FoliosDiffer /\ NoGaps
  BY OldFoliosDiffer DEF Init, FoliosDiffer, NoGaps
<1> QED
  BY <1>1, <1>2, <1>3, <1>4 DEF IInv

\* A request's record, field by field.
LEMMA JobFields ==
  ASSUME TypeOK, NEW r \in Req
  PROVE  /\ job[r] \in JobType
         /\ job[r].doc \in Doc \cup {None} /\ job[r].prefix \in Prefix \cup {None}
         /\ job[r].sequential \in BOOLEAN /\ job[r].number \in 0..MaxNumber
         /\ job[r].tries \in 0..Attempts /\ job[r].want \in Folio \cup {None}
  BY DEF TypeOK, JobType

\* What a request is after when it registers is a folio.
LEMMA WantIsAFolio ==
  ASSUME TypeOK, WantsItsFolio, NEW r \in Req, job[r].prefix \in Prefix,
         pc[r] \in {"register", "registered"}
  PROVE  job[r].want \in Folio
<1>1. CASE job[r].sequential
  <2>1. job[r].want = <<job[r].prefix, job[r].number>>
    BY <1>1 DEF WantsItsFolio
  <2>2. job[r].number \in Nat
    BY JobFields
  <2> QED
    BY <2>1, <2>2 DEF Folio
<1>2. CASE ~job[r].sequential
  <2>1. PICK s \in Suffix : job[r].want = <<job[r].prefix, s>>
    BY <1>2 DEF WantsItsFolio
  <2> QED
    BY <2>1 DEF Folio
<1> QED
  BY <1>1, <1>2

LEMMA NoJobType == NoJob \in JobType
  BY DEF NoJob, JobType

\* How a transaction ends, for the shapes.
LEMMA EndType ==
  ASSUME TypeOK, NEW r \in Req, End(r)
  PROVE  /\ pc' \in [Req -> PCs] /\ job' \in [Req -> JobType]
         /\ lock' \in [Prefix -> Req \cup {None}]
  BY NoJobType DEF TypeOK, End, PCs

LEMMA NextTypeOK == TypeOK /\ OwnDocument /\ CountsOn /\ WantsItsFolio /\ [Next]_vars => TypeOK'
<1> SUFFICES ASSUME TypeOK, OwnDocument, CountsOn, WantsItsFolio, [Next]_vars
             PROVE TypeOK'
  OBVIOUS
<1>1. ASSUME NEW r \in Req, NEW d \in Doc, NEW t \in Type, Begin(r, d, t)
      PROVE TypeOK'
  <2>1. job' \in [Req -> JobType]
    <3> DEFINE p == IF setting[t] = None THEN AutoPrefix[t] ELSE setting[t]
               b == setting[t] # None
               j == [NoJob EXCEPT !.doc = d, !.sequential = b, !.prefix = p]
    <3>1. p \in Prefix /\ b \in BOOLEAN
      BY DEF TypeOK
    <3> HIDE DEF p, b
    <3>3. j \in JobType
      BY <3>1, NoJobType DEF JobType, NoJob
    <3> USE DEF p, b
    <3>4. job' = [job EXCEPT ![r] = j]
      BY <1>1 DEF Begin
    <3> HIDE DEF j
    <3> QED
      BY <3>3, <3>4 DEF TypeOK
  <2>2. pc' \in [Req -> PCs]
    BY <1>1 DEF Begin, TypeOK, PCs
  <2> QED
    BY <1>1, <2>1, <2>2 DEF Begin, TypeOK
<1>2. ASSUME NEW r \in Req, LockCounter(r) PROVE TypeOK'
  <2>1. job[r].prefix \in Prefix
    BY <1>2 DEF LockCounter, OwnDocument
  <2>2. job' \in [Req -> JobType]
    BY <1>2, <2>1, JobFields DEF LockCounter, TypeOK, JobType
  <2>3. pc' \in [Req -> PCs] /\ lock' \in [Prefix -> Req \cup {None}]
    BY <1>2 DEF LockCounter, TypeOK, PCs
  <2> QED
    BY <1>2, <2>2, <2>3 DEF LockCounter, TypeOK
<1>3. ASSUME NEW r \in Req, Register(r) PROVE TypeOK'
  BY <1>3 DEF Register, TypeOK, PCs
<1>4. ASSUME NEW r \in Req, NEW s \in Suffix, Draw(r, s) PROVE TypeOK'
  <2>1. <<job[r].prefix, s>> \in Folio
    BY <1>4 DEF Draw, OwnDocument, Folio
  <2>2. job[r].tries + 1 \in 0..Attempts
    BY <1>4, JobFields DEF Draw
  <2>3. job' \in [Req -> JobType]
    BY <1>4, <2>1, <2>2, JobFields DEF Draw, TypeOK, JobType
  <2> QED
    BY <1>4, <2>3 DEF Draw, TypeOK, PCs
<1>5. ASSUME NEW r \in Req, CountOn(r) PROVE TypeOK'
  <2>1. job[r].number + 1 \in 0..MaxNumber
    BY <1>5, JobFields DEF CountOn
  <2>2. <<job[r].prefix, job[r].number + 1>> \in Folio
    BY <1>5, <2>1 DEF CountOn, OwnDocument, Folio
  <2>3. job' \in [Req -> JobType]
    BY <1>5, <2>1, <2>2, JobFields DEF CountOn, TypeOK, JobType
  <2> QED
    BY <1>5, <2>3 DEF CountOn, TypeOK, PCs
<1>6. ASSUME NEW r \in Req, Commit(r) PROVE TypeOK'
  <2>1. job[r].want \in Folio
    <3>1. job[r].prefix \in Prefix
      BY <1>6 DEF Commit, OwnDocument
    <3> QED
      BY <1>6, <3>1, WantIsAFolio DEF Commit
  <2>2. folio' \in [Doc -> Folio \cup {None}] /\ issued' \subseteq Folio
    BY <1>6, <2>1 DEF Commit, TypeOK
  <2>3. counter' \in [Prefix -> 0..MaxNumber]
    BY <1>6, JobFields DEF Commit, CounterAfter, TypeOK
  <2> QED
    BY <1>6, <2>2, <2>3, EndType DEF Commit, TypeOK
<1>7. ASSUME NEW r \in Req, Undo(r) \/ GiveUp(r) PROVE TypeOK'
  BY <1>7, EndType DEF Undo, GiveUp, TypeOK
<1>8. ASSUME NEW t \in Type, NEW p \in Prefix \cup {None}, ConfigureFolios(t, p)
      PROVE TypeOK'
  BY <1>8 DEF ConfigureFolios, TypeOK
<1>9. ASSUME NEW d \in Doc, DeleteDocument(d) PROVE TypeOK'
  BY <1>9 DEF DeleteDocument, TypeOK
<1>10. CASE UNCHANGED vars
  BY <1>10 DEF vars, TypeOK
<1> QED
  BY <1>1, <1>2, <1>3, <1>4, <1>5, <1>6, <1>7, <1>8, <1>9, <1>10 DEF Next, Advance

-----------------------------------------------------------------------------
\* Only a commit changes what is issued, a folio or a counter.
LEMMA OnlyCommitWrites ==
  ASSUME [Next]_vars, ~\E r \in Req : Commit(r)
  PROVE  UNCHANGED <<issued, folio, counter>>
  BY DEF Next, Advance, Begin, LockCounter, Register, Draw, CountOn, Undo, GiveUp,
         ConfigureFolios, DeleteDocument, vars

\* What a commit writes.
LEMMA CommitFacts ==
  ASSUME IInv, NEW r \in Req, Commit(r)
  PROVE  /\ job[r].doc \in Doc /\ folio[job[r].doc] = None
         /\ job[r].prefix \in Prefix
         /\ job[r].want \in Folio /\ job[r].want # None
         /\ job[r].want \notin issued
         /\ folio'[job[r].doc] = job[r].want
         /\ \A d \in Doc \ {job[r].doc} : folio'[d] = folio[d]
         /\ issued' = issued \cup {job[r].want}
<1>1. /\ job[r].doc \in Doc /\ folio[job[r].doc] = None /\ job[r].prefix \in Prefix
      /\ job[r].want \notin issued
  BY DEF IInv, Commit, OwnDocument, RegisteredIsNew
<1>2. job[r].want \in Folio
  BY <1>1, WantIsAFolio DEF IInv, Commit
<1>3. folio \in [Doc -> Folio \cup {None}]
  BY DEF IInv, TypeOK
<1> QED
  BY <1>1, <1>2, <1>3 DEF Commit

LEMMA NextIssuedIsGiven == IInv /\ [Next]_vars => IssuedIsGiven'
<1> SUFFICES ASSUME IInv, [Next]_vars PROVE IssuedIsGiven'
  OBVIOUS
<1>1. CASE \E r \in Req : Commit(r)
  <2>1. PICK r \in Req : Commit(r)
    BY <1>1
  <2> QED
    BY <2>1, CommitFacts DEF IInv, IssuedIsGiven
<1>2. CASE ~\E r \in Req : Commit(r)
  BY <1>2, OnlyCommitWrites DEF IInv, IssuedIsGiven
<1> QED
  BY <1>1, <1>2

LEMMA NextFoliosDiffer == IInv /\ [Next]_vars => FoliosDiffer'
<1> SUFFICES ASSUME IInv, [Next]_vars PROVE FoliosDiffer'
  OBVIOUS
<1>1. CASE \E r \in Req : Commit(r)
  <2>1. PICK r \in Req : Commit(r)
    BY <1>1
  <2>2. \A d \in Doc : folio[d] # job[r].want
    BY <2>1, CommitFacts DEF IInv, IssuedIsGiven
  <2> QED
    BY <2>1, <2>2, CommitFacts DEF IInv, FoliosDiffer
<1>2. CASE ~\E r \in Req : Commit(r)
  BY <1>2, OnlyCommitWrites DEF IInv, FoliosDiffer
<1> QED
  BY <1>1, <1>2

-----------------------------------------------------------------------------
\* Where a request goes, step by step, and that others stay where they are.
LEMMA StepFacts ==
  ASSUME TypeOK, NEW r \in Req,
         LockCounter(r) \/ Register(r) \/ Advance(r) \/ Undo(r)
  PROVE  /\ \A o \in Req \ {r} : pc'[o] = pc[o] /\ job'[o] = job[o]
         /\ \/ /\ pc'[r] = "idle" /\ job'[r] = NoJob
               /\ \A p \in Prefix : lock'[p] = IF lock[p] = r THEN None ELSE lock[p]
            \/ /\ pc[r] # "idle" /\ pc'[r] # "idle"
               /\ job'[r].doc = job[r].doc /\ job'[r].prefix = job[r].prefix
               /\ job'[r].sequential = job[r].sequential
<1>0. /\ pc \in [Req -> PCs] /\ job \in [Req -> JobType]
      /\ lock \in [Prefix -> Req \cup {None}]
  BY DEF TypeOK
<1>1. ASSUME End(r)
      PROVE  /\ \A o \in Req \ {r} : pc'[o] = pc[o] /\ job'[o] = job[o]
             /\ pc'[r] = "idle" /\ job'[r] = NoJob
             /\ \A p \in Prefix : lock'[p] = IF lock[p] = r THEN None ELSE lock[p]
  BY <1>0, <1>1 DEF End
<1>2. CASE Commit(r) \/ GiveUp(r) \/ Undo(r)
  BY <1>1, <1>2 DEF Commit, GiveUp, Undo
<1>3. CASE LockCounter(r)
  BY <1>0, <1>3 DEF LockCounter, JobType
<1>4. CASE Register(r)
  BY <1>0, <1>4 DEF Register, JobType
<1>5. ASSUME NEW s \in Suffix, Draw(r, s)
      PROVE  /\ \A o \in Req \ {r} : pc'[o] = pc[o] /\ job'[o] = job[o]
             /\ pc[r] # "idle" /\ pc'[r] # "idle"
             /\ job'[r].doc = job[r].doc /\ job'[r].prefix = job[r].prefix
             /\ job'[r].sequential = job[r].sequential
  BY <1>0, <1>5 DEF Draw, JobType
<1>6. CASE CountOn(r)
  BY <1>0, <1>6 DEF CountOn, JobType
<1> QED
  BY <1>2, <1>3, <1>4, <1>5, <1>6 DEF Advance

\* What a request is when it begins.
LEMMA BeginFacts ==
  ASSUME TypeOK, NEW r \in Req, NEW d \in Doc, NEW t \in Type, Begin(r, d, t)
  PROVE  /\ \A o \in Req \ {r} : pc'[o] = pc[o] /\ job'[o] = job[o]
         /\ pc[r] = "idle" /\ job'[r].doc = d /\ folio[d] = None
         /\ \A o \in Req : job[o].doc # d
         /\ job'[r].prefix \in Prefix /\ job'[r].number = 0
         /\ job'[r].sequential \in BOOLEAN
         /\ IF job'[r].sequential THEN pc'[r] = "lock" ELSE pc'[r] = "next"
<1> DEFINE p == IF setting[t] = None THEN AutoPrefix[t] ELSE setting[t]
           b == setting[t] # None
           j == [NoJob EXCEPT !.doc = d, !.sequential = b, !.prefix = p]
<1>1. p \in Prefix /\ b \in BOOLEAN
  BY DEF TypeOK
<1>2. job'[r] = j /\ \A o \in Req \ {r} : job'[o] = job[o]
  BY DEF Begin, TypeOK
<1>3. pc'[r] = (IF b THEN "lock" ELSE "next") /\ \A o \in Req \ {r} : pc'[o] = pc[o]
  BY DEF Begin, TypeOK
<1>4. /\ pc[r] = "idle" /\ folio[d] = None
      /\ \A o \in Req : job[o].doc # d
  BY DEF Begin
<1> HIDE DEF p, b
<1>5. j.doc = d /\ j.prefix = p /\ j.number = 0 /\ j.sequential = b
  BY DEF NoJob
<1> HIDE DEF j
<1> QED
  BY <1>1, <1>2, <1>3, <1>4, <1>5

\* Settings and deletions touch no request.
LEMMA OutsideFacts ==
  ASSUME \/ \E t \in Type, p \in Prefix \cup {None} : ConfigureFolios(t, p)
         \/ \E d \in Doc : DeleteDocument(d)
         \/ UNCHANGED vars
  PROVE  UNCHANGED <<counter, issued, folio, pc, job, lock>>
  BY DEF ConfigureFolios, DeleteDocument, vars

\* The steps, by the request that takes them.
LEMMA NextCases ==
  ASSUME [Next]_vars
  PROVE  \/ \E r \in Req, d \in Doc, t \in Type : Begin(r, d, t)
         \/ \E r \in Req : LockCounter(r) \/ Register(r) \/ Advance(r) \/ Undo(r)
         \/ UNCHANGED <<counter, issued, folio, pc, job, lock>>
  BY OutsideFacts DEF Next

LEMMA NextOwnDocument == IInv /\ [Next]_vars => OwnDocument'
<1> SUFFICES ASSUME IInv, [Next]_vars PROVE OwnDocument'
  OBVIOUS
<1>0. TypeOK /\ OwnDocument
  BY DEF IInv
<1>1. ASSUME NEW r \in Req, NEW d \in Doc, NEW t \in Type, Begin(r, d, t)
      PROVE OwnDocument'
  <2>1. folio' = folio
    BY <1>1 DEF Begin
  <2> QED
    BY <1>0, <1>1, <2>1, BeginFacts DEF OwnDocument
<1>2. ASSUME NEW r \in Req, Commit(r) PROVE OwnDocument'
  <2>1. /\ pc'[r] = "idle" /\ job'[r] = NoJob
        /\ \A o \in Req \ {r} : pc'[o] = pc[o] /\ job'[o] = job[o]
    BY <1>0, <1>2 DEF Commit, End, TypeOK
  <2>2. \A o \in Req \ {r} : pc[o] # "idle" => folio'[job[o].doc] = None
    BY <1>0, <1>2, CommitFacts DEF OwnDocument
  <2>3. NoJob.doc = None
    BY DEF NoJob
  <2> QED
    BY <1>0, <2>1, <2>2, <2>3 DEF OwnDocument
<1>3. ASSUME NEW r \in Req, ~Commit(r),
             LockCounter(r) \/ Register(r) \/ Advance(r) \/ Undo(r)
      PROVE OwnDocument'
  <2>1. folio' = folio
    BY <1>3 DEF LockCounter, Register, Advance, Draw, CountOn, GiveUp, Undo
  <2>2. NoJob.doc = None
    BY DEF NoJob
  <2> QED
    BY <1>0, <1>3, <2>1, <2>2, StepFacts DEF OwnDocument
<1>4. CASE UNCHANGED <<counter, issued, folio, pc, job, lock>>
  BY <1>0, <1>4 DEF OwnDocument
<1> QED
  BY <1>1, <1>2, <1>3, <1>4, NextCases


\* A request that stays where it is counts on as before, when its counter is
\* not touched and nothing issued is lost.
LEMMA OthersCountOn ==
  ASSUME IInv, NEW o \in Req, pc'[o] = pc[o], job'[o] = job[o],
         issued \subseteq issued',
         Counting(o) => /\ lock'[job[o].prefix] = lock[job[o].prefix]
                        /\ counter'[job[o].prefix] = counter[job[o].prefix]
  PROVE  /\ pc'[o] = "lock" => job'[o].sequential
         /\ Counting(o)' =>
              /\ lock'[job'[o].prefix] = o
              /\ job'[o].number >= counter'[job'[o].prefix]
              /\ \A m \in Passed(o)' : <<job'[o].prefix, m>> \in issued'
<1>1. Counting(o)' = Counting(o)
  BY DEF Counting
<1>2. Counting(o) => Passed(o)' = Passed(o)
  BY DEF Passed
<1> QED
  BY <1>1, <1>2 DEF IInv, CountsOn

LEMMA NextCountsOn == IInv /\ [Next]_vars => CountsOn'
<1> SUFFICES ASSUME IInv, [Next]_vars PROVE CountsOn'
  OBVIOUS
<1> DEFINE Fine(o) == /\ pc[o] = "lock" => job[o].sequential
                      /\ Counting(o) =>
                           /\ lock[job[o].prefix] = o
                           /\ job[o].number >= counter[job[o].prefix]
                           /\ \A m \in Passed(o) : <<job[o].prefix, m>> \in issued
<1>0. /\ TypeOK /\ OwnDocument /\ CountsOn
      /\ \A o \in Req : Fine(o)
  BY DEF IInv, CountsOn
<1>A. SUFFICES \A o \in Req : Fine(o)'
  BY DEF CountsOn, Counting, Passed
<1>1. ASSUME NEW r \in Req, NEW d \in Doc, NEW t \in Type, Begin(r, d, t)
      PROVE \A o \in Req : Fine(o)'
  <2>1. UNCHANGED <<counter, issued, lock>>
    BY <1>1 DEF Begin
  <2>2. Fine(r)'
    BY <1>0, <1>1, BeginFacts DEF Counting
  <2>3. \A o \in Req \ {r} : Fine(o)'
    BY <1>0, <1>1, <2>1, BeginFacts, OthersCountOn
  <2> QED
    BY <2>2, <2>3
<1>2. ASSUME NEW r \in Req, LockCounter(r) PROVE \A o \in Req : Fine(o)'
  <2>1. /\ job[r].prefix \in Prefix /\ job[r].sequential
        /\ counter[job[r].prefix] \in Nat
    BY <1>0, <1>2 DEF LockCounter, OwnDocument, TypeOK
  <2>2. /\ pc'[r] = "next" /\ lock'[job[r].prefix] = r
        /\ job'[r].prefix = job[r].prefix
        /\ job'[r].number = counter[job[r].prefix]
        /\ counter' = counter /\ issued' = issued
    BY <1>0, <1>2, <2>1 DEF LockCounter, TypeOK, JobType
  <2>3. Passed(r)' = {}
    BY <2>1, <2>2 DEF Passed
  <2>4. Fine(r)'
    BY <2>1, <2>2, <2>3
  <2>5. ASSUME NEW o \in Req \ {r} PROVE Fine(o)'
    <3>1. pc'[o] = pc[o] /\ job'[o] = job[o]
      BY <1>0, <1>2, StepFacts
    <3>2. Counting(o) => lock[job[o].prefix] = o
      BY <1>0
    <3>3. Counting(o) => job[o].prefix # job[r].prefix
      BY <1>2, <3>2 DEF LockCounter
    <3>4. Counting(o) => lock'[job[o].prefix] = lock[job[o].prefix]
      BY <1>0, <1>2, <3>3 DEF LockCounter, TypeOK, OwnDocument, Counting
    <3> QED
      BY <2>2, <3>1, <3>4, OthersCountOn
  <2> QED
    BY <2>4, <2>5
<1>3. ASSUME NEW r \in Req, Register(r) PROVE \A o \in Req : Fine(o)'
  <2>1. UNCHANGED <<counter, issued, lock, job>>
    BY <1>3 DEF Register
  <2>2. pc[r] = "register" /\ pc'[r] = (IF job[r].want \in issued THEN "next" ELSE "registered")
    BY <1>0, <1>3 DEF Register, Taken, TypeOK
  <2>3. ASSUME job[r].sequential
        PROVE  \A m \in Passed(r)' : <<job[r].prefix, m>> \in issued
    <3>1. /\ counter[job[r].prefix] \in Int /\ job[r].number \in Int
      BY <1>0, <1>3, JobFields DEF Register, OwnDocument, TypeOK
    <3>2. Counting(r)
      BY <2>2, <2>3 DEF Counting
    <3>3. \A m \in counter[job[r].prefix] + 1 .. job[r].number - 1 :
            <<job[r].prefix, m>> \in issued
      BY <1>0, <2>2, <3>2 DEF Passed
    <3>4. job[r].want = <<job[r].prefix, job[r].number>>
      BY <2>2, <2>3 DEF IInv, WantsItsFolio
    <3>5. CASE job[r].want \in issued
      <4>1. Passed(r)' = counter[job[r].prefix] + 1 .. job[r].number
        BY <2>1, <2>2, <3>5 DEF Passed
      <4> QED
        BY <3>1, <3>3, <3>4, <3>5, <4>1
    <3>6. CASE job[r].want \notin issued
      <4>1. Passed(r)' = counter[job[r].prefix] + 1 .. job[r].number - 1
        BY <2>1, <2>2, <3>6 DEF Passed
      <4> QED
        BY <3>3, <4>1
    <3> QED
      BY <3>5, <3>6
  <2>4. Fine(r)'
    BY <1>0, <2>1, <2>2, <2>3 DEF Counting
  <2>5. \A o \in Req \ {r} : Fine(o)'
    BY <1>0, <1>3, <2>1, StepFacts, OthersCountOn
  <2> QED
    BY <2>4, <2>5
<1>4. ASSUME NEW r \in Req, NEW s \in Suffix, Draw(r, s) PROVE \A o \in Req : Fine(o)'
  <2>1. UNCHANGED <<counter, issued, lock>>
    BY <1>4 DEF Draw
  <2>2. Advance(r)
    BY <1>4 DEF Advance
  <2>3. pc'[r] = "register" /\ ~job'[r].sequential
    BY <1>0, <1>4 DEF Draw, TypeOK, JobType
  <2>4. Fine(r)'
    BY <2>3 DEF Counting
  <2>5. \A o \in Req \ {r} : Fine(o)'
    BY <1>0, <2>1, <2>2, StepFacts, OthersCountOn
  <2> QED
    BY <2>4, <2>5
<1>5. ASSUME NEW r \in Req, CountOn(r) PROVE \A o \in Req : Fine(o)'
  <2>1. UNCHANGED <<counter, issued, lock>>
    BY <1>5 DEF CountOn
  <2>2. Advance(r)
    BY <1>5 DEF Advance
  <2>3. /\ pc[r] = "next" /\ pc'[r] = "register" /\ job[r].sequential
        /\ job'[r].number = job[r].number + 1 /\ job'[r].prefix = job[r].prefix
    BY <1>0, <1>5 DEF CountOn, TypeOK, JobType
  <2>4. /\ counter[job[r].prefix] \in Int /\ job[r].number \in Int
    BY <1>0, <2>3, JobFields DEF OwnDocument, TypeOK
  <2>5. Passed(r)' = Passed(r)
    BY <2>1, <2>3, <2>4 DEF Passed
  <2>6. Counting(r)
    BY <2>3 DEF Counting
  <2>7. Fine(r)'
    BY <1>0, <2>1, <2>3, <2>4, <2>5, <2>6
  <2>8. \A o \in Req \ {r} : Fine(o)'
    BY <1>0, <2>1, <2>2, StepFacts, OthersCountOn
  <2> QED
    BY <2>7, <2>8
<1>6. ASSUME NEW r \in Req, End(r), Commit(r) \/ GiveUp(r) \/ Undo(r)
      PROVE \A o \in Req : Fine(o)'
  <2>1. pc'[r] = "idle"
    BY <1>0, <1>6 DEF End, TypeOK
  <2>2. Fine(r)'
    BY <2>1 DEF Counting
  <2>3. issued \subseteq issued'
    BY <1>6 DEF Commit, GiveUp, Undo
  <2>4. ASSUME NEW o \in Req \ {r} PROVE Fine(o)'
    <3>1. pc'[o] = pc[o] /\ job'[o] = job[o]
      BY <1>0, <1>6 DEF End, TypeOK
    <3>2. Counting(o) => lock[job[o].prefix] = o /\ job[o].prefix \in Prefix
      BY <1>0 DEF Counting, OwnDocument
    <3>3. Counting(o) => lock'[job[o].prefix] = lock[job[o].prefix]
      BY <1>0, <1>6, <3>2 DEF End, TypeOK
    <3>4. Counting(o) => counter'[job[o].prefix] = counter[job[o].prefix]
      <4>1. CASE Commit(r) /\ job[r].sequential
        <5>1. Counting(r)
          BY <4>1 DEF Commit, Counting
        <5>2. Counting(o) => job[o].prefix # job[r].prefix
          BY <1>0, <3>2, <5>1
        <5> QED
          BY <1>0, <3>2, <4>1, <5>2 DEF Commit, CounterAfter, TypeOK
      <4>2. CASE Commit(r) /\ ~job[r].sequential
        BY <4>2 DEF Commit, CounterAfter
      <4>3. CASE GiveUp(r) \/ Undo(r)
        BY <4>3 DEF GiveUp, Undo
      <4> QED
        BY <1>6, <4>1, <4>2, <4>3
    <3> QED
      BY <2>3, <3>1, <3>3, <3>4, OthersCountOn
  <2> QED
    BY <2>2, <2>4
<1>7. CASE UNCHANGED <<counter, issued, folio, pc, job, lock>>
  BY <1>0, <1>7 DEF Counting, Passed
<1>8. \A r \in Req : Commit(r) \/ GiveUp(r) \/ Undo(r) => End(r)
  BY DEF Commit, GiveUp, Undo
<1> HIDE DEF Fine
<1> QED
  BY <1>1, <1>2, <1>3, <1>4, <1>5, <1>6, <1>7, <1>8, NextCases DEF Advance


LEMMA NextWantsItsFolio == IInv /\ [Next]_vars => WantsItsFolio'
<1> SUFFICES ASSUME IInv, [Next]_vars PROVE WantsItsFolio'
  OBVIOUS
<1> DEFINE Fine(o) == pc[o] \in {"register", "registered"} =>
                        IF job[o].sequential
                        THEN /\ job[o].number > counter[job[o].prefix]
                             /\ job[o].want = <<job[o].prefix, job[o].number>>
                        ELSE \E s \in Suffix : job[o].want = <<job[o].prefix, s>>
<1>0. /\ TypeOK /\ OwnDocument /\ CountsOn
      /\ \A o \in Req : Fine(o)
  BY DEF IInv, WantsItsFolio
<1>A. SUFFICES \A o \in Req : Fine(o)'
  BY DEF WantsItsFolio
<1>B. ASSUME NEW o \in Req, pc'[o] = pc[o], job'[o] = job[o],
             Counting(o) => counter'[job[o].prefix] = counter[job[o].prefix]
      PROVE Fine(o)'
  BY <1>0, <1>B DEF Counting
<1>1. ASSUME NEW r \in Req, NEW d \in Doc, NEW t \in Type, Begin(r, d, t)
      PROVE \A o \in Req : Fine(o)'
  <2>1. counter' = counter
    BY <1>1 DEF Begin
  <2>2. Fine(r)'
    BY <1>0, <1>1, BeginFacts
  <2> QED
    BY <1>0, <1>1, <1>B, <2>1, <2>2, BeginFacts
<1>2. ASSUME NEW r \in Req, LockCounter(r) \/ Register(r) PROVE \A o \in Req : Fine(o)'
  <2>1. counter' = counter
    BY <1>2 DEF LockCounter, Register
  <2>2. CASE LockCounter(r)
    <3>1. Fine(r)'
      BY <1>0, <2>2 DEF LockCounter, TypeOK
    <3> QED
      BY <1>0, <1>B, <2>1, <2>2, <3>1, StepFacts
  <2>3. CASE Register(r)
    <3>1. pc[r] = "register" /\ job' = job
      BY <2>3 DEF Register
    <3>2. Fine(r)'
      BY <1>0, <2>1, <3>1
    <3> QED
      BY <1>0, <1>B, <2>1, <2>3, <3>2, StepFacts
  <2> QED
    BY <1>2, <2>2, <2>3
<1>3. ASSUME NEW r \in Req, NEW s \in Suffix, Draw(r, s) PROVE \A o \in Req : Fine(o)'
  <2>1. counter' = counter /\ Advance(r)
    BY <1>3 DEF Draw, Advance
  <2>2. /\ ~job'[r].sequential /\ job'[r].want = <<job[r].prefix, s>>
        /\ job'[r].prefix = job[r].prefix
    BY <1>0, <1>3 DEF Draw, TypeOK, JobType
  <2>3. Fine(r)'
    BY <2>2
  <2> QED
    BY <1>0, <1>B, <2>1, <2>3, StepFacts
<1>4. ASSUME NEW r \in Req, CountOn(r) PROVE \A o \in Req : Fine(o)'
  <2>1. counter' = counter /\ Advance(r)
    BY <1>4 DEF CountOn, Advance
  <2>2. /\ job'[r].sequential /\ job'[r].number = job[r].number + 1
        /\ job'[r].prefix = job[r].prefix
        /\ job'[r].want = <<job'[r].prefix, job'[r].number>>
    BY <1>0, <1>4 DEF CountOn, TypeOK, JobType
  <2>3. job[r].number \in Nat /\ counter[job[r].prefix] \in Nat
    BY <1>0, <1>4, JobFields DEF CountOn, OwnDocument, TypeOK
  <2>4. job[r].number >= counter[job[r].prefix]
    BY <1>0, <1>4 DEF CountOn, CountsOn, Counting
  <2>5. Fine(r)'
    BY <2>1, <2>2, <2>3, <2>4
  <2> QED
    BY <1>0, <1>B, <2>1, <2>5, StepFacts
<1>5. ASSUME NEW r \in Req, Commit(r) PROVE \A o \in Req : Fine(o)'
  <2>1. pc'[r] = "idle" /\ \A o \in Req \ {r} : pc'[o] = pc[o] /\ job'[o] = job[o]
    BY <1>0, <1>5 DEF Commit, End, TypeOK
  <2>2. ASSUME NEW o \in Req \ {r}, Counting(o)
        PROVE counter'[job[o].prefix] = counter[job[o].prefix]
    <3>1. job[o].prefix \in Prefix /\ lock[job[o].prefix] = o
      BY <1>0, <2>2 DEF Counting, OwnDocument, CountsOn
    <3>2. job[r].sequential => lock[job[r].prefix] = r
      BY <1>0, <1>5 DEF Commit, Counting, CountsOn
    <3> QED
      BY <1>0, <1>5, <3>1, <3>2 DEF Commit, CounterAfter, TypeOK
  <2> QED
    BY <1>B, <2>1, <2>2
<1>6. ASSUME NEW r \in Req, GiveUp(r) \/ Undo(r) PROVE \A o \in Req : Fine(o)'
  <2>1. counter' = counter /\ pc'[r] = "idle"
    BY <1>0, <1>6 DEF GiveUp, Undo, End, TypeOK
  <2>2. Fine(r)'
    BY <2>1
  <2> QED
    BY <1>0, <1>6, <1>B, <2>1, <2>2, StepFacts DEF Advance
<1>7. CASE UNCHANGED <<counter, issued, folio, pc, job, lock>>
  BY <1>0, <1>7
<1> HIDE DEF Fine
<1> QED
  BY <1>1, <1>2, <1>3, <1>4, <1>5, <1>6, <1>7, NextCases DEF Advance

LEMMA NextRegisteredIsNew == IInv /\ [Next]_vars => RegisteredIsNew'
<1> SUFFICES ASSUME IInv, [Next]_vars PROVE RegisteredIsNew'
  OBVIOUS
<1>0. TypeOK /\ RegisteredIsNew
  BY DEF IInv
<1>1. ASSUME NEW r \in Req, Register(r) PROVE RegisteredIsNew'
  <2>1. /\ issued' = issued /\ job' = job
        /\ \A o \in Req \ {r} : pc'[o] = pc[o]
        /\ pc'[r] = "registered" => job[r].want \notin issued
        /\ \A o \in Req : pc[o] = "registered" => job[o].want # job[r].want
    BY <1>0, <1>1 DEF Register, Taken, Uncommitted, TypeOK
  <2> QED
    BY <1>0, <2>1 DEF RegisteredIsNew
<1>2. ASSUME NEW r \in Req, Commit(r) PROVE RegisteredIsNew'
  <2>1. /\ pc'[r] = "idle" /\ pc[r] = "registered"
        /\ \A o \in Req \ {r} : pc'[o] = pc[o] /\ job'[o] = job[o]
        /\ issued' = issued \cup {job[r].want}
    BY <1>0, <1>2 DEF Commit, End, TypeOK
  <2> QED
    BY <1>0, <2>1 DEF RegisteredIsNew
<1>3. ASSUME NEW r \in Req, pc'[r] # "registered", issued' = issued,
             \A o \in Req \ {r} : pc'[o] = pc[o] /\ job'[o] = job[o]
      PROVE RegisteredIsNew'
  BY <1>0, <1>3 DEF RegisteredIsNew
<1>4. ASSUME NEW r \in Req, NEW d \in Doc, NEW t \in Type, Begin(r, d, t)
      PROVE RegisteredIsNew'
  <2>1. issued' = issued /\ pc'[r] # "registered"
    BY <1>0, <1>4 DEF Begin, TypeOK
  <2> QED
    BY <1>0, <1>3, <1>4, <2>1, BeginFacts
<1>5. ASSUME NEW r \in Req, ~Register(r), ~Commit(r),
             LockCounter(r) \/ Advance(r) \/ Undo(r)
      PROVE RegisteredIsNew'
  <2>1. issued' = issued /\ pc'[r] # "registered"
    BY <1>0, <1>5 DEF LockCounter, Advance, Draw, CountOn, GiveUp, Undo, End, TypeOK
  <2> QED
    BY <1>0, <1>3, <1>5, <2>1, StepFacts
<1>6. CASE UNCHANGED <<counter, issued, folio, pc, job, lock>>
  BY <1>0, <1>6 DEF RegisteredIsNew
<1> QED
  BY <1>1, <1>2, <1>4, <1>5, <1>6, NextCases

\* What a commit does to the counter: nothing, or it takes it to the first
\* free number after it.
LEMMA CommitCounts ==
  ASSUME IInv, NEW r \in Req, Commit(r)
  PROVE  LET p == job[r].prefix  n == job[r].number IN
         IF job[r].sequential
         THEN /\ n \in 1..MaxNumber /\ n > counter[p]
              /\ job[r].want = <<p, n>>
              /\ \A m \in counter[p] + 1 .. n - 1 : <<p, m>> \in issued
              /\ counter' = [counter EXCEPT ![p] = n]
         ELSE /\ counter' = counter
              /\ \E s \in Suffix : job[r].want = <<p, s>>
<1>1. TypeOK /\ OwnDocument /\ CountsOn /\ WantsItsFolio /\ pc[r] = "registered"
  BY DEF IInv, Commit
<1>2. counter' = CounterAfter(r)
  BY DEF Commit
<1>3. CASE job[r].sequential
  <2>1. Counting(r)
    BY <1>1, <1>3 DEF Counting
  <2>2. Passed(r) = counter[job[r].prefix] + 1 .. job[r].number - 1
    BY <1>1 DEF Passed
  <2>3. job[r].number > counter[job[r].prefix]
        /\ job[r].want = <<job[r].prefix, job[r].number>>
    BY <1>1, <1>3 DEF WantsItsFolio
  <2>4. job[r].number \in 0..MaxNumber /\ counter[job[r].prefix] \in 0..MaxNumber
    BY <1>1, JobFields DEF OwnDocument, TypeOK
  <2> QED
    BY <1>1, <1>2, <1>3, <2>1, <2>2, <2>3, <2>4 DEF CountsOn, CounterAfter
<1>4. CASE ~job[r].sequential
  BY <1>1, <1>2, <1>4 DEF WantsItsFolio, CounterAfter
<1> QED
  BY <1>3, <1>4

LEMMA NextNoGaps == IInv /\ [Next]_vars => NoGaps'
<1> SUFFICES ASSUME IInv, [Next]_vars PROVE NoGaps'
  OBVIOUS
<1>0. TypeOK /\ NoGaps
  BY DEF IInv
<1>1. CASE ~\E r \in Req : Commit(r)
  BY <1>0, <1>1, OnlyCommitWrites DEF NoGaps
<1>2. ASSUME NEW r \in Req, Commit(r) PROVE NoGaps'
  <2> DEFINE Written(p, n) == \E d \in Doc : folio[d] = <<p, n>>
             WrittenNext(p, n) == \E d \in Doc : folio'[d] = <<p, n>>
  <2>1. ASSUME NEW p \in Prefix, NEW n \in Nat, Written(p, n) PROVE WrittenNext(p, n)
    <3>1. PICK d \in Doc : folio[d] = <<p, n>>
      BY <2>1
    <3>2. <<p, n>> # None
      BY DEF Folio
    <3>3. d # job[r].doc
      BY <1>2, <3>1, <3>2, CommitFacts
    <3> QED
      BY <1>2, <3>1, <3>3, CommitFacts
  <2>2. ASSUME NEW p \in Prefix, NEW n \in Nat, <<p, n>> \in issued PROVE WrittenNext(p, n)
    BY <2>1, <2>2 DEF IInv, IssuedIsGiven
  <2>3. CASE ~job[r].sequential
    <3>1. counter' = counter
      BY <1>2, <2>3, CommitCounts
    <3>2. \A p \in Prefix : counter[p] \in Nat
      BY <1>0 DEF TypeOK
    <3>3. \A p \in Prefix : \A n \in 1..counter'[p] : n \in Nat /\ Written(p, n)
      <4> SUFFICES ASSUME NEW p \in Prefix, NEW n \in 1..counter'[p]
                   PROVE  n \in Nat /\ Written(p, n)
        OBVIOUS
      <4>1. n \in 1..counter[p]
        BY <3>1
      <4>2. n \in Nat
        BY <3>2, <4>1
      <4>3. Written(p, n)
        BY <1>0, <4>1 DEF NoGaps
      <4> QED
        BY <4>2, <4>3
    <3> HIDE DEF Written, WrittenNext
    <3>4. \A p \in Prefix : \A n \in 1..counter'[p] : WrittenNext(p, n)
      BY <2>1, <3>3
    <3> USE DEF Written, WrittenNext
    <3> QED
      BY <3>4 DEF NoGaps
  <2>4. CASE job[r].sequential
    <3> DEFINE q == job[r].prefix
               k == job[r].number
    <3>1. /\ q \in Prefix /\ k \in Nat /\ counter[q] \in Nat /\ k > counter[q]
          /\ job[r].want = <<q, k>>
          /\ \A m \in counter[q] + 1 .. k - 1 : <<q, m>> \in issued
          /\ counter' = [counter EXCEPT ![q] = k]
      BY <1>0, <1>2, <2>4, CommitCounts, CommitFacts, JobFields DEF TypeOK
    <3>2. \A p \in Prefix : counter[p] \in Nat
      BY <1>0 DEF TypeOK
    <3>3. WrittenNext(q, k)
      <4>1. job[r].doc \in Doc /\ folio'[job[r].doc] = job[r].want
        BY <1>2, CommitFacts
      <4>2. folio'[job[r].doc] = <<q, k>>
        BY <3>1, <4>1
      <4> QED
        BY <4>1, <4>2
    <3> SUFFICES ASSUME NEW p \in Prefix, NEW n \in 1..counter'[p] PROVE WrittenNext(p, n)
      BY DEF NoGaps
    <3>4. counter'[p] = (IF p = q THEN k ELSE counter[p])
      BY <1>0, <3>1 DEF TypeOK
    <3>5. n \in Nat
      BY <3>1, <3>2, <3>4
    <3>6. CASE n <= counter[p]
      <4>1. n \in 1..counter[p]
        BY <3>1, <3>2, <3>4, <3>5, <3>6
      <4>2. Written(p, n)
        BY <1>0, <4>1 DEF NoGaps
      <4> HIDE DEF Written, WrittenNext
      <4> QED
        BY <2>1, <3>5, <4>2
    <3>7. CASE n > counter[p] /\ n < k /\ p = q
      <4>1. n \in counter[q] + 1 .. k - 1
        BY <3>1, <3>5, <3>7
      <4>2. <<p, n>> \in issued
        BY <3>1, <3>7, <4>1
      <4> HIDE DEF Written, WrittenNext
      <4> QED
        BY <2>2, <3>5, <4>2
    <3>8. CASE n = k /\ p = q
      <4> HIDE DEF Written, WrittenNext
      <4> QED
        BY <3>3, <3>8
    <3> QED
      BY <3>1, <3>2, <3>4, <3>5, <3>6, <3>7, <3>8
  <2> QED
    BY <2>3, <2>4
<1> QED
  BY <1>1, <1>2


-----------------------------------------------------------------------------
\* What is known of a request that assigns a folio holds always.
THEOREM Invariance == Spec => []IInv
<1>1. IInv /\ [Next]_vars => IInv'
  <2> SUFFICES ASSUME IInv, [Next]_vars PROVE IInv'
    OBVIOUS
  <2>1. TypeOK'
    BY NextTypeOK DEF IInv
  <2> QED
    BY <2>1, NextIssuedIsGiven, NextOwnDocument, NextCountsOn, NextWantsItsFolio,
       NextRegisteredIsNew, NextFoliosDiffer, NextNoGaps DEF IInv
<1> QED
  BY <1>1, InitIInv, PTL DEF Spec

\* Rows and requests keep their shape (models of apps/folios).
THEOREM FoliosTypeOK == Spec => []TypeOK
<1>1. IInv => TypeOK
  BY DEF IInv
<1> QED
  BY <1>1, Invariance, PTL

\* No two documents ever have the same folio (folios_issued_unique_per_owner).
THEOREM FoliosAlwaysDiffer == Spec => []FoliosDiffer
<1>1. IInv => FoliosDiffer
  BY DEF IInv
<1> QED
  BY <1>1, Invariance, PTL

\* Every number a counter went through is on a document (assign_folio).
THEOREM FoliosHaveNoGaps == Spec => []NoGaps
<1>1. IInv => NoGaps
  BY DEF IInv
<1> QED
  BY <1>1, Invariance, PTL

\* A counter only rises (assign_folio, configure_folios).
THEOREM CountersOnlyRise == Spec => CounterNeverFalls
<1>1. IInv /\ [Next]_vars => [\A p \in Prefix : counter'[p] >= counter[p]]_vars
  <2> SUFFICES ASSUME IInv, [Next]_vars PROVE \A p \in Prefix : counter'[p] >= counter[p]
    OBVIOUS
  <2>1. counter \in [Prefix -> Nat]
    BY DEF IInv, TypeOK
  <2>2. CASE \E r \in Req : Commit(r)
    <3>1. PICK r \in Req : Commit(r)
      BY <2>2
    <3> QED
      BY <2>1, <3>1, CommitCounts
  <2>3. CASE ~\E r \in Req : Commit(r)
    BY <2>1, <2>3, OnlyCommitWrites
  <2> QED
    BY <2>2, <2>3
<1> QED
  BY <1>1, Invariance, PTL DEF Spec, CounterNeverFalls

\* The requests implement FolioBook: what several transactions do in steps is,
\* at each commit, one document that takes one folio nobody had.
THEOREM FoliosImplementBook == Spec => ImplementsBook
<1>1. Init => Book!Init
  BY DEF Init, Book!Init
<1>2. IInv /\ [Next]_vars => [Book!Next]_<<folio, counter>>
  <2> SUFFICES ASSUME IInv, [Next]_vars PROVE [Book!Next]_<<folio, counter>>
    OBVIOUS
  <2>1. ASSUME NEW r \in Req, Commit(r) PROVE Book!Next
    <3> DEFINE d == job[r].doc
               p == job[r].prefix
               n == job[r].number
    <3>1. /\ d \in Doc /\ folio[d] = None /\ p \in Prefix
          /\ job[r].want \notin issued
      BY <2>1, CommitFacts
    <3>2. issued = Book!Given
      BY DEF IInv, IssuedIsGiven, Book!Given
    <3>3. folio' = [folio EXCEPT ![d] = job[r].want]
      BY <2>1 DEF Commit
    <3>4. CASE job[r].sequential
      <4>1. /\ n \in 1..MaxNumber /\ n > counter[p] /\ job[r].want = <<p, n>>
            /\ \A m \in counter[p] + 1 .. n - 1 : <<p, m>> \in issued
            /\ counter' = [counter EXCEPT ![p] = n]
        BY <2>1, <3>4, CommitCounts
      <4>2. Book!GiveNext(d, p, n)
        BY <3>1, <3>2, <3>3, <4>1 DEF Book!GiveNext
      <4> QED
        BY <3>1, <4>1, <4>2 DEF Book!Next
    <3>5. CASE ~job[r].sequential
      <4>1. PICK s \in Suffix : job[r].want = <<p, s>>
        BY <2>1, <3>5, CommitCounts
      <4>2. counter' = counter
        BY <2>1, <3>5, CommitCounts
      <4>3. Book!GiveRandom(d, p, s)
        BY <3>1, <3>2, <3>3, <4>1, <4>2 DEF Book!GiveRandom
      <4> QED
        BY <3>1, <4>3 DEF Book!Next
    <3> QED
      BY <3>4, <3>5
  <2>2. CASE ~\E r \in Req : Commit(r)
    BY <2>2, OnlyCommitWrites
  <2> QED
    BY <2>1, <2>2
<1> QED
  BY <1>1, <1>2, Invariance, PTL DEF Spec, Book!Spec, ImplementsBook


=============================================================================
