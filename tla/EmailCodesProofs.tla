-------------------------- MODULE EmailCodesProofs --------------------------
(***************************************************************************)
(* Safety of the requests of EmailCodes, for any number of them, of codes, *)
(* attempts and addresses.                                                 *)
(***************************************************************************)
EXTENDS EmailCodes, TLAPS

\* Codes are created in the order of their numbers.
Numbered == \A c \in Code : c > last <=> code[c].st = "new"

\* What a request is, by where it is, and the codes it knows.
Shaped(r) ==
  /\ job[r].code # None => pc[r] \in {"commit", "open"}
  /\ pc[r] = "save" => job[r].op = "request"
  /\ pc[r] = "void" => job[r].op \in Issuing \cup {"cancel"}
  /\ pc[r] \in {"issue", "commit"} => job[r].op \in Issuing
  /\ pc[r] = "clear" => job[r].op = "cancel"
  /\ job[r].op \in {"request", "cancel"} => job[r].purpose = "email_change"
  /\ job[r].op = "request" => job[r].to \in Email
  /\ pc[r] \in {"look", "check", "open"} =>
       /\ job[r].op = "answer"
       /\ job[r].purpose = "email_change" => job[r].to \in Email

Seeing(r) ==
  pc[r] \in {"issue", "commit", "clear", "check"} =>
    \A c \in job[r].seen : /\ code[c].st \in {"live", "used"}
                           /\ code[c].purpose = job[r].purpose

Creating(r) ==
  pc[r] = "commit" =>
    /\ job[r].code \in Code
    /\ code[job[r].code].st = "draft"
    /\ code[job[r].code].purpose = job[r].purpose
    /\ \A c \in job[r].seen : c < job[r].code
    /\ \A o \in Req \ {r} : pc[o] = "commit" => job[o].code # job[r].code

Opening(r) ==
  pc[r] = "open" => /\ job[r].code \in Code
                    /\ code[job[r].code].purpose = job[r].purpose

JobsMakeSense == \A r \in Req : Shaped(r) /\ Seeing(r) /\ Creating(r) /\ Opening(r)

\* Whoever writes the pending address holds the account's row, and a request
\* holds the codes it will void or use.
HoldsAccount(r) ==
  \/ job[r].op = "request" /\ pc[r] \in {"void", "issue", "commit"}
  \/ job[r].op = "cancel" /\ pc[r] \in {"void", "clear"}

RowsAreHeld ==
  \A r \in Req :
    /\ HoldsAccount(r) => userLock = r
    /\ HoldsAccount(r) /\ job[r].op = "cancel" => job[r].to = user.pending
    /\ pc[r] = "commit" => \A c \in job[r].seen : code[c].st = "live" => codeLock[c] = r
    /\ pc[r] = "open" => codeLock[job[r].code] = r

\* After a code sent for a change of address there is one that lives, or that
\* ran out of attempts.
Stands(d) ==
  \E c \in Sent : c >= d /\ (code[c].st = "live" \/ code[c].attempts = MaxAttempts)

\* So it is when an address is about to wait.
WillStand ==
  \A r \in Req : pc[r] = "commit" /\ job[r].op = "request" =>
    \A d \in Sent : d > job[r].code => Stands(d)

IInv == /\ TypeOK /\ Numbered /\ JobsMakeSense /\ RowsAreHeld
        /\ OpensOnce /\ SpentIsDead /\ PendingHasItsCode /\ WillStand

-----------------------------------------------------------------------------
USE EmailCodesAssumption

LEMMA InitIInv == Init => IInv
<1> SUFFICES ASSUME Init PROVE IInv
  OBVIOUS
<1>1. TypeOK
  BY DEF Init, TypeOK, CodeType, JobType, PCs, NoCode, NoJob, Code, Purposes, Issuing
<1>2. Numbered /\ OpensOnce /\ SpentIsDead
  BY DEF Init, Numbered, OpensOnce, SpentIsDead, NoCode, Code
<1>3. JobsMakeSense /\ RowsAreHeld
  BY DEF Init, JobsMakeSense, RowsAreHeld, Shaped, Seeing, Creating, Opening,
         HoldsAccount, NoJob
<1>4. PendingHasItsCode /\ WillStand
  BY DEF Init, PendingHasItsCode, WillStand
<1> QED BY <1>1, <1>2, <1>3, <1>4 DEF IInv

-----------------------------------------------------------------------------
(* Steps that write neither the codes nor the account. *)

\* A request moves on; the rows, and the other requests, stay as they are.
Moves(r) ==
  /\ UNCHANGED <<user, code, last>>
  /\ \A o \in Req \ {r} : pc'[o] = pc[o] /\ job'[o] = job[o]
  /\ pc'[r] # "commit"
  /\ \A c \in Code : codeLock[c] \in Req \ {r} => codeLock'[c] = codeLock[c]
  /\ userLock \in Req \ {r} => userLock' = userLock

\* What is left to show of the one that moves.
Arrives(r) ==
  /\ Shaped(r)' /\ Seeing(r)' /\ Opening(r)'
  /\ HoldsAccount(r)' => userLock' = r
  /\ HoldsAccount(r)' /\ job'[r].op = "cancel" => job'[r].to = user.pending
  /\ pc'[r] = "open" =>
       /\ codeLock'[job'[r].code] = r /\ codeLock[job'[r].code] = None
       /\ code[job'[r].code].st = "live" /\ code[job'[r].code].attempts < MaxAttempts

LEMMA MovesKeepIInv ==
  ASSUME NEW r \in Req, IInv, Moves(r), Arrives(r), TypeOK'
  PROVE  IInv'
<1>1. Numbered' /\ SpentIsDead'
  BY DEF IInv, Moves, Numbered, SpentIsDead, Code
<1>2. JobsMakeSense'
  <2> SUFFICES ASSUME NEW o \in Req
               PROVE  (Shaped(o) /\ Seeing(o) /\ Creating(o) /\ Opening(o))'
    BY DEF JobsMakeSense
  <2>1. CASE o = r
    BY <2>1 DEF Arrives, Moves, Creating
  <2>2. CASE o # r
    <3>1. Shaped(o) /\ Seeing(o) /\ Creating(o) /\ Opening(o)
      BY DEF IInv, JobsMakeSense
    <3>2. Shaped(o)' /\ Seeing(o)' /\ Opening(o)'
      BY <2>2, <3>1 DEF Moves, Shaped, Seeing, Opening
    <3>3. Creating(o)'
      BY <2>2, <3>1 DEF Moves, Creating
    <3> QED BY <3>2, <3>3
  <2> QED BY <2>1, <2>2
<1>3. RowsAreHeld'
  BY DEF IInv, Moves, Arrives, RowsAreHeld, HoldsAccount, TypeOK, CodeType, JobsMakeSense,
         Opening, JobType
<1>4. OpensOnce'
  BY DEF IInv, Moves, Arrives, RowsAreHeld, OpensOnce, TypeOK
<1>5. PendingHasItsCode' /\ WillStand'
  <2>1. Sent' = Sent /\ \A d : Stands(d)' = Stands(d)
    BY DEF Moves, Sent, Stands
  <2>2. PendingHasItsCode'
    BY <2>1 DEF IInv, Moves, PendingHasItsCode
  <2>3. WillStand'
    BY <2>1 DEF IInv, Moves, WillStand
  <2> QED BY <2>2, <2>3
<1> QED BY <1>1, <1>2, <1>3, <1>4, <1>5 DEF IInv

LEMMA RequestEmailChangeIInv ==
  ASSUME NEW r \in Req, NEW e \in Email, IInv, RequestEmailChange(r, e) PROVE IInv'
<1>1. TypeOK'
  BY DEF IInv, TypeOK, RequestEmailChange, Start, Goto, JobType, PCs, Issuing, Purposes, NoJob
<1>2. Moves(r)
  BY DEF IInv, TypeOK, RequestEmailChange, Start, Goto, Moves, NoJob
<1>3. Arrives(r)
  BY DEF IInv, TypeOK, JobsMakeSense, RowsAreHeld, RequestEmailChange, Start, Goto, Arrives, Shaped, Seeing,
         Opening, HoldsAccount, NoJob, Issuing, Purposes, JobType
<1> QED BY <1>1, <1>2, <1>3, MovesKeepIInv

LEMMA SavePendingIInv ==
  ASSUME NEW r \in Req, IInv, SavePending(r) PROVE IInv'
<1>1. TypeOK'
  BY DEF IInv, TypeOK, SavePending, Goto, JobType, PCs, Issuing, Purposes, NoJob
<1>2. Moves(r)
  BY DEF IInv, TypeOK, SavePending, Goto, Moves, NoJob
<1>3. Arrives(r)
  BY DEF IInv, TypeOK, JobsMakeSense, RowsAreHeld, SavePending, Goto, Arrives, Shaped, Seeing,
         Opening, HoldsAccount, NoJob, Issuing, Purposes, JobType
<1> QED BY <1>1, <1>2, <1>3, MovesKeepIInv

LEMMA ResendEmailChangeIInv ==
  ASSUME NEW r \in Req, IInv, ResendEmailChange(r) PROVE IInv'
<1>1. TypeOK'
  BY DEF IInv, TypeOK, ResendEmailChange, Start, Goto, JobType, PCs, Issuing, Purposes, NoJob
<1>2. Moves(r)
  BY DEF IInv, TypeOK, ResendEmailChange, Start, Goto, Moves, NoJob
<1>3. Arrives(r)
  BY DEF IInv, TypeOK, JobsMakeSense, RowsAreHeld, ResendEmailChange, Start, Goto, Arrives, Shaped, Seeing,
         Opening, HoldsAccount, NoJob, Issuing, Purposes, JobType
<1> QED BY <1>1, <1>2, <1>3, MovesKeepIInv

LEMMA SendCodeIInv ==
  ASSUME NEW r \in Req, NEW p \in Purposes, IInv, SendCode(r, p) PROVE IInv'
<1>1. TypeOK'
  BY DEF IInv, TypeOK, SendCode, Start, Goto, JobType, PCs, Issuing, Purposes, NoJob
<1>2. Moves(r)
  BY DEF IInv, TypeOK, SendCode, Start, Goto, Moves, NoJob
<1>3. Arrives(r)
  BY DEF IInv, TypeOK, JobsMakeSense, RowsAreHeld, SendCode, Start, Goto, Arrives, Shaped, Seeing,
         Opening, HoldsAccount, NoJob, Issuing, Purposes, JobType
<1> QED BY <1>1, <1>2, <1>3, MovesKeepIInv

LEMMA CancelEmailChangeIInv ==
  ASSUME NEW r \in Req, IInv, CancelEmailChange(r) PROVE IInv'
<1>1. TypeOK'
  BY DEF IInv, TypeOK, CancelEmailChange, Start, Goto, JobType, PCs, Issuing, Purposes, NoJob
<1>2. Moves(r)
  BY DEF IInv, TypeOK, CancelEmailChange, Start, Goto, Moves, NoJob
<1>3. Arrives(r)
  BY DEF IInv, TypeOK, JobsMakeSense, RowsAreHeld, CancelEmailChange, Start, Goto, Arrives, Shaped, Seeing,
         Opening, HoldsAccount, NoJob, Issuing, Purposes, JobType
<1> QED BY <1>1, <1>2, <1>3, MovesKeepIInv

LEMMA VoidIInv ==
  ASSUME NEW r \in Req, IInv, Void(r) PROVE IInv'
<1>1. TypeOK'
  BY DEF IInv, TypeOK, Void, Goto, Live, JobType, PCs, Issuing, Purposes, NoJob
<1>2. Moves(r)
  BY DEF IInv, TypeOK, Void, Goto, Live, Moves, NoJob
<1>3. Arrives(r)
  BY DEF IInv, TypeOK, JobsMakeSense, RowsAreHeld, Void, Goto, Live, Arrives, Shaped, Seeing,
         Opening, HoldsAccount, NoJob, Issuing, Purposes, JobType
<1> QED BY <1>1, <1>2, <1>3, MovesKeepIInv

LEMMA AnswerIInv ==
  ASSUME NEW r \in Req, NEW p \in Purposes, IInv, Answer(r, p) PROVE IInv'
<1>1. TypeOK'
  BY DEF IInv, TypeOK, Answer, Start, Goto, JobType, PCs, Issuing, Purposes, NoJob
<1>2. Moves(r)
  BY DEF IInv, TypeOK, Answer, Start, Goto, Moves, NoJob
<1>3. Arrives(r)
  BY DEF IInv, TypeOK, JobsMakeSense, RowsAreHeld, Answer, Start, Goto, Arrives, Shaped, Seeing,
         Opening, HoldsAccount, NoJob, Issuing, Purposes, JobType
<1> QED BY <1>1, <1>2, <1>3, MovesKeepIInv

LEMMA LookIInv ==
  ASSUME NEW r \in Req, IInv, Look(r) PROVE IInv'
<1>1. TypeOK'
  <2>1. {c \in Live(job[r].purpose) : c > late} \in SUBSET Code
    BY DEF Live
  <2>2. job' \in [Req -> JobType]
    <3>1. job[r] \in JobType /\ job \in [Req -> JobType]
      BY DEF IInv, TypeOK
    <3>2. [job[r] EXCEPT !.seen = {c \in Live(job[r].purpose) : c > late}] \in JobType
      BY <2>1, <3>1 DEF JobType
    <3>3. job' = [job EXCEPT ![r] = [job[r] EXCEPT !.seen = {c \in Live(job[r].purpose) : c > late}]]
      BY <3>1 DEF Look
    <3> HIDE DEF JobType
    <3> QED BY <3>1, <3>2, <3>3
  <2> QED BY <2>2 DEF IInv, TypeOK, Look, Goto, PCs
<1>2. Moves(r)
  BY DEF IInv, TypeOK, Look, Goto, Live, Moves, NoJob
<1>3. Arrives(r)
  BY DEF IInv, TypeOK, JobsMakeSense, RowsAreHeld, Look, Goto, Live, Arrives, Shaped, Seeing,
         Opening, HoldsAccount, NoJob, Issuing, Purposes, JobType
<1> QED BY <1>1, <1>2, <1>3, MovesKeepIInv

LEMMA NoLiveCodeIInv ==
  ASSUME NEW r \in Req, IInv, NoLiveCode(r) PROVE IInv'
<1>1. TypeOK'
  BY DEF IInv, TypeOK, NoLiveCode, End, JobType, PCs, Issuing, Purposes, NoJob
<1>2. Moves(r)
  BY DEF IInv, TypeOK, NoLiveCode, End, Moves, NoJob
<1>3. Arrives(r)
  BY DEF IInv, TypeOK, JobsMakeSense, RowsAreHeld, NoLiveCode, End, Arrives, Shaped, Seeing,
         Opening, HoldsAccount, NoJob, Issuing, Purposes, JobType
<1> QED BY <1>1, <1>2, <1>3, MovesKeepIInv

LEMMA MatchIInv ==
  ASSUME NEW r \in Req, IInv, Match(r) PROVE IInv'
<1>1. TypeOK'
  BY DEF IInv, TypeOK, Match, Goto, Latest, StillLive, Free, JobType, PCs, Issuing, Purposes, NoJob
<1>2. Moves(r)
  BY DEF IInv, TypeOK, Match, Goto, Latest, StillLive, Free, Moves, NoJob
<1>3. Arrives(r)
  BY DEF IInv, TypeOK, JobsMakeSense, RowsAreHeld, Match, Goto, Latest, StillLive, Free, Arrives, Shaped, Seeing,
         Opening, HoldsAccount, NoJob, Issuing, Purposes, JobType
<1> QED BY <1>1, <1>2, <1>3, MovesKeepIInv

LEMMA ExpireIInv == IInv /\ Expire => IInv'
<1> SUFFICES ASSUME IInv, Expire PROVE IInv'
  OBVIOUS
<1>1. TypeOK'
  BY DEF IInv, TypeOK, Expire
<1>2. Numbered' /\ SpentIsDead' /\ OpensOnce' /\ RowsAreHeld'
  BY DEF IInv, Expire, Numbered, SpentIsDead, OpensOnce, RowsAreHeld, HoldsAccount
<1>3. JobsMakeSense'
  BY DEF IInv, Expire, JobsMakeSense, Shaped, Seeing, Creating, Opening
<1>4. PendingHasItsCode' /\ WillStand'
  BY DEF IInv, Expire, PendingHasItsCode, WillStand, Sent, Stands
<1> QED BY <1>1, <1>2, <1>3, <1>4 DEF IInv

-----------------------------------------------------------------------------
(* Steps that write. *)

LEMMA IssueIInv ==
  ASSUME NEW r \in Req, IInv, Issue(r) PROVE IInv'
<1> DEFINE n == last + 1
<1>1. n \in Code /\ code[n].st = "new" /\ last \in Nat
  BY DEF IInv, TypeOK, Numbered, Issue, Code
<1>2. /\ code' = [code EXCEPT ![n] = [st |-> "draft", purpose |-> job[r].purpose,
                                      to |-> job[r].to, attempts |-> 0]]
      /\ job' = [job EXCEPT ![r].code = n] /\ pc' = [pc EXCEPT ![r] = "commit"]
      /\ pc[r] = "issue" /\ UNCHANGED <<user, late, userLock>> /\ last' = n
  BY DEF Issue, Goto
<1>3. \A c \in Code : codeLock'[c] = IF c \in StillLive(r) THEN r ELSE codeLock[c]
  BY DEF Issue, HoldSeen
<1>4. \A c \in StillLive(r) : codeLock[c] = None /\ c \in job[r].seen
  BY DEF Issue, HoldSeen, Free, StillLive
<1>5. TypeOK'
  <2>1. job[r] \in JobType /\ 0 \in 0..MaxAttempts
    BY DEF IInv, TypeOK
  <2>2. code' \in [Code -> CodeType]
    BY <1>1, <1>2, <2>1 DEF IInv, TypeOK, CodeType, JobType
  <2>3. job' \in [Req -> JobType]
    BY <1>1, <1>2 DEF IInv, TypeOK, JobType
  <2>4. codeLock' \in [Code -> Req \cup {None}]
    BY <1>3 DEF IInv, TypeOK, Issue, HoldSeen
  <2> QED BY <1>1, <1>2, <2>2, <2>3, <2>4 DEF IInv, TypeOK, PCs, Code
<1>6. Numbered' /\ SpentIsDead'
  BY <1>1, <1>2 DEF IInv, TypeOK, Numbered, SpentIsDead, Code
<1>7. JobsMakeSense'
  <2> SUFFICES ASSUME NEW o \in Req
               PROVE  (Shaped(o) /\ Seeing(o) /\ Creating(o) /\ Opening(o))'
    BY DEF JobsMakeSense
  <2>1. Shaped(o) /\ Seeing(o) /\ Creating(o) /\ Opening(o)
    BY DEF IInv, JobsMakeSense
  <2>2. Shaped(o)'
    BY <1>2, <2>1 DEF IInv, TypeOK, JobType, Shaped
  <2>3. Seeing(o)'
    BY <1>1, <1>2, <2>1 DEF IInv, TypeOK, JobType, Seeing
  <2>4. Opening(o)'
    BY <1>1, <1>2, <2>1 DEF IInv, TypeOK, JobType, Opening, OpensOnce
  <2>5. Creating(o)'
    <3>1. CASE o = r
      <4>1. \A c \in job[r].seen : c < n
        <5> SUFFICES ASSUME NEW c \in job[r].seen PROVE c < n
          OBVIOUS
        <5>1. c \in Code /\ code[c].st # "new"
          BY <1>2, <2>1, <3>1 DEF IInv, TypeOK, JobType, Seeing
        <5>2. ~ c > last
          BY <5>1 DEF IInv, Numbered
        <5> QED BY <1>1, <5>1, <5>2 DEF Code
      <4>2. \A q \in Req \ {r} : pc[q] = "commit" => job[q].code # n
        BY <1>1 DEF IInv, JobsMakeSense, Creating
      <4> QED BY <1>1, <1>2, <3>1, <4>1, <4>2 DEF IInv, TypeOK, JobType, CodeType, Creating
    <3>2. CASE o # r
      BY <1>1, <1>2, <2>1, <3>2 DEF IInv, TypeOK, JobType, Creating
    <3> QED BY <3>1, <3>2
  <2> QED BY <2>2, <2>3, <2>4, <2>5
<1>8. RowsAreHeld'
  <2> SUFFICES ASSUME NEW o \in Req PROVE
        /\ HoldsAccount(o)' => userLock = o
        /\ HoldsAccount(o)' /\ job'[o].op = "cancel" => job'[o].to = user.pending
        /\ pc'[o] = "commit" => \A c \in job'[o].seen : code'[c].st = "live" => codeLock'[c] = o
        /\ pc'[o] = "open" => codeLock'[job'[o].code] = o
    BY <1>2 DEF RowsAreHeld
  <2>1. /\ HoldsAccount(o)' => HoldsAccount(o)
        /\ job'[o].op = job[o].op /\ job'[o].to = job[o].to /\ job'[o].seen = job[o].seen
    BY <1>2 DEF IInv, TypeOK, JobType, HoldsAccount
  <2>2. ASSUME pc'[o] = "commit", NEW c \in job'[o].seen, code'[c].st = "live"
        PROVE  codeLock'[c] = o
    <3>1. c \in Code /\ code[c].st = "live"
      BY <1>1, <1>2, <2>1, <2>2 DEF IInv, TypeOK, JobType
    <3>2. CASE o = r
      BY <1>3, <2>1, <2>2, <3>1, <3>2 DEF StillLive
    <3>3. CASE o # r
      BY <1>2, <1>3, <1>4, <2>1, <2>2, <3>1, <3>3 DEF IInv, RowsAreHeld
    <3> QED BY <3>2, <3>3
  <2>3. ASSUME pc'[o] = "open" PROVE codeLock'[job'[o].code] = o
    BY <1>2, <1>3, <1>4, <2>3 DEF IInv, RowsAreHeld, JobsMakeSense, Opening
  <2> QED BY <2>1, <2>2, <2>3 DEF IInv, RowsAreHeld
<1>9. OpensOnce'
  BY <1>1, <1>2 DEF IInv, OpensOnce, JobsMakeSense, Opening, TypeOK
<1>10. PendingHasItsCode' /\ WillStand'
  <2>1. Sent' = Sent /\ \A c \in Sent : code'[c] = code[c]
    BY <1>1, <1>2 DEF IInv, TypeOK, Sent
  <2>2. \A d : Stands(d)' <=> Stands(d)
    BY <2>1 DEF Stands
  <2>3. PendingHasItsCode'
    BY <1>2, <2>1, <2>2 DEF IInv, PendingHasItsCode
  <2>4. \A d \in Sent : ~ d > n
    BY <1>1 DEF IInv, Numbered, Sent, Code
  <2>5. WillStand'
    BY <1>2, <2>1, <2>2, <2>4 DEF IInv, TypeOK, JobType, WillStand
  <2> QED BY <2>3, <2>5
<1> QED BY <1>5, <1>6, <1>7, <1>8, <1>9, <1>10 DEF IInv

\* A request that ends: idle, knowing nothing, and its rows free.
Ends(r) ==
  /\ pc' = [pc EXCEPT ![r] = "idle"] /\ job' = [job EXCEPT ![r] = NoJob]
  /\ codeLock' = [c \in Code |-> IF codeLock[c] = r THEN None ELSE codeLock[c]]
  /\ userLock' = IF userLock = r THEN None ELSE userLock
  /\ last' = last /\ late' = late

\* What is left to show of one that ends: what it wrote, wrote no other's rows,
\* and voided no code of another address but for one that stands.
Leaves(r) ==
  /\ user' \in [email : Email, pending : Email \cup {None}, verified : BOOLEAN]
  /\ code' \in [Code -> CodeType]
  /\ \A c \in Code : /\ code'[c].purpose = code[c].purpose
                     /\ code'[c].st = "new" <=> code[c].st = "new"
                     /\ code[c].st \in {"live", "used"} => code'[c].st \in {"live", "used"}
                     /\ code[c].st = "draft" /\ code'[c].st # "draft"
                        => pc[r] = "commit" /\ job[r].code = c
                     /\ code[c].st # "live" /\ code'[c].st = "live"
                        => pc[r] = "commit" /\ job[r].code = c
                     /\ code[c].st = "live" /\ codeLock[c] \in Req \ {r} => code'[c] = code[c]
  /\ \A o \in Req \ {r} : HoldsAccount(o) => user'.pending = user.pending
  /\ SpentIsDead'
  /\ PendingHasItsCode' /\ WillStand'

LEMMA LeavesKeepIInv ==
  ASSUME NEW r \in Req, IInv, Ends(r), Leaves(r) PROVE IInv'
<1>1. TypeOK'
  BY DEF IInv, TypeOK, Ends, Leaves, JobType, NoJob, PCs, Issuing
<1>2. Numbered'
  BY DEF IInv, Ends, Leaves, Numbered
<1>3. \A o \in Req \ {r} : pc'[o] = pc[o] /\ job'[o] = job[o]
  BY DEF IInv, TypeOK, Ends
<1>4. pc'[r] = "idle" /\ job'[r] = NoJob
  BY DEF IInv, TypeOK, Ends
<1>5. JobsMakeSense'
  <2> SUFFICES ASSUME NEW o \in Req
               PROVE  (Shaped(o) /\ Seeing(o) /\ Creating(o) /\ Opening(o))'
    BY DEF JobsMakeSense
  <2>1. CASE o = r
    BY <1>4, <2>1 DEF Shaped, Seeing, Creating, Opening, NoJob
  <2>2. CASE o # r
    <3>1. Shaped(o) /\ Seeing(o) /\ Creating(o) /\ Opening(o)
      BY DEF IInv, JobsMakeSense
    <3>2. Shaped(o)'
      BY <1>3, <2>2, <3>1 DEF Shaped
    <3>3. job[o].seen \subseteq Code
      BY DEF IInv, TypeOK, JobType
    <3>4. Seeing(o)' /\ Opening(o)'
      BY <1>3, <2>2, <3>1, <3>3 DEF Seeing, Opening, Leaves
    <3>5. pc[o] = "commit" => code'[job[o].code].st = "draft"
      BY <2>2, <3>1 DEF Creating, Leaves
    <3>6. Creating(o)'
      BY <1>3, <1>4, <2>2, <3>1, <3>5 DEF Creating, Leaves
    <3> QED BY <3>2, <3>4, <3>6
  <2> QED BY <2>1, <2>2
<1>6. \A o \in Req \ {r} : HoldsAccount(o)' => HoldsAccount(o) /\ userLock' = o
  BY <1>3 DEF IInv, RowsAreHeld, HoldsAccount, Ends
<1>7. RowsAreHeld'
  <2> SUFFICES ASSUME NEW o \in Req PROVE
        /\ HoldsAccount(o)' => userLock' = o
        /\ HoldsAccount(o)' /\ job'[o].op = "cancel" => job'[o].to = user'.pending
        /\ pc'[o] = "commit" => \A c \in job'[o].seen : code'[c].st = "live" => codeLock'[c] = o
        /\ pc'[o] = "open" => codeLock'[job'[o].code] = o
    BY DEF RowsAreHeld
  <2>1. CASE o = r
    BY <1>4, <2>1 DEF HoldsAccount
  <2>2. CASE o # r
    <3>1. ASSUME pc'[o] = "commit", NEW c \in job'[o].seen, code'[c].st = "live"
          PROVE  codeLock'[c] = o
      <4>1. pc[o] = "commit" /\ c \in job[o].seen /\ c \in Code
        BY <1>3, <2>2, <3>1 DEF IInv, TypeOK, JobType
      <4>2. code[c].st \in {"live", "used"}
        BY <4>1 DEF IInv, JobsMakeSense, Seeing
      <4>3. code[c].st = "live"
        BY <3>1, <4>1, <4>2 DEF Leaves, IInv, JobsMakeSense, Creating
      <4>4. codeLock[c] = o
        BY <4>1, <4>3 DEF IInv, RowsAreHeld
      <4> QED BY <2>2, <4>1, <4>4 DEF Ends
    <3>2. ASSUME pc'[o] = "open" PROVE codeLock'[job'[o].code] = o
      BY <1>3, <2>2, <3>2 DEF IInv, RowsAreHeld, JobsMakeSense, Opening, Ends
    <3>3. HoldsAccount(o)' /\ job'[o].op = "cancel" => job'[o].to = user'.pending
      BY <1>3, <1>6, <2>2 DEF IInv, RowsAreHeld, Leaves
    <3> QED BY <1>6, <2>2, <3>1, <3>2, <3>3
  <2> QED BY <2>1, <2>2
<1>8. OpensOnce'
  <2> SUFFICES ASSUME NEW o \in Req, pc'[o] = "open" PROVE
        /\ code'[job'[o].code].st = "live" /\ code'[job'[o].code].attempts < MaxAttempts
        /\ \A q \in Req \ {o} : pc'[q] = "open" => job'[q].code # job'[o].code
    BY DEF OpensOnce
  <2>1. o # r /\ pc[o] = "open" /\ job'[o] = job[o]
    BY <1>3, <1>4
  <2>2. job[o].code \in Code /\ codeLock[job[o].code] = o
    BY <2>1 DEF IInv, JobsMakeSense, Opening, RowsAreHeld
  <2>3. code'[job[o].code] = code[job[o].code]
    BY <2>1, <2>2 DEF Leaves, IInv, OpensOnce
  <2> QED BY <1>3, <1>4, <2>1, <2>2, <2>3 DEF IInv, OpensOnce
<1> QED BY <1>1, <1>2, <1>5, <1>7, <1>8 DEF IInv, Leaves

LEMMA FailIInv ==
  ASSUME NEW r \in Req, IInv, Fail(r) PROVE IInv'
<1>1. Ends(r) /\ user' = user
  BY DEF Fail, End, Ends
<1>2. \A c \in Code : /\ code'[c].purpose = code[c].purpose
                      /\ code'[c].attempts = code[c].attempts
                      /\ code'[c].st = IF code[c].st = "draft" /\ job[r].code = c
                                       THEN "undone" ELSE code[c].st
                      /\ code[c].st # "draft" => code'[c] = code[c]
  <2> SUFFICES ASSUME NEW c \in Code
               PROVE  /\ code'[c].purpose = code[c].purpose
                      /\ code'[c].attempts = code[c].attempts
                      /\ code'[c].st = IF code[c].st = "draft" /\ job[r].code = c
                                       THEN "undone" ELSE code[c].st
                      /\ code[c].st # "draft" => code'[c] = code[c]
    OBVIOUS
  <2>1. code'[c] = IF code[c].st = "draft" /\ job[r].code = c
                   THEN [code[c] EXCEPT !.st = "undone"] ELSE code[c]
    BY DEF Fail
  <2>2. code[c] \in CodeType
    BY DEF IInv, TypeOK
  <2> QED BY <2>1, <2>2 DEF CodeType
<1>3. code' \in [Code -> CodeType]
  BY DEF Fail, IInv, TypeOK, CodeType
<1>4. \A c \in Code : code[c].st = "draft" /\ job[r].code = c => pc[r] = "commit"
  BY DEF IInv, JobsMakeSense, Shaped, OpensOnce, Code
<1>5. SpentIsDead'
  BY <1>2 DEF IInv, SpentIsDead
<1>6. Sent' = Sent /\ \A c \in Sent : code'[c] = code[c]
  BY <1>2 DEF Sent
<1>7. \A d : Stands(d)' <=> Stands(d)
  BY <1>6 DEF Stands
<1>8. PendingHasItsCode' /\ WillStand'
  BY <1>1, <1>6, <1>7 DEF IInv, TypeOK, PendingHasItsCode, WillStand, Ends, Stands
<1>9. Leaves(r)
  BY <1>1, <1>2, <1>3, <1>4, <1>5, <1>8 DEF IInv, TypeOK, CodeType, Leaves
<1> QED BY <1>1, <1>9, LeavesKeepIInv

\* A code with attempts left is missed: the row is nobody's.
LEMMA MissIInv ==
  ASSUME NEW r \in Req, IInv, Miss(r) PROVE IInv'
<1>1. Ends(r) /\ user' = user /\ pc[r] = "check"
  BY DEF Miss, End, Ends
<1>2. PICK c \in Latest(StillLive(r)) :
        /\ codeLock[c] = None
        /\ code' = IF code[c].attempts < MaxAttempts THEN Missed(c) ELSE code
  BY DEF Miss, Free
<1>3. c \in Code /\ code[c].st = "live" /\ code[c].attempts \in 0..MaxAttempts
  BY <1>2 DEF IInv, TypeOK, JobType, CodeType, Latest, StillLive
<1>4. /\ \A d \in Code \ {c} : code'[d] = code[d]
      /\ code'[c].purpose = code[c].purpose
      /\ code'[c].st \in {"live", "used"}
      /\ code'[c].st = "live" => code'[c].attempts # MaxAttempts
      /\ code'[c].st = "live" \/ code'[c].attempts = MaxAttempts
      /\ code' \in [Code -> CodeType]
  <2>1. CASE code[c].attempts < MaxAttempts
    <3> DEFINE n == code[c].attempts + 1
    <3>1. code' = [code EXCEPT ![c].attempts = n,
                               ![c].st = IF n >= MaxAttempts THEN "used" ELSE @]
      BY <1>2, <2>1 DEF Missed
    <3>2. n \in 0..MaxAttempts /\ (n >= MaxAttempts <=> n = MaxAttempts)
      BY <1>3, <2>1
    <3> HIDE DEF n
    <3>3. code[c] \in CodeType /\ code \in [Code -> CodeType]
      BY <1>3 DEF IInv, TypeOK
    <3>4. /\ code'[c] = [code[c] EXCEPT !.attempts = n,
                                        !.st = IF n >= MaxAttempts THEN "used" ELSE @]
          /\ \A d \in Code \ {c} : code'[d] = code[d]
      BY <1>3, <3>1, <3>3
    <3>5. /\ code'[c].attempts = n /\ code'[c].purpose = code[c].purpose
          /\ code'[c].st = IF n >= MaxAttempts THEN "used" ELSE code[c].st
          /\ code'[c] \in CodeType
      BY <3>2, <3>3, <3>4 DEF CodeType
    <3>6. code' \in [Code -> CodeType]
      BY <3>1, <3>3, <3>4, <3>5
    <3> QED BY <1>3, <3>2, <3>4, <3>5, <3>6
  <2>2. CASE ~ code[c].attempts < MaxAttempts
    BY <1>2, <1>3, <2>2 DEF IInv, TypeOK, SpentIsDead
  <2> QED BY <2>1, <2>2
<1>5. SpentIsDead'
  BY <1>3, <1>4 DEF IInv, SpentIsDead
<1>6. Sent' = Sent
  BY <1>3, <1>4 DEF Sent
<1>7. ASSUME NEW d \in Sent, Stands(d) PROVE Stands(d)'
  <2>1. PICK e \in Sent : e >= d /\ (code[e].st = "live" \/ code[e].attempts = MaxAttempts)
    BY <1>7 DEF Stands
  <2>2. code'[e].st = "live" \/ code'[e].attempts = MaxAttempts
    BY <1>4, <2>1 DEF Sent
  <2> QED BY <1>6, <2>1, <2>2 DEF Stands
<1>8. PendingHasItsCode' /\ WillStand'
  BY <1>1, <1>6, <1>7 DEF IInv, TypeOK, PendingHasItsCode, WillStand, Ends, Stands
<1>9. Leaves(r)
  BY <1>1, <1>2, <1>3, <1>4, <1>5, <1>8 DEF IInv, TypeOK, Leaves
<1> QED BY <1>1, <1>9, LeavesKeepIInv

\* The account is nobody's: no address is about to wait, or to be forgotten.
LEMMA OpenIInv ==
  ASSUME NEW r \in Req, IInv, Open(r) PROVE IInv'
<1> DEFINE c == job[r].code
<1>1. /\ Ends(r) /\ pc[r] = "open" /\ userLock = None
      /\ code' = [code EXCEPT ![c].st = "used"]
      /\ user' = IF job[r].purpose = "email_change"
                 THEN [email |-> job[r].to, pending |-> None, verified |-> TRUE]
                 ELSE [user EXCEPT !.verified = TRUE]
  BY DEF Open, End, Ends
<1>2. /\ c \in Code /\ code[c].st = "live" /\ codeLock[c] = r
      /\ code[c].purpose = job[r].purpose
      /\ code[c].attempts # MaxAttempts
  BY <1>1 DEF IInv, JobsMakeSense, Opening, OpensOnce, RowsAreHeld
<1>3. \A o \in Req : ~ HoldsAccount(o)
  BY <1>1 DEF IInv, RowsAreHeld
<1>4. /\ user' \in [email : Email, pending : Email \cup {None}, verified : BOOLEAN]
      /\ code' \in [Code -> CodeType]
  <2>1. job[r].purpose = "email_change" => job[r].to \in Email
    BY <1>1 DEF IInv, JobsMakeSense, Shaped
  <2>2. code' \in [Code -> CodeType]
    BY <1>1, <1>2 DEF IInv, TypeOK, CodeType
  <2>3. CASE job[r].purpose = "email_change"
    BY <1>1, <2>1, <2>2, <2>3
  <2>4. CASE job[r].purpose # "email_change"
    BY <1>1, <2>2, <2>4 DEF IInv, TypeOK
  <2> QED BY <2>3, <2>4
<1>5. SpentIsDead'
  BY <1>1, <1>2 DEF IInv, TypeOK, CodeType, SpentIsDead
<1>6. PendingHasItsCode'
  <2>1. CASE job[r].purpose = "email_change"
    BY <1>1, <2>1 DEF PendingHasItsCode
  <2>2. CASE job[r].purpose # "email_change"
    <3>1. Sent' = Sent /\ \A d \in Sent : code'[d] = code[d]
      BY <1>1, <1>2, <2>2 DEF Sent, IInv, TypeOK, CodeType
    <3>2. user'.pending = user.pending
      BY <1>1, <2>2 DEF IInv, TypeOK
    <3> QED BY <3>1, <3>2 DEF IInv, PendingHasItsCode
  <2> QED BY <2>1, <2>2
<1>7. WillStand'
  BY <1>1, <1>3 DEF IInv, TypeOK, WillStand, HoldsAccount, Ends
<1>8. Leaves(r)
  BY <1>1, <1>2, <1>3, <1>4, <1>5, <1>6, <1>7 DEF IInv, TypeOK, CodeType, Leaves
<1> QED BY <1>1, <1>8, LeavesKeepIInv

\* What voiding the codes seen does to each.
LEMMA VoidedCodes ==
  ASSUME NEW r \in Req, IInv PROVE
    /\ Voided(r) \in [Code -> CodeType]
    /\ \A c \in Code : /\ Voided(r)[c].purpose = code[c].purpose
                       /\ Voided(r)[c].attempts = code[c].attempts
                       /\ Voided(r)[c].st = IF c \in StillLive(r) THEN "used" ELSE code[c].st
                       /\ c \notin StillLive(r) => Voided(r)[c] = code[c]
<1> SUFFICES ASSUME NEW c \in Code PROVE
      /\ Voided(r)[c] \in CodeType
      /\ Voided(r)[c].purpose = code[c].purpose
      /\ Voided(r)[c].attempts = code[c].attempts
      /\ Voided(r)[c].st = IF c \in StillLive(r) THEN "used" ELSE code[c].st
      /\ c \notin StillLive(r) => Voided(r)[c] = code[c]
  BY DEF Voided
<1>1. Voided(r)[c] = IF c \in StillLive(r) THEN [code[c] EXCEPT !.st = "used"] ELSE code[c]
  BY DEF Voided
<1>2. code[c] \in CodeType
  BY DEF IInv, TypeOK
<1> QED BY <1>1, <1>2 DEF CodeType

LEMMA ClearIInv ==
  ASSUME NEW r \in Req, IInv, Clear(r) PROVE IInv'
<1>1. /\ Ends(r) /\ pc[r] = "clear" /\ code' = Voided(r)
      /\ \A c \in job[r].seen : codeLock[c] = None
      /\ user' = IF job[r].to # None THEN [user EXCEPT !.pending = None] ELSE user
  BY DEF Clear, End, Ends, Free
<1>2. userLock = r /\ job[r].to = user.pending
  BY <1>1 DEF IInv, JobsMakeSense, Shaped, RowsAreHeld, HoldsAccount
<1>3. /\ user'.pending = None
      /\ user' \in [email : Email, pending : Email \cup {None}, verified : BOOLEAN]
  BY <1>1, <1>2 DEF IInv, TypeOK
<1>4. \A o \in Req \ {r} : ~ HoldsAccount(o)
  BY <1>2 DEF IInv, RowsAreHeld
<1>5. PendingHasItsCode' /\ WillStand'
  BY <1>1, <1>3, <1>4 DEF IInv, TypeOK, PendingHasItsCode, WillStand, HoldsAccount, Ends
<1>6. \A c \in StillLive(r) : c \in Code /\ code[c].st = "live" /\ codeLock[c] = None
  BY <1>1 DEF StillLive, IInv, TypeOK, JobType
<1>7. SpentIsDead'
  BY <1>1, VoidedCodes DEF IInv, SpentIsDead
<1>8. Leaves(r)
  BY <1>1, <1>3, <1>4, <1>5, <1>6, <1>7, VoidedCodes DEF Leaves
<1> QED BY <1>1, <1>8, LeavesKeepIInv

LEMMA CommitIInv ==
  ASSUME NEW r \in Req, IInv, Commit(r) PROVE IInv'
<1>0. PICK k \in Code : k = job[r].code
  BY DEF Commit, IInv, JobsMakeSense, Creating
<1>1. /\ Ends(r) /\ pc[r] = "commit" /\ code' = [Voided(r) EXCEPT ![k].st = "live"]
      /\ user' = IF job[r].op = "request" THEN [user EXCEPT !.pending = job[r].to] ELSE user
  BY <1>0 DEF Commit, End, Ends
<1>2. /\ k \in Code /\ code[k].st = "draft" /\ code[k].purpose = job[r].purpose
      /\ \A c \in job[r].seen : c < k /\ code[c].purpose = job[r].purpose
  BY <1>0, <1>1 DEF IInv, JobsMakeSense, Creating, Seeing
<1>3. \A c \in StillLive(r) : /\ c \in Code /\ code[c].st = "live" /\ codeLock[c] = r
                              /\ c < k /\ code[c].purpose = job[r].purpose
  BY <1>1, <1>2 DEF StillLive, IInv, TypeOK, JobType, RowsAreHeld
<1>4. k \notin StillLive(r) /\ code[k].attempts # MaxAttempts
  BY <1>2 DEF StillLive, IInv, SpentIsDead
<1>5. /\ code' \in [Code -> CodeType]
      /\ \A c \in Code : /\ code'[c].purpose = code[c].purpose
                         /\ code'[c].attempts = code[c].attempts
                         /\ code'[c].st = IF c = k THEN "live"
                                          ELSE IF c \in StillLive(r) THEN "used" ELSE code[c].st
                         /\ c # k /\ c \notin StillLive(r) => code'[c] = code[c]
  <2> DEFINE v == Voided(r)
  <2>1. v \in [Code -> CodeType] /\ code' = [v EXCEPT ![k].st = "live"]
    BY <1>1, VoidedCodes
  <2>2. /\ code' \in [Code -> CodeType]
        /\ \A c \in Code : /\ code'[c].purpose = v[c].purpose
                           /\ code'[c].attempts = v[c].attempts
                           /\ code'[c].st = IF c = k THEN "live" ELSE v[c].st
                           /\ c # k => code'[c] = v[c]
    <3> HIDE DEF v
    <3> QED BY <1>2, <2>1 DEF CodeType
  <2> QED BY <1>4, <2>2, VoidedCodes
<1>6. SpentIsDead'
  BY <1>4, <1>5 DEF IInv, SpentIsDead
<1>7. Sent' = IF job[r].purpose = "email_change" THEN Sent \cup {k} ELSE Sent
  BY <1>2, <1>3, <1>5 DEF Sent
<1>8. ASSUME NEW d \in Sent, Stands(d) PROVE Stands(d)'
  <2>1. PICK e \in Sent : e >= d /\ (code[e].st = "live" \/ code[e].attempts = MaxAttempts)
    BY <1>8 DEF Stands
  <2>2. CASE e \in StillLive(r)
    <3>1. k \in Sent' /\ code'[k].st = "live" /\ k >= d
      BY <1>2, <1>3, <1>5, <1>7, <2>1, <2>2 DEF Sent, Code
    <3> QED BY <3>1 DEF Stands
  <2>3. CASE e \notin StillLive(r)
    <3>1. e \in Sent' /\ (code'[e].st = "live" \/ code'[e].attempts = MaxAttempts)
      BY <1>2, <1>5, <1>7, <2>1, <2>3 DEF Sent
    <3> QED BY <2>1, <3>1 DEF Stands
  <2> QED BY <2>2, <2>3
<1>9. k \in Sent' => Stands(k)'
  BY <1>2, <1>5 DEF Stands, Code
<1>10. PendingHasItsCode'
  <2> SUFFICES ASSUME user'.pending # None
               PROVE  Sent' # {} /\ \A d \in Sent' : Stands(d)'
    BY DEF PendingHasItsCode, Stands
  <2>1. CASE job[r].op = "request"
    <3>1. job[r].purpose = "email_change" /\ k \in Sent'
      BY <1>7, <2>1 DEF IInv, JobsMakeSense, Shaped
    <3>2. ASSUME NEW d \in Sent', d > k PROVE Stands(d)'
      BY <1>0, <1>1, <1>2, <1>7, <1>8, <2>1, <3>2 DEF IInv, WillStand, Code
    <3>3. ASSUME NEW d \in Sent', d <= k PROVE Stands(d)'
      BY <1>2, <1>5, <3>1, <3>3 DEF Stands
    <3>4. \A d \in Sent' : d > k \/ d <= k
      BY <1>2 DEF Sent, Code
    <3> QED BY <3>1, <3>2, <3>3, <3>4
  <2>2. CASE job[r].op # "request"
    <3>1. Sent # {} /\ \A d \in Sent : Stands(d)
      BY <1>1, <2>2 DEF IInv, PendingHasItsCode, Stands
    <3> QED BY <1>7, <1>8, <1>9, <3>1
  <2> QED BY <2>1, <2>2
<1>11. WillStand'
  <2> SUFFICES ASSUME NEW o \in Req, pc'[o] = "commit", job'[o].op = "request",
                      NEW d \in Sent', d > job'[o].code
               PROVE  Stands(d)'
    BY DEF WillStand
  <2>1. pc[o] = "commit" /\ job'[o] = job[o]
    BY <1>1 DEF IInv, TypeOK, Ends
  <2>2. CASE d = k
    BY <1>9, <2>2
  <2>3. CASE d # k
    BY <1>7, <1>8, <2>1, <2>3 DEF IInv, WillStand
  <2> QED BY <2>2, <2>3
<1>12. /\ user' \in [email : Email, pending : Email \cup {None}, verified : BOOLEAN]
       /\ \A o \in Req \ {r} : HoldsAccount(o) => user'.pending = user.pending
  <2>1. CASE job[r].op = "request"
    <3>1. job[r].to \in Email /\ userLock = r
      BY <1>1, <2>1 DEF IInv, JobsMakeSense, Shaped, RowsAreHeld, HoldsAccount
    <3>2. \A o \in Req \ {r} : ~ HoldsAccount(o)
      BY <3>1 DEF IInv, RowsAreHeld
    <3> QED BY <1>1, <2>1, <3>1, <3>2 DEF IInv, TypeOK
  <2>2. CASE job[r].op # "request"
    BY <1>1, <2>2 DEF IInv, TypeOK
  <2> QED BY <2>1, <2>2
<1>13. Leaves(r)
  BY <1>0, <1>1, <1>2, <1>3, <1>5, <1>6, <1>10, <1>11, <1>12 DEF Leaves
<1> QED BY <1>1, <1>13, LeavesKeepIInv

-----------------------------------------------------------------------------
\* The invariant of the codes' requests holds of every reachable state.
THEOREM Invariance == Spec => []IInv
<1>1. IInv /\ [Next]_vars => IInv'
  <2> SUFFICES ASSUME IInv, [Next]_vars PROVE IInv'
    OBVIOUS
  <2>1. ASSUME NEW r \in Req, Proceed(r) PROVE IInv'
    BY <2>1, SavePendingIInv, VoidIInv, IssueIInv, CommitIInv, ClearIInv, LookIInv,
       NoLiveCodeIInv, MatchIInv, MissIInv, OpenIInv DEF Proceed
  <2>2. ASSUME NEW r \in Req, NEW p \in Purposes, SendCode(r, p) \/ Answer(r, p) PROVE IInv'
    BY <2>2, SendCodeIInv, AnswerIInv
  <2>3. ASSUME NEW r \in Req, NEW e \in Email, RequestEmailChange(r, e) PROVE IInv'
    BY <2>3, RequestEmailChangeIInv
  <2>4. ASSUME NEW r \in Req,
               ResendEmailChange(r) \/ CancelEmailChange(r) \/ Fail(r)
        PROVE  IInv'
    BY <2>4, ResendEmailChangeIInv, CancelEmailChangeIInv, FailIInv
  <2>5. CASE Expire
    BY <2>5, ExpireIInv
  <2>6. CASE UNCHANGED vars
    <3>1. TypeOK' /\ Numbered' /\ OpensOnce' /\ SpentIsDead'
      BY <2>6 DEF vars, IInv, TypeOK, Numbered, OpensOnce, SpentIsDead
    <3>2. JobsMakeSense' /\ RowsAreHeld'
      BY <2>6 DEF vars, IInv, JobsMakeSense, Shaped, Seeing, Creating, Opening, RowsAreHeld,
                  HoldsAccount
    <3>3. PendingHasItsCode' /\ WillStand'
      BY <2>6 DEF vars, IInv, PendingHasItsCode, WillStand, Sent, Stands
    <3> QED BY <3>1, <3>2, <3>3 DEF IInv
  <2> QED BY <2>1, <2>2, <2>3, <2>4, <2>5, <2>6 DEF Next
<1> QED BY <1>1, InitIInv, PTL DEF Spec

\* Rows and requests of apps/accounts keep their shape, a code's attempts within
\* OTP_MAX_ATTEMPTS.
THEOREM CodesTypeOK == Spec => []TypeOK
<1> QED BY Invariance, PTL DEF IInv

\* check_otp: a code opens once, however many requests answer with it at once.
THEOREM CodesOpenOnce == Spec => []OpensOnce
<1> QED BY Invariance, PTL DEF IInv

\* check_otp: a code whose attempts ran out is used for good.
THEOREM SpentCodesAreDead == Spec => []SpentIsDead
<1> QED BY Invariance, PTL DEF IInv

\* request_, resend_ and cancel_email_change, in any order and number, leave no
\* address waiting for a code that was voided.
THEOREM PendingAddressesHaveCodes == Spec => []PendingHasItsCode
<1> QED BY Invariance, PTL DEF IInv

=============================================================================
