--------------------------- MODULE SessionsProofs ---------------------------
(***************************************************************************)
(* Safety of the sessions, for any number of requests, tokens, passwords.  *)
(***************************************************************************)
EXTENDS Sessions, TLAPS

\* A token has the fingerprint its sign-in was checked with, of a password
\* that was set.
Proven == \A t \in Issued : tok[t].fp \in 1..made /\ tok[t].proof = tok[t].fp

\* A renewed token was issued before the one that replaced it.
Descends == \A t \in Issued : tok[t].from # None => tok[t].from \in Issued

PasswordIsMade == password # None => password \in 1..made

\* What a request knows: a password that was set, a token that was issued.
Sense(r) ==
  /\ pc[r] = "open" => job[r].knew \in 1..made
  /\ pc[r] \in {"validate", "close", "closed"} => job[r].token \in Issued
  /\ job[r].seen \subseteq Issued

JobsMakeSense == \A r \in Req : Sense(r)

IInv == /\ TypeOK /\ Proven /\ Descends /\ PasswordIsMade /\ JobsMakeSense
        /\ UsedIsClosed

\* What every step keeps: time and numbers go on, a token that was issued is
\* what it was, a closed one stays closed until it expires, and a password
\* is what it was or like none before.
Onward ==
  /\ made <= made' /\ last <= last' /\ stale <= stale' /\ late <= late'
  /\ \A t \in Issued : tok'[t] = tok[t] /\ (t \in closed /\ t > late' => t \in closed')
  /\ password' = password \/ password' = None \/ password' > made

-----------------------------------------------------------------------------
USE SessionsAssumption

LEMMA InitIInv == Init => IInv
<1> SUFFICES ASSUME Init PROVE IInv
  OBVIOUS
<1>1. TypeOK
  BY DEF Init, TypeOK, NoToken, NoJob, JobType, PCs, Token, Hash, Issued
<1>2. Proven /\ Descends /\ PasswordIsMade /\ UsedIsClosed /\ JobsMakeSense
  BY DEF Init, Proven, Descends, PasswordIsMade, UsedIsClosed, JobsMakeSense, Sense, Issued, NoJob
<1> QED BY <1>1, <1>2 DEF IInv

LEMMA IssuedAreTokens == ASSUME TypeOK PROVE Issued \subseteq Token
BY DEF TypeOK, Issued, Token

\* A step that writes nothing but where requests are and what they know.
Quiet == UNCHANGED <<password, made, tok, last, stale, late, flushed, closed>>

LEMMA QuietKeeps ==
  ASSUME IInv, Quiet, TypeOK', JobsMakeSense' PROVE IInv' /\ Onward
<1>1. Proven' /\ Descends' /\ PasswordIsMade'
  BY DEF IInv, Quiet, Proven, Descends, PasswordIsMade, Issued
<1>2. UsedIsClosed'
  BY DEF IInv, Quiet, UsedIsClosed, Issued, Valid
<1>3. Onward
  BY DEF IInv, TypeOK, Quiet, Onward, Issued, Hash
<1> QED BY <1>1, <1>2, <1>3 DEF IInv

LEMMA SignInKeeps ==
  ASSUME NEW r \in Req, IInv, SignIn(r) PROVE IInv' /\ Onward
<1>1. Quiet
  BY DEF SignIn, Quiet
<1>2. TypeOK'
  BY DEF IInv, TypeOK, SignIn, Start, Goto, NoJob, JobType, PCs, Issued, Token, Hash
<1>3. JobsMakeSense'
  BY DEF IInv, TypeOK, JobsMakeSense, Sense, SignIn, Start, Goto, NoJob, JobType, PCs, Issued, PasswordIsMade
<1> QED BY <1>1, <1>2, <1>3, QuietKeeps

LEMMA RefreshKeeps ==
  ASSUME NEW r \in Req, NEW t \in Issued, IInv, Refresh(r, t) PROVE IInv' /\ Onward
<1>1. Quiet
  BY DEF Refresh, Quiet
<1>2. TypeOK'
  <2>1. t \in Token
    BY IssuedAreTokens DEF IInv
  <2> QED BY <2>1 DEF IInv, TypeOK, Refresh, Start, Goto, NoJob, JobType, PCs, Issued, Token, Hash
<1>3. JobsMakeSense'
  BY DEF IInv, TypeOK, JobsMakeSense, Sense, Refresh, Start, Goto, NoJob, JobType, PCs, Issued, PasswordIsMade
<1> QED BY <1>1, <1>2, <1>3, QuietKeeps

LEMMA ValidateKeeps ==
  ASSUME NEW r \in Req, IInv, Validate(r) PROVE IInv' /\ Onward
<1>1. Quiet
  BY DEF Validate, Quiet
<1>2. TypeOK'
  BY DEF IInv, TypeOK, Validate, Goto, NoJob, JobType, PCs, Issued, Token, Hash
<1>3. JobsMakeSense'
  BY DEF IInv, TypeOK, JobsMakeSense, Sense, Validate, Goto, NoJob, JobType, PCs, Issued, PasswordIsMade
<1> QED BY <1>1, <1>2, <1>3, QuietKeeps

LEMMA LogoutKeeps ==
  ASSUME NEW r \in Req, NEW t \in Issued, IInv, Logout(r, t) PROVE IInv' /\ Onward
<1>1. Quiet
  BY DEF Logout, Quiet
<1>2. TypeOK'
  <2>1. t \in Token
    BY IssuedAreTokens DEF IInv
  <2> QED BY <2>1 DEF IInv, TypeOK, Logout, Start, Goto, NoJob, JobType, PCs, Issued, Token, Hash
<1>3. JobsMakeSense'
  BY DEF IInv, TypeOK, JobsMakeSense, Sense, Logout, Start, Goto, NoJob, JobType, PCs, Issued, PasswordIsMade
<1> QED BY <1>1, <1>2, <1>3, QuietKeeps

LEMMA CloseTokenKeeps ==
  ASSUME NEW r \in Req, IInv, CloseToken(r) PROVE IInv' /\ Onward
<1>1. Quiet
  BY DEF CloseToken, Quiet
<1>2. TypeOK'
  BY DEF IInv, TypeOK, CloseToken, Goto, NoJob, JobType, PCs, Issued, Token, Hash
<1>3. JobsMakeSense'
  BY DEF IInv, TypeOK, JobsMakeSense, Sense, CloseToken, Goto, NoJob, JobType, PCs, Issued, PasswordIsMade
<1> QED BY <1>1, <1>2, <1>3, QuietKeeps

LEMMA ChangePasswordKeeps ==
  ASSUME NEW r \in Req, NEW t \in Issued, IInv, ChangePassword(r, t) PROVE IInv' /\ Onward
<1>1. Quiet
  BY DEF ChangePassword, Quiet
<1>2. TypeOK'
  BY DEF IInv, TypeOK, ChangePassword, Start, Goto, NoJob, JobType, PCs, Issued, Token, Hash
<1>3. JobsMakeSense'
  BY DEF IInv, TypeOK, JobsMakeSense, Sense, ChangePassword, Start, Goto, NoJob, JobType, PCs, Issued, PasswordIsMade
<1> QED BY <1>1, <1>2, <1>3, QuietKeeps

LEMMA ResetPasswordKeeps ==
  ASSUME NEW r \in Req, IInv, ResetPassword(r) PROVE IInv' /\ Onward
<1>1. Quiet
  BY DEF ResetPassword, Quiet
<1>2. TypeOK'
  BY DEF IInv, TypeOK, ResetPassword, Start, Goto, NoJob, JobType, PCs, Issued, Token, Hash
<1>3. JobsMakeSense'
  BY DEF IInv, TypeOK, JobsMakeSense, Sense, ResetPassword, Start, Goto, NoJob, JobType, PCs, Issued, PasswordIsMade
<1> QED BY <1>1, <1>2, <1>3, QuietKeeps

LEMMA AdminDeleteKeeps ==
  ASSUME NEW r \in Req, IInv, AdminDelete(r) PROVE IInv' /\ Onward
<1>1. Quiet
  BY DEF AdminDelete, Quiet
<1>2. TypeOK'
  BY DEF IInv, TypeOK, AdminDelete, Start, Goto, NoJob, JobType, PCs, Issued, Token, Hash
<1>3. JobsMakeSense'
  BY DEF IInv, TypeOK, JobsMakeSense, Sense, AdminDelete, Start, Goto, NoJob, JobType, PCs, Issued, PasswordIsMade
<1> QED BY <1>1, <1>2, <1>3, QuietKeeps

LEMMA SavePasswordKeeps ==
  ASSUME NEW r \in Req, IInv, SavePassword(r) PROVE IInv' /\ Onward
<1>1. Quiet
  BY DEF SavePassword, Quiet
<1>2. TypeOK'
  BY DEF IInv, TypeOK, SavePassword, Goto, NoJob, JobType, PCs, Issued, Token, Hash
<1>3. JobsMakeSense'
  BY DEF IInv, TypeOK, JobsMakeSense, Sense, SavePassword, Goto, NoJob, JobType, PCs, Issued, PasswordIsMade
<1> QED BY <1>1, <1>2, <1>3, QuietKeeps

LEMMA ListSessionsKeeps ==
  ASSUME NEW r \in Req, IInv, ListSessions(r) PROVE IInv' /\ Onward
<1>1. Quiet
  BY DEF ListSessions, Quiet
<1>2. TypeOK'
  <2>1. {t \in Issued : t > flushed /\ t \notin closed} \in SUBSET Token
    BY IssuedAreTokens DEF IInv
  <2>2. job' \in [Req -> JobType]
    <3>1. job[r] \in JobType /\ job \in [Req -> JobType]
      BY DEF IInv, TypeOK
    <3>2. [job[r] EXCEPT !.seen = {t \in Issued : t > flushed /\ t \notin closed}] \in JobType
      BY <2>1, <3>1 DEF JobType
    <3>3. job' = [job EXCEPT ![r] = [job[r] EXCEPT !.seen = {t \in Issued : t > flushed /\ t \notin closed}]]
      BY <3>1 DEF ListSessions
    <3> HIDE DEF JobType
    <3> QED BY <3>1, <3>2, <3>3
  <2> QED BY <2>2 DEF IInv, TypeOK, ListSessions, Goto, PCs, Issued
<1>3. JobsMakeSense'
  BY DEF IInv, TypeOK, JobsMakeSense, Sense, ListSessions, Goto, NoJob, JobType, PCs, Issued, PasswordIsMade
<1> QED BY <1>1, <1>2, <1>3, QuietKeeps

LEMMA ShutSessionsKeeps ==
  ASSUME NEW r \in Req, IInv, ShutSessions(r) PROVE IInv' /\ Onward
<1>1. Quiet
  BY DEF ShutSessions, Quiet
<1>2. TypeOK'
  BY DEF IInv, TypeOK, ShutSessions, Goto, NoJob, JobType, PCs, Issued, Token, Hash
<1>3. JobsMakeSense'
  BY DEF IInv, TypeOK, JobsMakeSense, Sense, ShutSessions, Goto, NoJob, JobType, PCs, Issued, PasswordIsMade
<1> QED BY <1>1, <1>2, <1>3, QuietKeeps

LEMMA DeleteAccountKeeps ==
  ASSUME NEW r \in Req, NEW t \in Issued, IInv, DeleteAccount(r, t) PROVE IInv' /\ Onward
<1>1. Quiet
  BY DEF DeleteAccount, Quiet
<1>2. TypeOK'
  BY DEF IInv, TypeOK, DeleteAccount, Start, Goto, NoJob, JobType, PCs, Issued, Token, Hash
<1>3. JobsMakeSense'
  BY DEF IInv, TypeOK, JobsMakeSense, Sense, DeleteAccount, Start, Goto, NoJob, JobType, PCs, Issued, PasswordIsMade
<1> QED BY <1>1, <1>2, <1>3, QuietKeeps

LEMMA EraseKeeps ==
  ASSUME NEW r \in Req, IInv, Erase(r) PROVE IInv' /\ Onward
<1>1. Quiet
  BY DEF Erase, Quiet
<1>2. TypeOK'
  <2>1. Issued \in SUBSET Token
    BY IssuedAreTokens DEF IInv
  <2>2. job' \in [Req -> JobType]
    <3>1. job[r] \in JobType /\ job \in [Req -> JobType]
      BY DEF IInv, TypeOK
    <3>2. [job[r] EXCEPT !.seen = Issued] \in JobType
      BY <2>1, <3>1 DEF JobType
    <3>3. job' = [job EXCEPT ![r] = [job[r] EXCEPT !.seen = Issued]]
      BY <3>1 DEF Erase
    <3> HIDE DEF JobType
    <3> QED BY <3>1, <3>2, <3>3
  <2> QED BY <2>2 DEF IInv, TypeOK, Erase, Goto, PCs, Issued
<1>3. JobsMakeSense'
  BY DEF IInv, TypeOK, JobsMakeSense, Sense, Erase, Goto, NoJob, JobType, PCs, Issued, PasswordIsMade
<1> QED BY <1>1, <1>2, <1>3, QuietKeeps

LEMMA FailKeeps ==
  ASSUME NEW r \in Req, IInv, Fail(r) PROVE IInv' /\ Onward
<1>1. Quiet
  BY DEF Fail, Quiet
<1>2. TypeOK'
  BY DEF IInv, TypeOK, Fail, End, NoJob, JobType, PCs, Issued, Token, Hash
<1>3. JobsMakeSense'
  BY DEF IInv, TypeOK, JobsMakeSense, Sense, Fail, End, NoJob, JobType, PCs, Issued, PasswordIsMade
<1> QED BY <1>1, <1>2, <1>3, QuietKeeps

-----------------------------------------------------------------------------
\* A token issued by the step.
NewToken(t) ==
  /\ tok[t].fp \in 1..made /\ tok[t].proof = tok[t].fp
  /\ tok[t].from # None => tok[t].from \in Issued /\ tok[t].from \in closed

LEMMA WritesKeep ==
  ASSUME IInv, Onward, TypeOK', JobsMakeSense', PasswordIsMade',
         \A t \in Issued' \ Issued : NewToken(t)'
  PROVE  IInv'
<1>0. /\ Issued \subseteq Issued' /\ late \in Nat /\ late' \in Nat
      /\ last \in Nat /\ last' \in Nat /\ made \in Nat /\ made' \in Nat
      /\ late <= late' /\ made <= made'
  BY DEF IInv, TypeOK, Onward, Issued, Hash
<1>1. Proven'
  BY <1>0 DEF IInv, Onward, Proven, NewToken
<1>2. Descends'
  BY <1>0 DEF IInv, Onward, Descends, NewToken
<1>3. UsedIsClosed'
  <2> SUFFICES ASSUME NEW t \in Issued', tok'[t].from # None
               PROVE  ~ (tok'[t].from > late' /\ tok'[t].from \notin closed')
    BY DEF UsedIsClosed, Valid
  <2>1. CASE t \notin Issued
    BY <2>1 DEF NewToken
  <2>2. CASE t \in Issued
    <3> DEFINE f == tok[t].from
    <3>1. tok'[t] = tok[t] /\ f # None
      BY <2>2 DEF Onward
    <3>2. f \in Issued /\ ~ (f > late /\ f \notin closed)
      BY <2>2, <3>1 DEF IInv, Descends, UsedIsClosed, Valid
    <3>3. f \in Nat
      BY <3>2 DEF Issued
    <3>4. f > late' => f > late
      BY <1>0, <3>3
    <3> QED BY <3>1, <3>2, <3>4 DEF Onward
  <2> QED BY <2>1, <2>2
<1> QED BY <1>1, <1>2, <1>3 DEF IInv

LEMMA EndedSense ==
  ASSUME IInv, NEW r \in Req, End(r), made' \in Nat, last' \in Nat, made <= made', last <= last'
  PROVE  JobsMakeSense'
BY DEF IInv, TypeOK, JobsMakeSense, Sense, End, NoJob, Issued, Hash

LEMMA StillSense ==
  ASSUME IInv, UNCHANGED <<pc, job>>, made' \in Nat, last' \in Nat, made <= made', last <= last'
  PROVE  JobsMakeSense'
BY DEF IInv, TypeOK, JobsMakeSense, Sense, Issued, Hash

LEMMA EndedType ==
  ASSUME IInv, NEW r \in Req, End(r)
  PROVE  /\ pc' \in [Req -> PCs] /\ job' \in [Req -> JobType]
         /\ closing' \in [Token -> Req \cup {None}] /\ userLock' \in Req \cup {None}
BY DEF IInv, TypeOK, End, NoJob, JobType, PCs

\* A token issued: where it is, and the type of what it writes.
LEMMA IssueKeeps ==
  ASSUME IInv, NEW h \in Hash, NEW from \in Token \cup {None}, Issue(h, from, h)
  PROVE  /\ last' = last + 1 /\ last' \in Token /\ Issued' = Issued \cup {last'}
         /\ last' \notin Issued
         /\ tok' \in [Token -> [fp : Hash \cup {None}, from : Token \cup {None},
                                proof : Hash \cup {None}]]
         /\ tok'[last'] = [fp |-> h, from |-> from, proof |-> h]
         /\ \A t \in Issued : tok'[t] = tok[t]
<1>1. last' = last + 1 /\ last' \in Token /\ last' \notin Issued /\ Issued' = Issued \cup {last'}
  BY DEF IInv, TypeOK, Issue, Issued, Token
<1>2. tok' = [tok EXCEPT ![last'] = [fp |-> h, from |-> from, proof |-> h]]
  BY <1>1 DEF Issue
<1>3. tok' \in [Token -> [fp : Hash \cup {None}, from : Token \cup {None},
                          proof : Hash \cup {None}]]
  BY <1>2 DEF IInv, TypeOK
<1>4. \A t \in Issued : tok'[t] = tok[t]
  BY <1>1, <1>2, IssuedAreTokens DEF IInv, TypeOK
<1>5. tok'[last'] = [fp |-> h, from |-> from, proof |-> h]
  BY <1>1, <1>2 DEF IInv, TypeOK
<1> QED BY <1>1, <1>3, <1>4, <1>5

LEMMA OpenSessionKeeps ==
  ASSUME NEW r \in Req, IInv, OpenSession(r) PROVE IInv' /\ Onward
<1> DEFINE h == job[r].knew
<1>1. h \in 1..made /\ h \in Hash
  BY DEF OpenSession, IInv, TypeOK, JobsMakeSense, Sense, Hash
<1>2. Issue(h, None, h) /\ End(r) /\ UNCHANGED <<password, made, stale, late, flushed, closed>>
  BY DEF OpenSession
<1>3. /\ last' = last + 1 /\ last' \in Token /\ Issued' = Issued \cup {last'}
      /\ tok' \in [Token -> [fp : Hash \cup {None}, from : Token \cup {None},
                             proof : Hash \cup {None}]]
      /\ tok'[last'] = [fp |-> h, from |-> None, proof |-> h]
      /\ \A t \in Issued : tok'[t] = tok[t]
  BY <1>1, <1>2, IssueKeeps
<1>4. TypeOK'
  BY <1>2, <1>3, EndedType DEF IInv, TypeOK, Token
<1>5. Onward
  BY <1>2, <1>3 DEF IInv, TypeOK, Onward, Hash
<1>6. JobsMakeSense' /\ PasswordIsMade'
  BY <1>2, <1>3, <1>4, EndedSense DEF IInv, TypeOK, PasswordIsMade, Hash
<1>7. \A t \in Issued' \ Issued : NewToken(t)'
  BY <1>1, <1>2, <1>3 DEF NewToken
<1> QED BY <1>4, <1>5, <1>6, <1>7, WritesKeep

LEMMA RotateKeeps ==
  ASSUME NEW r \in Req, IInv, Rotate(r) PROVE IInv' /\ Onward
<1> DEFINE k == job[r].token
           h == tok[k].fp
<1>1. k \in Issued /\ k \in Token
  BY IssuedAreTokens DEF Rotate, IInv, JobsMakeSense, Sense
<1>2. h \in 1..made /\ h \in Hash /\ tok[k].proof = h
  BY <1>1 DEF IInv, TypeOK, Proven, Hash
<1>3. /\ Issue(h, k, h) /\ End(r) /\ closed' = closed \cup {k}
      /\ UNCHANGED <<password, made, stale, late, flushed>>
  BY <1>2 DEF Rotate
<1>4. /\ last' = last + 1 /\ last' \in Token /\ Issued' = Issued \cup {last'}
      /\ tok' \in [Token -> [fp : Hash \cup {None}, from : Token \cup {None},
                             proof : Hash \cup {None}]]
      /\ tok'[last'] = [fp |-> h, from |-> k, proof |-> h]
      /\ \A t \in Issued : tok'[t] = tok[t]
  BY <1>1, <1>2, <1>3, IssueKeeps
<1>5. TypeOK'
  BY <1>1, <1>3, <1>4, EndedType DEF IInv, TypeOK, Token
<1>6. Onward
  BY <1>3, <1>4 DEF IInv, TypeOK, Onward, Hash
<1>7. JobsMakeSense' /\ PasswordIsMade'
  BY <1>3, <1>4, <1>5, EndedSense DEF IInv, TypeOK, PasswordIsMade, Hash
<1>8. \A t \in Issued' \ Issued : NewToken(t)'
  BY <1>1, <1>2, <1>3, <1>4 DEF NewToken
<1> QED BY <1>5, <1>6, <1>7, <1>8, WritesKeep

LEMMA LeaveKeeps ==
  ASSUME NEW r \in Req, IInv, Leave(r) PROVE IInv' /\ Onward
<1>1. /\ job[r].token \in Issued /\ closed' = closed \cup {job[r].token} /\ End(r)
      /\ UNCHANGED <<password, made, tok, last, stale, late, flushed>>
  BY DEF Leave, IInv, JobsMakeSense, Sense
<1>2. TypeOK'
  BY <1>1, EndedType DEF IInv, TypeOK, Issued
<1>3. Onward
  BY <1>1 DEF IInv, TypeOK, Onward, Hash
<1>4. JobsMakeSense' /\ PasswordIsMade' /\ Issued' = Issued
  BY <1>1, EndedSense DEF IInv, TypeOK, PasswordIsMade, Hash, Issued
<1> QED BY <1>2, <1>3, <1>4, WritesKeep

LEMMA CommitPasswordKeeps ==
  ASSUME NEW r \in Req, IInv, CommitPassword(r) PROVE IInv' /\ Onward
<1>1. PICK h \in Hash :
        /\ NewHash(h)
        /\ IF job[r].op = "change" THEN Issue(h, None, h) ELSE UNCHANGED <<tok, last>>
  BY DEF CommitPassword
<1>2. /\ h = made + 1 /\ made' = h /\ password' = h /\ h \in 1..made' /\ made \in Nat
  BY <1>1 DEF NewHash, IInv, TypeOK, Hash
<1>3. /\ job[r].seen \subseteq Issued /\ closed' = closed \cup job[r].seen /\ End(r)
      /\ UNCHANGED <<stale, late, flushed>>
  BY DEF CommitPassword, IInv, JobsMakeSense, Sense
<1>4. /\ last' \in 0..MaxToken /\ last <= last' /\ Issued \subseteq Issued'
      /\ tok' \in [Token -> [fp : Hash \cup {None}, from : Token \cup {None},
                             proof : Hash \cup {None}]]
      /\ \A t \in Issued : tok'[t] = tok[t]
      /\ \A t \in Issued' \ Issued : tok'[t] = [fp |-> h, from |-> None, proof |-> h]
  <2>1. CASE job[r].op = "change"
    <3>1. /\ last' = last + 1 /\ last' \in Token /\ Issued' = Issued \cup {last'}
          /\ tok' \in [Token -> [fp : Hash \cup {None}, from : Token \cup {None},
                                 proof : Hash \cup {None}]]
          /\ tok'[last'] = [fp |-> h, from |-> None, proof |-> h]
          /\ \A t \in Issued : tok'[t] = tok[t]
      BY <1>1, <2>1, IssueKeeps
    <3>2. last' \in 0..MaxToken /\ last <= last'
      BY <3>1 DEF IInv, TypeOK, Token
    <3> QED BY <3>1, <3>2
  <2>2. CASE job[r].op # "change"
    BY <1>1, <2>2 DEF IInv, TypeOK, Issued
  <2> QED BY <2>1, <2>2
<1>5. TypeOK'
  BY <1>2, <1>3, <1>4, EndedType DEF IInv, TypeOK
<1>6. Onward
  BY <1>2, <1>3, <1>4 DEF IInv, TypeOK, Onward
<1>7. JobsMakeSense' /\ PasswordIsMade'
  BY <1>2, <1>3, <1>4, EndedSense DEF PasswordIsMade
<1>8. \A t \in Issued' \ Issued : NewToken(t)'
  BY <1>2, <1>4 DEF NewToken
<1> QED BY <1>5, <1>6, <1>7, <1>8, WritesKeep

LEMMA AdminPasswordKeeps ==
  ASSUME IInv, AdminPassword PROVE IInv' /\ Onward
<1>1. /\ made \in Nat /\ made' = made + 1 /\ made' \in Hash /\ password' = made'
      /\ UNCHANGED <<tok, last, stale, late, flushed, closed, pc, job, closing, userLock>>
  BY DEF AdminPassword, NewHash, IInv, TypeOK, Hash
<1>2. TypeOK' /\ PasswordIsMade'
  BY <1>1 DEF IInv, TypeOK, PasswordIsMade, Issued, Hash
<1>3. Onward
  BY <1>1 DEF IInv, TypeOK, Onward
<1>4. JobsMakeSense' /\ Issued' = Issued
  BY <1>1, StillSense DEF IInv, TypeOK, Issued
<1> QED BY <1>2, <1>3, <1>4, WritesKeep

LEMMA GoneKeeps ==
  ASSUME NEW r \in Req, IInv, Gone(r) PROVE IInv' /\ Onward
<1>1. /\ password' = None /\ End(r)
      /\ UNCHANGED <<made, tok, last, stale, late, flushed, closed>>
  BY DEF Gone
<1>2. TypeOK' /\ PasswordIsMade'
  BY <1>1, EndedType DEF IInv, TypeOK, PasswordIsMade, Issued
<1>3. Onward
  BY <1>1 DEF IInv, TypeOK, Onward, Hash
<1>4. JobsMakeSense' /\ Issued' = Issued
  BY <1>1, EndedSense DEF IInv, TypeOK, Issued, Hash
<1> QED BY <1>2, <1>3, <1>4, WritesKeep

LEMMA ExpireKeeps ==
  ASSUME IInv, Expire PROVE IInv' /\ Onward
<1>1. /\ stale <= stale' /\ late <= late' /\ stale' \in 0..last /\ late' \in 0..stale'
      /\ UNCHANGED <<password, made, tok, last, flushed, closed, pc, job, closing, userLock>>
  BY DEF Expire, Lifetimes, IInv, TypeOK
<1>2. TypeOK' /\ PasswordIsMade'
  BY <1>1 DEF IInv, TypeOK, PasswordIsMade, Issued
<1>3. Onward
  BY <1>1 DEF IInv, TypeOK, Onward, Hash
<1>4. JobsMakeSense' /\ Issued' = Issued
  BY <1>1, StillSense DEF IInv, TypeOK, Issued, Hash
<1> QED BY <1>2, <1>3, <1>4, WritesKeep

LEMMA FlushExpiredKeeps ==
  ASSUME IInv, FlushExpired PROVE IInv' /\ Onward
<1>1. /\ flushed' = late /\ closed' = {t \in closed : t > late}
      /\ UNCHANGED <<password, made, tok, last, stale, late, pc, job, closing, userLock>>
  BY DEF FlushExpired
<1>2. TypeOK' /\ PasswordIsMade'
  <2>1. flushed' \in 0..late'
    BY <1>1 DEF IInv, TypeOK
  <2>2. closed' \subseteq closed /\ Issued' = Issued
    BY <1>1 DEF Issued
  <2>3. closed' \subseteq Issued'
    BY <2>2 DEF IInv, TypeOK
  <2> QED BY <1>1, <2>1, <2>3 DEF IInv, TypeOK, PasswordIsMade, Issued
<1>3. Onward
  BY <1>1 DEF IInv, TypeOK, Onward, Hash
<1>4. JobsMakeSense' /\ Issued' = Issued
  BY <1>1, StillSense DEF IInv, TypeOK, Issued, Hash
<1> QED BY <1>2, <1>3, <1>4, WritesKeep

-----------------------------------------------------------------------------
LEMMA NextKeeps == IInv /\ [Next]_vars => IInv' /\ (Onward \/ UNCHANGED vars)
<1> SUFFICES ASSUME IInv, [Next]_vars PROVE IInv' /\ (Onward \/ UNCHANGED vars)
  OBVIOUS
<1>1. ASSUME NEW r \in Req,
             \/ SignIn(r) \/ OpenSession(r) \/ Validate(r) \/ CloseToken(r) \/ Rotate(r)
             \/ Leave(r) \/ ResetPassword(r) \/ AdminDelete(r) \/ SavePassword(r) \/ ListSessions(r)
             \/ ShutSessions(r) \/ CommitPassword(r) \/ Erase(r) \/ Gone(r) \/ Fail(r)
      PROVE  IInv' /\ Onward
  BY <1>1, SignInKeeps, OpenSessionKeeps, ValidateKeeps, CloseTokenKeeps, RotateKeeps,
     LeaveKeeps, ResetPasswordKeeps, AdminDeleteKeeps, SavePasswordKeeps, ListSessionsKeeps,
     ShutSessionsKeeps, CommitPasswordKeeps, EraseKeeps, GoneKeeps, FailKeeps
<1>2. ASSUME NEW r \in Req, NEW t \in Issued,
             Refresh(r, t) \/ Logout(r, t) \/ ChangePassword(r, t) \/ DeleteAccount(r, t)
      PROVE  IInv' /\ Onward
  BY <1>2, RefreshKeeps, LogoutKeeps, ChangePasswordKeeps, DeleteAccountKeeps
<1>3. ASSUME AdminPassword \/ Expire \/ FlushExpired PROVE IInv' /\ Onward
  BY <1>3, AdminPasswordKeeps, ExpireKeeps, FlushExpiredKeeps
<1>4. CASE UNCHANGED vars
  BY <1>4 DEF vars, IInv, TypeOK, Proven, Descends, PasswordIsMade, JobsMakeSense, Sense,
              UsedIsClosed, Valid, Issued
<1> QED BY <1>1, <1>2, <1>3, <1>4 DEF Next

\* The invariant: tokens carry the fingerprint of the sign-in they come from,
\* and what each request knows is of tokens and passwords there have been.
THEOREM Invariance == Spec => []IInv
BY InitIInv, NextKeeps, PTL DEF Spec

\* Rows and requests have their shape, for any number of them.
THEOREM SessionsTypeOK == Spec => []TypeOK
<1>1. IInv => TypeOK
  BY DEF IInv
<1> QED BY <1>1, Invariance, PTL

\* Only sessions of today's password open anything, however many requests
\* renew them while it changes.
THEOREM SessionsKnowThePassword == Spec => []KnowsThePassword
<1>1. IInv => KnowsThePassword
  BY DEF IInv, Proven, KnowsThePassword, AccessOpens, RefreshOpens
<1> QED BY <1>1, Invariance, PTL

\* A token that was renewed renews nothing else.
THEOREM UsedTokensAreClosed == Spec => []UsedIsClosed
<1>1. IInv => UsedIsClosed
  BY DEF IInv
<1> QED BY <1>1, Invariance, PTL

\* A session that was refused is refused for good.
THEOREM RefusedSessionsStayOut == Spec => RefusedForGood
<1> DEFINE Stay == \A t \in Issued : /\ ~ AccessOpens(t) => ~ AccessOpens(t)'
                                     /\ ~ RefreshOpens(t) => ~ RefreshOpens(t)'
<1>1. ASSUME IInv, Onward, IInv' PROVE Stay
  <2> SUFFICES ASSUME NEW t \in Issued
               PROVE  /\ ~ AccessOpens(t) => ~ AccessOpens(t)'
                      /\ ~ RefreshOpens(t) => ~ RefreshOpens(t)'
    OBVIOUS
  <2>1. /\ t \in Nat /\ stale \in Nat /\ stale' \in Nat /\ late \in Nat /\ late' \in Nat
        /\ stale <= stale' /\ late <= late'
    BY <1>1 DEF IInv, TypeOK, Onward, Issued
  <2>2. (t > stale' => t > stale) /\ (t > late' => t > late)
    BY <2>1
  <2>3. tok'[t].fp = tok[t].fp /\ tok[t].fp \in 1..made /\ made \in Nat
    BY <1>1 DEF IInv, TypeOK, Onward, Proven, Hash
  <2>4. password' # None /\ tok'[t].fp = password' => password = password'
    <3> SUFFICES ASSUME password' # None, tok'[t].fp = password' PROVE password = password'
      OBVIOUS
    <3>1. ~ (password' > made)
      BY <2>3
    <3> QED BY <1>1, <3>1 DEF Onward
  <2>5. t \in closed /\ t > late' => t \in closed'
    BY <1>1 DEF Onward
  <2> QED BY <2>2, <2>3, <2>4, <2>5 DEF AccessOpens, RefreshOpens, Valid
<1>2. ASSUME UNCHANGED vars PROVE Stay
  BY <1>2 DEF vars, AccessOpens, RefreshOpens, Valid
<1>3. IInv /\ [Next]_vars => [Stay]_vars
  BY <1>1, <1>2, NextKeeps
<1> QED BY <1>3, Invariance, PTL DEF Spec, RefusedForGood

=============================================================================
