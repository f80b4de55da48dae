----------------------------- MODULE EmailCodes -----------------------------
(***************************************************************************)
(* apps/accounts: the one-time codes of an account and what they open: its *)
(* verification, a new password, a new e-mail address.                     *)
(*                                                                         *)
(* Each request is one transaction at READ COMMITTED, over the account as  *)
(* the authentication read it, unlocked.  An update locks the rows its     *)
(* snapshot saw, waits for those that others hold and skips those that     *)
(* changed meanwhile; what is written shows at the commit.  A code that    *)
(* is being checked is locked.  `Fail' is every error a service ends with  *)
(* (an address that is another account's, a weak password, the wait of     *)
(* otp_quota among them), and a process that stops anywhere.               *)
(*                                                                         *)
(* Codes are numbered as they are created; all live equally long, so they  *)
(* expire in that order.  Left out: the password itself, the sessions it   *)
(* ends, and the universal code of the test environments.                  *)
(***************************************************************************)
EXTENDS Naturals, FiniteSets

CONSTANTS
  Req,         \* requests that may be under way at once
  Email,       \* addresses the account may have
  MaxCode,     \* bound: codes issued
  MaxAttempts, \* OTP_MAX_ATTEMPTS
  None

ASSUME EmailCodesAssumption ==
  /\ MaxCode \in Nat \ {0} /\ MaxAttempts \in Nat \ {0}
  /\ None \notin Req \cup Email \cup Nat

Code == 1..MaxCode
Purposes == {"signup", "password_reset", "email_change"}

VARIABLES
  user,     \* the account: e-mail, the one to be confirmed, is it verified
  code,     \* the codes, and the address each was sent to
  last,     \* how many codes have been created
  late,     \* codes up to this one are past their time
  pc, job,  \* each request: where it is, and what it knows
  codeLock, \* who holds the row of each code
  userLock  \* who holds the account's row

vars == <<user, code, last, late, pc, job, codeLock, userLock>>

NoCode == [st |-> "new", purpose |-> "none", to |-> None, attempts |-> 0]
NoJob == [op |-> "none", purpose |-> "none", to |-> None, seen |-> {}, code |-> None]

\* An account just registered, with the code it was sent, or one that came in
\* by an invitation, verified.
Init ==
  /\ \E e \in Email, verified \in BOOLEAN :
       /\ user = [email |-> e, pending |-> None, verified |-> verified]
       /\ last = IF verified THEN 0 ELSE 1
       /\ code = [c \in Code |-> IF c <= last
                    THEN [st |-> "live", purpose |-> "signup", to |-> e, attempts |-> 0]
                    ELSE NoCode]
  /\ late = 0
  /\ pc = [r \in Req |-> "idle"]
  /\ job = [r \in Req |-> NoJob]
  /\ codeLock = [c \in Code |-> None]
  /\ userLock = None

-----------------------------------------------------------------------------
\* The codes of a purpose that are not used, of those committed.
Live(p) == {c \in Code : code[c].st = "live" /\ code[c].purpose = p}

\* Of the codes a statement saw, those still not used.
StillLive(r) == {c \in job[r].seen : code[c].st = "live"}

Latest(s) == {c \in s : \A d \in s : d <= c}

\* Free, as it would be if a code were read without select_for_update.
FreeForAll(c) == TRUE

\* select_for_update, and every update: a row someone holds is waited for.
Free(c) == codeLock[c] = None

\* Requests that create a code; bound: a number is left for each under way.
Issuing == {"request", "resend", "send"}
CodesLeft == last + Cardinality({r \in Req : job[r].op \in Issuing}) < MaxCode

\* A request comes in, about an address.
Start(r, op, p, to) ==
  /\ pc[r] = "idle"
  /\ op \in Issuing => CodesLeft
  /\ job' = [job EXCEPT ![r] = [NoJob EXCEPT !.op = op, !.purpose = p, !.to = to]]

\* End, as it would be if a request kept what it holds.
EndHolding(r) ==
  /\ pc' = [pc EXCEPT ![r] = "idle"]
  /\ job' = [job EXCEPT ![r] = NoJob]
  /\ UNCHANGED <<codeLock, userLock>>

\* The end of a transaction, and what it holds.
End(r) ==
  /\ pc' = [pc EXCEPT ![r] = "idle"]
  /\ job' = [job EXCEPT ![r] = NoJob]
  /\ codeLock' = [c \in Code |-> IF codeLock[c] = r THEN None ELSE codeLock[c]]
  /\ userLock' = IF userLock = r THEN None ELSE userLock

Goto(r, label) == pc' = [pc EXCEPT ![r] = label]

\* An error, or a process that dies: a code created by it never was, although
\* its e-mail may have gone out.
Fail(r) ==
  /\ pc[r] # "idle"
  /\ code' = [c \in Code |-> IF code[c].st = "draft" /\ job[r].code = c
                             THEN [code[c] EXCEPT !.st = "undone"] ELSE code[c]]
  /\ End(r)
  /\ UNCHANGED <<user, last, late>>

-----------------------------------------------------------------------------
(* The codes that are sent. *)

\* request_email_change: of a verified account, for another address.
RequestEmailChange(r, e) ==
  /\ user.verified /\ e # user.email
  /\ Start(r, "request", "email_change", e)
  /\ Goto(r, "save")
  /\ UNCHANGED <<user, code, last, late, codeLock, userLock>>

\* Its save of pending_email: the row is the request's till it commits.
SavePending(r) ==
  /\ pc[r] = "save"
  /\ userLock = None
  /\ userLock' = r
  /\ Goto(r, "void")
  /\ UNCHANGED <<user, code, last, late, job, codeLock>>

\* resend_email_change, to the address that was pending when it came in.
ResendEmailChange(r) ==
  /\ user.verified /\ user.pending # None
  /\ Start(r, "resend", "email_change", user.pending)
  /\ Goto(r, "void")
  /\ UNCHANGED <<user, code, last, late, codeLock, userLock>>

\* resend_otp and login_user, for who is not verified; start_password_reset.
SendCode(r, p) ==
  /\ p = "password_reset" \/ (p = "signup" /\ ~user.verified)
  /\ Start(r, "send", p, user.email)
  /\ Goto(r, "void")
  /\ UNCHANGED <<user, code, last, late, codeLock, userLock>>

\* cancel_email_change, as it would be on the account as it came.
CancelUnlocked(r) ==
  /\ user.verified
  /\ Start(r, "cancel", "email_change", user.pending)
  /\ Goto(r, "void")
  /\ UNCHANGED <<user, code, last, late, codeLock, userLock>>

\* cancel_email_change: the account locked and read again.
CancelEmailChange(r) ==
  /\ user.verified
  /\ userLock = None
  /\ userLock' = r
  /\ Start(r, "cancel", "email_change", user.pending)
  /\ Goto(r, "void")
  /\ UNCHANGED <<user, code, last, late, codeLock>>

\* issue_otp: the update that voids the codes there are sees them, ...
Void(r) ==
  /\ pc[r] = "void"
  /\ job' = [job EXCEPT ![r].seen = Live(job[r].purpose)]
  /\ Goto(r, IF job[r].op = "cancel" THEN "clear" ELSE "issue")
  /\ UNCHANGED <<user, code, last, late, codeLock, userLock>>

HoldSeen(r) ==
  /\ \A c \in job[r].seen : Free(c)
  /\ codeLock' = [c \in Code |-> IF c \in StillLive(r) THEN r ELSE codeLock[c]]

\* ... waits for those others hold, and the new code is created and sent.
Issue(r) ==
  /\ pc[r] = "issue"
  /\ last < MaxCode
  /\ HoldSeen(r)
  /\ last' = last + 1
  /\ code' = [code EXCEPT ![last + 1] = [st |-> "draft", purpose |-> job[r].purpose,
                                         to |-> job[r].to, attempts |-> 0]]
  /\ job' = [job EXCEPT ![r].code = last + 1]
  /\ Goto(r, "commit")
  /\ UNCHANGED <<user, late, userLock>>

Voided(r) == [c \in Code |-> IF c \in StillLive(r) THEN [code[c] EXCEPT !.st = "used"]
                             ELSE code[c]]

\* The commit: the old codes are void, the new one lives, and the new address
\* is the one that waits.
Commit(r) ==
  /\ pc[r] = "commit"
  /\ code' = [Voided(r) EXCEPT ![job[r].code].st = "live"]
  /\ user' = IF job[r].op = "request" THEN [user EXCEPT !.pending = job[r].to] ELSE user
  /\ End(r)
  /\ UNCHANGED <<last, late>>

\* cancel_email_change: the codes are void and nothing waits.
Clear(r) ==
  /\ pc[r] = "clear"
  /\ \A c \in job[r].seen : Free(c)
  /\ code' = Voided(r)
  /\ user' = IF job[r].to # None THEN [user EXCEPT !.pending = None] ELSE user
  /\ End(r)
  /\ UNCHANGED <<last, late>>

-----------------------------------------------------------------------------
(* The codes that are answered. *)

\* verify_account, reset_password, confirm_email_change.
Answer(r, p) ==
  /\ p = "signup" => ~user.verified
  /\ p = "email_change" => user.verified /\ user.pending # None
  /\ Start(r, "answer", p, IF p = "email_change" THEN user.pending ELSE None)
  /\ Goto(r, "look")
  /\ UNCHANGED <<user, code, last, late, codeLock, userLock>>

\* _live_code: what its query sees, ...
Look(r) ==
  /\ pc[r] = "look"
  /\ job' = [job EXCEPT ![r].seen = {c \in Live(job[r].purpose) : c > late}]
  /\ Goto(r, "check")
  /\ UNCHANGED <<user, code, last, late, codeLock, userLock>>

\* check_otp: a failed attempt counts, and the last one voids the code.
Missed(c) ==
  LET n == code[c].attempts + 1 IN
  [code EXCEPT ![c].attempts = n, ![c].st = IF n >= MaxAttempts THEN "used" ELSE @]

\* ... and the last of them that is still live, waited for: none, the one that
\* was typed, or another.
NoLiveCode(r) ==
  /\ pc[r] = "check"
  /\ StillLive(r) = {}
  /\ End(r)
  /\ UNCHANGED <<user, code, last, late>>

Match(r) ==
  /\ pc[r] = "check"
  /\ \E c \in Latest(StillLive(r)) :
       /\ Free(c)
       /\ code[c].attempts < MaxAttempts
       /\ codeLock' = [codeLock EXCEPT ![c] = r]
       /\ job' = [job EXCEPT ![r].code = c]
  /\ Goto(r, "open")
  /\ UNCHANGED <<user, code, last, late, userLock>>

Miss(r) ==
  /\ pc[r] = "check"
  /\ \E c \in Latest(StillLive(r)) :
       /\ Free(c)
       /\ code' = IF code[c].attempts < MaxAttempts THEN Missed(c) ELSE code
  /\ End(r)
  /\ UNCHANGED <<user, last, late>>

\* What the code opens: the account's row is saved, and the transaction ends.
Open(r) ==
  /\ pc[r] = "open"
  /\ userLock = None
  /\ code' = [code EXCEPT ![job[r].code].st = "used"]
  /\ user' = IF job[r].purpose = "email_change"
             THEN [email |-> job[r].to, pending |-> None, verified |-> TRUE]
             ELSE [user EXCEPT !.verified = TRUE]
  /\ End(r)
  /\ UNCHANGED <<last, late>>

\* OTP_TTL_MINUTES go by.
Expire ==
  /\ late < last
  /\ late' = late + 1
  /\ UNCHANGED <<user, code, last, pc, job, codeLock, userLock>>

-----------------------------------------------------------------------------
(* Waits.  PostgreSQL ends one of two requests that wait for each other. *)

WantsCode(r, c) ==
  \/ pc[r] \in {"issue", "clear"} /\ c \in job[r].seen
  \/ pc[r] = "check" /\ c \in Latest(StillLive(r))

WaitsFor(r, o) ==
  \/ pc[r] \in {"save", "open"} /\ userLock = o
  \/ \E c \in Code : WantsCode(r, c) /\ codeLock[c] = o

Deadlock(r) ==
  /\ \E o \in Req : WaitsFor(r, o) /\ WaitsFor(o, r)
  /\ Fail(r)

Proceed(r) ==
  \/ SavePending(r) \/ Void(r) \/ Issue(r) \/ Commit(r) \/ Clear(r)
  \/ Look(r) \/ NoLiveCode(r) \/ Match(r) \/ Miss(r) \/ Open(r)

Next ==
  \/ \E r \in Req :
       \/ \E e \in Email : RequestEmailChange(r, e)
       \/ \E p \in Purposes : SendCode(r, p) \/ Answer(r, p)
       \/ ResendEmailChange(r) \/ CancelEmailChange(r)
       \/ Proceed(r) \/ Fail(r)
  \/ Expire

Spec == Init /\ [][Next]_vars

\* A request goes on while nothing stops it, whoever waits for a row gets it in
\* turn, and a deadlock does not last.
Fairness == \A r \in Req : SF_vars(Proceed(r)) /\ WF_vars(Deadlock(r))

FairSpec == Spec /\ Fairness

-----------------------------------------------------------------------------
(* Properties. *)

CodeType ==
  [st : {"new", "draft", "live", "used", "undone"}, purpose : Purposes \cup {"none"},
   to : Email \cup {None}, attempts : 0..MaxAttempts]

JobType ==
  [op : Issuing \cup {"none", "cancel", "answer"}, purpose : Purposes \cup {"none"},
   to : Email \cup {None}, seen : SUBSET Code, code : Code \cup {None}]

PCs == {"idle", "save", "void", "issue", "commit", "clear", "look", "check", "open"}

\* Rows and requests have their shape; no code counts more attempts than it has.
TypeOK ==
  /\ user \in [email : Email, pending : Email \cup {None}, verified : BOOLEAN]
  /\ code \in [Code -> CodeType]
  /\ last \in 0..MaxCode /\ late \in 0..MaxCode
  /\ pc \in [Req -> PCs]
  /\ job \in [Req -> JobType]
  /\ codeLock \in [Code -> Req \cup {None}]
  /\ userLock \in Req \cup {None}

\* A code opens once: the one a request is about to open with is live, has
\* attempts left, and no other request opens with it ("Dos verificaciones a la
\* vez se forman en la fila", _live_code).
OpensOnce ==
  \A r \in Req : pc[r] = "open" =>
    /\ code[job[r].code].st = "live"
    /\ code[job[r].code].attempts < MaxAttempts
    /\ \A o \in Req \ {r} : pc[o] = "open" => job[o].code # job[r].code

\* A code with no attempts left opens nothing, ever ("muere aunque después
\* llegue el correcto", check_otp).
SpentIsDead == \A c \in Code : code[c].attempts = MaxAttempts => code[c].st = "used"

\* The codes sent for a change of address.
Sent == {c \in Code : code[c].st \in {"live", "used"} /\ code[c].purpose = "email_change"}

\* A new address that waits has its code: the last one sent is live, unless
\* its attempts ran out.  Never "pendiente con su código ya anulado"
\* (cancel_email_change).
PendingHasItsCode ==
  user.pending # None =>
    /\ Sent # {}
    /\ \A d \in Sent : \E c \in Sent :
         c >= d /\ (code[c].st = "live" \/ code[c].attempts = MaxAttempts)

\* Every request ends, also when one locks a code and then the account and
\* another the account and then its codes (confirm_email_change, request_ and
\* cancel_email_change).
EveryRequestEnds == \A r \in Req : pc[r] # "idle" ~> pc[r] = "idle"

\* "El correo nuevo queda verificado -el código lo prueba-"
\* (confirm_email_change): the account takes an address with a code that was
\* sent to it.
EmailChangeIsProved ==
  [][user'.email # user.email =>
       \E c \in Code : /\ code[c].st = "live" /\ code'[c].st = "used"
                       /\ code[c].purpose = "email_change"
                       /\ code[c].to = user'.email]_vars

=============================================================================
