------------------------------ MODULE Sessions ------------------------------
(***************************************************************************)
(* apps/accounts: the sessions of an account, which are its refresh tokens *)
(* and the access each came with, in cookies.                              *)
(*                                                                         *)
(* Each request is one transaction at READ COMMITTED.  A refresh token is  *)
(* a row of token_blacklist; blacklisting it inserts another, under a      *)
(* unique index, so two requests that close one token wait for each other  *)
(* and the second finds it closed.  A token carries the fingerprint of the *)
(* account's password; a password is stored as a salted hash, so no two    *)
(* have one fingerprint, whoever sets them: hashes are numbered as they    *)
(* are stored.  `Fail' is every error, and a process that stops anywhere.  *)
(*                                                                         *)
(* Tokens are numbered as they are committed and live equally long, so     *)
(* they expire in that order, their accesses sooner.  Left out: what the   *)
(* codes open (EmailCodes), the rows and files that go with an account,    *)
(* and accounts that are deactivated and rows edited from the admin.       *)
(***************************************************************************)
EXTENDS Naturals

CONSTANTS
  Req,         \* requests that may be under way at once
  MaxToken,    \* bound: refresh tokens issued
  MaxPassword, \* bound: passwords set, with the one the account begins with
  None

ASSUME SessionsAssumption ==
  /\ MaxToken \in Nat \ {0} /\ MaxPassword \in Nat \ {0}
  /\ None \notin Req \cup Nat

Token == 1..MaxToken
Hash == 1..MaxPassword

VARIABLES
  password, \* the hash of the account's password; None once it is deleted
  made,     \* how many passwords have been set
  tok,      \* the tokens: fingerprint, the token each replaced, and the hash
            \* its first sign-in was checked with
  last,     \* how many tokens have been issued
  stale,    \* the accesses of tokens up to this one are past their time
  late,     \* tokens up to this one are past theirs
  flushed,  \* and those up to this one have been deleted
  closed,   \* the blacklist
  pc, job,  \* each request: where it is, and what it knows
  closing,  \* who is inserting each token in the blacklist
  userLock  \* who holds the account's row

vars == <<password, made, tok, last, stale, late, flushed, closed, pc, job, closing, userLock>>

NoToken == [fp |-> None, from |-> None, proof |-> None]
NoJob == [op |-> "none", token |-> None, knew |-> None, seen |-> {}]

Init ==
  /\ password = 1 /\ made = 1
  /\ tok = [t \in Token |-> NoToken]
  /\ last = 0 /\ stale = 0 /\ late = 0 /\ flushed = 0
  /\ closed = {}
  /\ pc = [r \in Req |-> "idle"]
  /\ job = [r \in Req |-> NoJob]
  /\ closing = [t \in Token |-> None]
  /\ userLock = None

-----------------------------------------------------------------------------
Issued == 1..last

\* RefreshToken(raw): it has not expired and is not in the blacklist.
Valid(t) == t > late /\ t \notin closed

\* CookieJWTAuthentication, with CHECK_REVOKE_TOKEN.
AccessOpens(t) == t > stale /\ password # None /\ tok[t].fp = password

\* What SessionRefreshSerializer takes.
RefreshOpens(t) == Valid(t) /\ password # None /\ tok[t].fp = password

Start(r, op, t, knew) ==
  /\ pc[r] = "idle"
  /\ job' = [job EXCEPT ![r] = [NoJob EXCEPT !.op = op, !.token = t, !.knew = knew]]

Goto(r, label) == pc' = [pc EXCEPT ![r] = label]

\* The end of a transaction, and what it holds.
End(r) ==
  /\ pc' = [pc EXCEPT ![r] = "idle"]
  /\ job' = [job EXCEPT ![r] = NoJob]
  /\ closing' = [t \in Token |-> IF closing[t] = r THEN None ELSE closing[t]]
  /\ userLock' = IF userLock = r THEN None ELSE userLock

\* A token is issued as its request commits.
Issue(fp, from, proof) ==
  /\ last < MaxToken
  /\ last' = last + 1
  /\ tok' = [tok EXCEPT ![last + 1] = [fp |-> fp, from |-> from, proof |-> proof]]

Fail(r) ==
  /\ pc[r] # "idle"
  /\ End(r)
  /\ UNCHANGED <<password, made, tok, last, stale, late, flushed, closed>>

-----------------------------------------------------------------------------
(* A session is opened, renewed and closed. *)

\* login_user, verify_account, of an account verified by then: the account is
\* read and the credential checked.
SignIn(r) ==
  /\ password # None
  /\ Start(r, "sign_in", None, password)
  /\ Goto(r, "open")
  /\ UNCHANGED <<password, made, tok, last, stale, late, flushed, closed, closing, userLock>>

\* start_session, with the fingerprint of the account that was read.
OpenSession(r) ==
  /\ pc[r] = "open"
  /\ password # None
  /\ Issue(job[r].knew, None, job[r].knew)
  /\ End(r)
  /\ UNCHANGED <<password, made, stale, late, flushed, closed>>

\* SessionRefreshSerializer: the token, then the account and its fingerprint;
Refresh(r, t) ==
  /\ RefreshOpens(t)
  /\ Start(r, "refresh", t, None)
  /\ Goto(r, "validate")
  /\ UNCHANGED <<password, made, tok, last, stale, late, flushed, closed, closing, userLock>>

\* and simplejwt's own validate, which looks for the token and the account again.
Validate(r) ==
  /\ pc[r] = "validate"
  /\ Valid(job[r].token) /\ password # None
  /\ Goto(r, "close")
  /\ UNCHANGED <<password, made, tok, last, stale, late, flushed, closed, job, closing, userLock>>

\* LogoutView, with a token that is still valid.
Logout(r, t) ==
  /\ Valid(t)
  /\ Start(r, "logout", t, None)
  /\ Goto(r, "close")
  /\ UNCHANGED <<password, made, tok, last, stale, late, flushed, closed, closing, userLock>>

\* blacklist(): a get_or_create, that waits for another of the same token.
CloseToken(r) ==
  /\ pc[r] = "close"
  /\ closing[job[r].token] = None
  /\ closing' = IF job[r].token \in closed THEN closing
                ELSE [closing EXCEPT ![job[r].token] = r]
  /\ Goto(r, "closed")
  /\ UNCHANGED <<password, made, tok, last, stale, late, flushed, closed, job, userLock>>

\* Rotate, as it would be if the new token were made for the account as it is.
RotateForUser(r) ==
  /\ pc[r] = "closed" /\ job[r].op = "refresh"
  /\ password # None
  /\ Issue(password, job[r].token, tok[job[r].token].proof)
  /\ closed' = closed \cup {job[r].token}
  /\ End(r)
  /\ UNCHANGED <<password, made, stale, late, flushed>>

\* ROTATE_REFRESH_TOKENS: the new token is the old one with another id and
\* date, and the same fingerprint.
Rotate(r) ==
  /\ pc[r] = "closed" /\ job[r].op = "refresh"
  /\ Issue(tok[job[r].token].fp, job[r].token, tok[job[r].token].proof)
  /\ closed' = closed \cup {job[r].token}
  /\ End(r)
  /\ UNCHANGED <<password, made, stale, late, flushed>>

Leave(r) ==
  /\ pc[r] = "closed" /\ job[r].op = "logout"
  /\ closed' = closed \cup {job[r].token}
  /\ End(r)
  /\ UNCHANGED <<password, made, tok, last, stale, late, flushed>>

-----------------------------------------------------------------------------
(* The password, and the end of the account. *)

\* change_password, for a session whose access opens.
ChangePassword(r, t) ==
  /\ AccessOpens(t)
  /\ Start(r, "change", None, password)
  /\ Goto(r, "save")
  /\ UNCHANGED <<password, made, tok, last, stale, late, flushed, closed, closing, userLock>>

\* reset_password, for who has the code.
ResetPassword(r) ==
  /\ password # None
  /\ Start(r, "reset", None, None)
  /\ Goto(r, "save")
  /\ UNCHANGED <<password, made, tok, last, stale, late, flushed, closed, closing, userLock>>

\* user.save: the row is the request's till it commits.
SavePassword(r) ==
  /\ pc[r] = "save"
  /\ userLock = None /\ password # None
  /\ userLock' = r
  /\ Goto(r, "list")
  /\ UNCHANGED <<password, made, tok, last, stale, late, flushed, closed, job, closing>>

\* end_all_sessions: it lists the tokens that are not closed, ...
ListSessions(r) ==
  /\ pc[r] = "list"
  /\ job' = [job EXCEPT ![r].seen = {t \in Issued : t > flushed /\ t \notin closed}]
  /\ Goto(r, "shut")
  /\ UNCHANGED <<password, made, tok, last, stale, late, flushed, closed, closing, userLock>>

\* ... and inserts them all, waiting for those that others are closing.
ShutSessions(r) ==
  /\ pc[r] = "shut"
  /\ \A t \in job[r].seen : closing[t] = None
  /\ closing' = [t \in Token |-> IF t \in job[r].seen \ closed THEN r ELSE closing[t]]
  /\ Goto(r, "commit")
  /\ UNCHANGED <<password, made, tok, last, stale, late, flushed, closed, job, userLock>>

\* set_password, as it would be with a hash that has no salt: a password that
\* was used before has the fingerprint it had.
UnsaltedHash(h) ==
  /\ h \in 1..(made + 1) /\ h # password /\ h <= MaxPassword
  /\ password' = h
  /\ made' = IF h > made THEN h ELSE made

\* set_password: a hash like no other.
NewHash(h) ==
  /\ made < MaxPassword
  /\ h = made + 1
  /\ password' = h
  /\ made' = h

\* The commit; who changed it goes on with a session of the new password.
CommitPassword(r) ==
  /\ pc[r] = "commit"
  /\ \A t \in job[r].seen : t > flushed
  /\ \E h \in Hash :
       /\ NewHash(h)
       /\ IF job[r].op = "change" THEN Issue(h, None, h) ELSE UNCHANGED <<tok, last>>
  /\ closed' = closed \cup job[r].seen
  /\ End(r)
  /\ UNCHANGED <<stale, late, flushed>>

\* A password set from the admin: no session is closed.
AdminPassword ==
  /\ userLock = None /\ password # None
  /\ \E h \in Hash : NewHash(h)
  /\ UNCHANGED <<tok, last, stale, late, flushed, closed, pc, job, closing, userLock>>

\* delete_account, for a session whose access opens.
DeleteAccount(r, t) ==
  /\ AccessOpens(t)
  /\ Start(r, "delete", None, password)
  /\ Goto(r, "erase")
  /\ UNCHANGED <<password, made, tok, last, stale, late, flushed, closed, closing, userLock>>

\* UserAdmin.delete_model.
AdminDelete(r) ==
  /\ password # None
  /\ Start(r, "delete", None, None)
  /\ Goto(r, "erase")
  /\ UNCHANGED <<password, made, tok, last, stale, late, flushed, closed, closing, userLock>>

\* purge_account: the tokens there are are left without their account, ...
Erase(r) ==
  /\ pc[r] = "erase"
  /\ job' = [job EXCEPT ![r].seen = Issued]
  /\ Goto(r, "gone")
  /\ UNCHANGED <<password, made, tok, last, stale, late, flushed, closed, closing, userLock>>

\* ... and it goes, unless another was issued to it meanwhile.
Gone(r) ==
  /\ pc[r] = "gone"
  /\ userLock = None
  /\ Issued \subseteq job[r].seen
  /\ password' = None
  /\ End(r)
  /\ UNCHANGED <<made, tok, last, stale, late, flushed, closed>>

-----------------------------------------------------------------------------
(* Time. *)

\* ACCESS_TOKEN_LIFETIME, then REFRESH_TOKEN_LIFETIME.
Lifetimes ==
  \/ stale < last /\ stale' = stale + 1 /\ UNCHANGED late
  \/ late < stale /\ late' = late + 1 /\ UNCHANGED stale

Expire ==
  /\ Lifetimes
  /\ UNCHANGED <<password, made, tok, last, flushed, closed, pc, job, closing, userLock>>

\* flush_expired_sessions.
FlushExpired ==
  /\ flushed < late
  /\ flushed' = late
  /\ closed' = {t \in closed : t > late}
  /\ UNCHANGED <<password, made, tok, last, stale, late, pc, job, closing, userLock>>

Next ==
  \/ \E r \in Req :
       \/ SignIn(r) \/ OpenSession(r)
       \/ \E t \in Issued : Refresh(r, t) \/ Logout(r, t)
       \/ Validate(r) \/ CloseToken(r) \/ Rotate(r) \/ Leave(r)
       \/ \E t \in Issued : ChangePassword(r, t) \/ DeleteAccount(r, t)
       \/ ResetPassword(r) \/ SavePassword(r) \/ ListSessions(r) \/ ShutSessions(r)
       \/ CommitPassword(r) \/ AdminDelete(r) \/ Erase(r) \/ Gone(r)
       \/ Fail(r)
  \/ AdminPassword \/ Expire \/ FlushExpired

Spec == Init /\ [][Next]_vars

-----------------------------------------------------------------------------
(* Properties. *)

JobType ==
  [op : {"none", "sign_in", "refresh", "logout", "change", "reset", "delete"},
   token : Token \cup {None}, knew : Hash \cup {None}, seen : SUBSET Token]

PCs == {"idle", "open", "validate", "close", "closed", "save", "list", "shut",
        "commit", "erase", "gone"}

\* Rows and requests have their shape, and no access outlives its session
\* (settings.SIMPLE_JWT).
TypeOK ==
  /\ password \in Hash \cup {None} /\ made \in Hash
  /\ tok \in [Token -> [fp : Hash \cup {None}, from : Token \cup {None},
                        proof : Hash \cup {None}]]
  /\ last \in 0..MaxToken /\ stale \in 0..last /\ late \in 0..stale /\ flushed \in 0..late
  /\ closed \subseteq Issued
  /\ pc \in [Req -> PCs]
  /\ job \in [Req -> JobType]
  /\ closing \in [Token -> Req \cup {None}]
  /\ userLock \in Req \cup {None}

\* A session that opens something, or renews itself, comes from a sign-in with
\* the password of today, however it was renewed meanwhile ("cambiarla deja
\* fuera a toda sesión de antes, también su access", settings.SIMPLE_JWT).
KnowsThePassword ==
  \A t \in Issued : AccessOpens(t) \/ RefreshOpens(t) => tok[t].proof = password

\* A token that was renewed renews nothing else ("el usado queda en la lista
\* negra", SessionRefreshView), also after the daily flush.
UsedIsClosed == \A t \in Issued : tok[t].from # None => ~ Valid(tok[t].from)

\* A session that was ever refused is refused for good: no change of password,
\* flush, or deletion brings it back.
RefusedForGood ==
  [][\A t \in Issued : /\ ~ AccessOpens(t) => ~ AccessOpens(t)'
                       /\ ~ RefreshOpens(t) => ~ RefreshOpens(t)']_vars

\* "Cambiar la contraseña sabiendo la de ahora" (change_password): it is
\* changed from the password its request was checked with.
ChangedKnowing ==
  [][\A r \in Req : pc[r] = "commit" /\ job[r].op = "change" /\ password' # password =>
       job[r].knew = password]_vars

=============================================================================
