----------------------------- MODULE Invitations -----------------------------
(***************************************************************************)
(* apps/team: the invitations of a company and the people who come in by   *)
(* them.                                                                   *)
(*                                                                         *)
(* Each request is one transaction at READ COMMITTED.  Inviting reads who  *)
(* is a member and what is pending with nothing locked, and sends its      *)
(* e-mail before it commits; a row it inserts or updates is held till      *)
(* then.  Resending sends the e-mail first and then locks the row and      *)
(* reads it again.  Accepting locks the row of its link.  Cancelling, and  *)
(* removing a member, lock and write in one go.  `Fail' is every error a   *)
(* service ends with, and a process that stops anywhere.                   *)
(*                                                                         *)
(* A link and its date are drawn and saved together, so `late' is of       *)
(* links.  An invitation is of a company for an address; a list of         *)
(* addresses is one of each in turn.                                       *)
(***************************************************************************)
CONSTANTS
  Req,        \* requests that may be under way at once
  Company,    \* companies: the accounts people are invited to
  Email,      \* addresses invited, none of them the administrator's
  Invitation, \* invitations, by id
  Link,       \* links (tokens) that may be drawn
  Member,     \* memberships, by id
  None

ASSUME InvitationsAssumption ==
  None \notin Req \cup Company \cup Email \cup Invitation \cup Link \cup Member

VARIABLES
  invitation, \* the invitations
  member,     \* the memberships, and by which invitation each came to be
  users,      \* addresses with an account
  mail,       \* what became of the e-mail with each link
  late,       \* links past their date
  pc, job,    \* each request: where it is, and what it knows
  lock        \* who holds the row of each invitation

vars == <<invitation, member, users, mail, late, pc, job, lock>>

NoInvitation == [st |-> "new", company |-> None, email |-> None, link |-> None]
NoMember == [st |-> "new", company |-> None, email |-> None, via |-> None]
NoJob == [op |-> "none", company |-> None, email |-> None, invitation |-> None,
          fresh |-> None, link |-> None, member |-> None, known |-> FALSE,
          active |-> FALSE]

Init ==
  /\ invitation = [i \in Invitation |-> NoInvitation]
  /\ member = [m \in Member |-> NoMember]
  /\ users \in SUBSET Email
  /\ mail = [l \in Link |-> "none"]
  /\ late = {}
  /\ pc = [r \in Req |-> "idle"]
  /\ job = [r \in Req |-> NoJob]
  /\ lock = [i \in Invitation |-> None]

-----------------------------------------------------------------------------
Pending(i) == invitation[i].st = "pending"
Present(m) == member[m].st \in {"active", "inactive"}

PendingOf(c, e) ==
  {i \in Invitation : Pending(i) /\ invitation[i].company = c /\ invitation[i].email = e}

MembersOf(c, e) ==
  {m \in Member : Present(m) /\ member[m].company = c /\ member[m].email = e}

\* A row, or a secret, that nothing has used.
Unused(i) == invitation[i].st = "new" /\ \A r \in Req : job[r].fresh # i
Undrawn(l) == mail[l] = "none" /\ \A r \in Req : job[r].link # l
Unborn(m) == member[m].st = "new" /\ \A r \in Req : job[r].member # m

\* Free, as it would be if the row were read without select_for_update.
FreeForAll(i) == TRUE

\* select_for_update, and every update: a row someone holds is waited for.
Free(i) == lock[i] = None

\* The end of a request: what it holds is free again.
End(r) ==
  /\ pc' = [pc EXCEPT ![r] = "idle"]
  /\ job' = [job EXCEPT ![r] = NoJob]
  /\ lock' = [i \in Invitation |-> IF lock[i] = r THEN None ELSE lock[i]]

\* An error, or a process that dies: e-mails already sent stay sent.
Fail(r) ==
  /\ pc[r] # "idle"
  /\ End(r)
  /\ UNCHANGED <<invitation, member, users, mail, late>>

-----------------------------------------------------------------------------
(* invite_collaborators. *)

\* is_member: those who are in are skipped.  (i, l: the row and the link the
\* request will insert, if it comes to that.)
Invite(r, c, e, i, l) ==
  /\ pc[r] = "idle"
  /\ MembersOf(c, e) = {}
  /\ Unused(i) /\ Undrawn(l)
  /\ job' = [job EXCEPT ![r] = [NoJob EXCEPT !.op = "invite", !.company = c, !.email = e,
                                             !.fresh = i, !.link = l]]
  /\ pc' = [pc EXCEPT ![r] = "find"]
  /\ UNCHANGED <<invitation, member, users, mail, late, lock>>

\* pending_invitation: none, one that is late and is renewed, or one that is
\* not and leaves nothing to do.
FindPending(r) ==
  LET pending == PendingOf(job[r].company, job[r].email) IN
  /\ pc[r] = "find"
  /\ \/ /\ pending = {}
        /\ pc' = [pc EXCEPT ![r] = "insert"]
        /\ UNCHANGED <<job, lock>>
     \/ \E i \in pending :
          /\ invitation[i].link \in late
          /\ job' = [job EXCEPT ![r].invitation = i]
          /\ pc' = [pc EXCEPT ![r] = "refresh"]
          /\ UNCHANGED lock
     \/ /\ \E i \in pending : invitation[i].link \notin late
        /\ End(r)
  /\ UNCHANGED <<invitation, member, users, mail, late>>

\* Someone else's insert for the same address, not committed yet.
BeingInserted(c, e) ==
  \E o \in Req : /\ job[o].op = "invite" /\ job[o].company = c /\ job[o].email = e
                 /\ pc[o] \in {"mail", "commit"}
                 /\ job[o].invitation = job[o].fresh

\* The insert, under the unique index team_invitation_one_pending: it waits for
\* an uncommitted one, and one that is committed is the same invitation.
Insert(r) ==
  /\ pc[r] = "insert"
  /\ ~BeingInserted(job[r].company, job[r].email)
  /\ IF PendingOf(job[r].company, job[r].email) # {} THEN End(r)
     ELSE /\ job' = [job EXCEPT ![r].invitation = job[r].fresh]
          /\ lock' = [lock EXCEPT ![job[r].fresh] = r]
          /\ pc' = [pc EXCEPT ![r] = "mail"]
  /\ UNCHANGED <<invitation, member, users, mail, late>>

\* _refresh_link: an update by id, of a row read with no lock.
Refresh(r) ==
  LET i == job[r].invitation IN
  /\ pc[r] = "refresh"
  /\ Free(i)
  /\ lock' = [lock EXCEPT ![i] = r]
  /\ pc' = [pc EXCEPT ![r] = "mail"]
  /\ UNCHANGED <<invitation, member, users, mail, late, job>>

\* The e-mail with the link goes out or not: an invitation stays either way,
\* a resend ends (EmailNotSent).
Mail(r, sent) ==
  LET l == job[r].link IN
  /\ pc[r] = "mail"
  /\ IF sent THEN mail' = [mail EXCEPT ![l] = "sent"]
     ELSE mail' = [mail EXCEPT ![l] = IF job[r].op = "invite" THEN "unsent" ELSE "lost"]
  /\ IF job[r].op = "resend" /\ ~sent THEN End(r)
     ELSE /\ pc' = [pc EXCEPT ![r] = IF job[r].op = "invite" THEN "commit" ELSE "save"]
          /\ UNCHANGED <<job, lock>>
  /\ UNCHANGED <<invitation, member, users, late>>

\* The commit: a new row, or the link of one that was there, whatever has
\* become of it.
CommitInvite(r) ==
  LET j == job[r] IN
  /\ pc[r] = "commit"
  /\ invitation' = IF j.invitation = j.fresh
       THEN [invitation EXCEPT ![j.invitation] =
               [st |-> "pending", company |-> j.company, email |-> j.email,
                link |-> j.link]]
       ELSE [invitation EXCEPT ![j.invitation].link = j.link]
  /\ End(r)
  /\ UNCHANGED <<member, users, mail, late>>

-----------------------------------------------------------------------------
(* resend_invitation, cancel_invitation. *)

\* _owned_waiting_invitation, and a link nobody has.
Resend(r, i, l) ==
  /\ pc[r] = "idle"
  /\ Pending(i) /\ Undrawn(l)
  /\ job' = [job EXCEPT ![r] = [NoJob EXCEPT !.op = "resend", !.invitation = i, !.link = l]]
  /\ pc' = [pc EXCEPT ![r] = "mail"]
  /\ UNCHANGED <<invitation, member, users, mail, late, lock>>

\* SaveLink, as it would be on the invitation read before the e-mail.
SaveLinkAsRead(r) ==
  LET i == job[r].invitation IN
  /\ pc[r] = "save"
  /\ Free(i)
  /\ invitation' = [invitation EXCEPT ![i].link = job[r].link, ![i].st = "pending"]
  /\ End(r)
  /\ UNCHANGED <<member, users, mail, late>>

\* The row locked and read again: the link is saved if it still waits.
SaveLink(r) ==
  LET i == job[r].invitation IN
  /\ pc[r] = "save"
  /\ Free(i)
  /\ invitation' = IF Pending(i) THEN [invitation EXCEPT ![i].link = job[r].link]
                   ELSE invitation
  /\ End(r)
  /\ UNCHANGED <<member, users, mail, late>>

\* Cancel, as it would be on the invitation read before the lock, which waited.
CancelAsRead(i) ==
  /\ Free(i)
  /\ invitation[i].st # "new"
  /\ invitation' = [invitation EXCEPT ![i].st = "cancelled"]
  /\ UNCHANGED <<member, users, mail, late, pc, job, lock>>

\* cancel_invitation: the row locked, and its status if it still waits.
Cancel(i) ==
  /\ Free(i)
  /\ Pending(i)
  /\ invitation' = [invitation EXCEPT ![i].st = "cancelled"]
  /\ UNCHANGED <<member, users, mail, late, pc, job, lock>>

-----------------------------------------------------------------------------
(* accept_invitation. *)

\* _ensure_usable.
Usable(i) == Pending(i) /\ invitation[i].link \notin late

\* Whoever received the link opens it: find_invitation with its row locked.
OpenLink(r, l, m) ==
  /\ pc[r] = "idle"
  /\ mail[l] = "sent"
  /\ Unborn(m)
  /\ \E i \in Invitation :
       /\ invitation[i].link = l
       /\ Free(i) /\ Usable(i)
       /\ lock' = [lock EXCEPT ![i] = r]
       /\ job' = [job EXCEPT ![r] = [NoJob EXCEPT !.op = "accept", !.invitation = i,
                                                  !.member = m]]
  /\ pc' = [pc EXCEPT ![r] = "account"]
  /\ UNCHANGED <<invitation, member, users, mail, late>>

\* find_user.
FindUser(r) ==
  /\ pc[r] = "account"
  /\ job' = [job EXCEPT ![r].known = invitation[job[r].invitation].email \in users]
  /\ pc' = [pc EXCEPT ![r] = "join"]
  /\ UNCHANGED <<invitation, member, users, mail, late, lock>>

\* The account, if there was none and nobody created it meanwhile
\* (AccountJustCreated); the membership, unless they have one; and the link
\* is spent.
Join(r) ==
  LET i == job[r].invitation
      c == invitation[i].company
      e == invitation[i].email
  IN
  /\ pc[r] = "join"
  /\ job[r].known \/ e \notin users
  /\ users' = users \cup {e}
  /\ member' = IF MembersOf(c, e) # {} THEN member
               ELSE [member EXCEPT ![job[r].member] =
                       [st |-> "active", company |-> c, email |-> e, via |-> i]]
  /\ invitation' = [invitation EXCEPT ![i].st = "accepted"]
  /\ End(r)
  /\ UNCHANGED <<mail, late>>

-----------------------------------------------------------------------------
(* set_member_active, remove_member. *)

ReadMember(r, m, active) ==
  /\ pc[r] = "idle"
  /\ Present(m)
  /\ job' = [job EXCEPT ![r] = [NoJob EXCEPT !.op = "toggle", !.member = m,
                                             !.active = active]]
  /\ pc' = [pc EXCEPT ![r] = "toggle"]
  /\ UNCHANGED <<invitation, member, users, mail, late, lock>>

Toggled(r) == IF job[r].active THEN "active" ELSE "inactive"

\* SetActive, as it would be with a plain save(), which inserts what it cannot
\* update.
SetActiveAnew(r) ==
  /\ pc[r] = "toggle"
  /\ member' = [member EXCEPT ![job[r].member].st = Toggled(r)]
  /\ End(r)
  /\ UNCHANGED <<invitation, users, mail, late>>

\* save(update_fields): of a membership removed meanwhile, an error.
SetActive(r) ==
  /\ pc[r] = "toggle"
  /\ Present(job[r].member)
  /\ member' = [member EXCEPT ![job[r].member].st = Toggled(r)]
  /\ End(r)
  /\ UNCHANGED <<invitation, users, mail, late>>

RemoveMember(m) ==
  /\ Present(m)
  /\ member' = [member EXCEPT ![m].st = "gone"]
  /\ UNCHANGED <<invitation, users, mail, late, pc, job, lock>>

\* INVITATION_DAYS go by.
Expire(l) ==
  /\ l \notin late
  /\ \E i \in Invitation : invitation[i].link = l
  /\ late' = late \cup {l}
  /\ UNCHANGED <<invitation, member, users, mail, pc, job, lock>>

-----------------------------------------------------------------------------
Next ==
  \/ \E r \in Req, i \in Invitation, l \in Link :
       \/ \E c \in Company, e \in Email : Invite(r, c, e, i, l)
       \/ Resend(r, i, l)
  \/ \E r \in Req, m \in Member :
       \/ \E l \in Link : OpenLink(r, l, m)
       \/ \E active \in BOOLEAN : ReadMember(r, m, active)
  \/ \E r \in Req :
       \/ FindPending(r) \/ Insert(r) \/ Refresh(r) \/ CommitInvite(r)
       \/ \E sent \in BOOLEAN : Mail(r, sent)
       \/ SaveLink(r)
       \/ FindUser(r) \/ Join(r)
       \/ SetActive(r)
       \/ Fail(r)
  \/ \E i \in Invitation : Cancel(i)
  \/ \E m \in Member : RemoveMember(m)
  \/ \E l \in Link : Expire(l)

Spec == Init /\ [][Next]_vars

-----------------------------------------------------------------------------
(* Properties. *)

InvitationType ==
  [st : {"new", "pending", "accepted", "cancelled"}, company : Company \cup {None},
   email : Email \cup {None}, link : Link \cup {None}]

MemberType ==
  [st : {"new", "active", "inactive", "gone"}, company : Company \cup {None},
   email : Email \cup {None}, via : Invitation \cup {None}]

PCs == {"idle", "find", "insert", "refresh", "mail", "commit", "save", "account",
        "join", "toggle"}

JobType ==
  [op : {"none", "invite", "resend", "accept", "toggle"},
   company : Company \cup {None}, email : Email \cup {None},
   invitation : Invitation \cup {None}, fresh : Invitation \cup {None},
   link : Link \cup {None}, member : Member \cup {None},
   known : BOOLEAN, active : BOOLEAN]

\* Every row and every request has its shape.
TypeOK ==
  /\ invitation \in [Invitation -> InvitationType]
  /\ member \in [Member -> MemberType]
  /\ users \subseteq Email
  /\ mail \in [Link -> {"none", "sent", "unsent", "lost"}]
  /\ late \subseteq Link
  /\ pc \in [Req -> PCs]
  /\ job \in [Req -> JobType]
  /\ lock \in [Invitation -> Req \cup {None}]

\* Whoever is or was in a company came in by an invitation of that company to
\* their address, and that invitation is accepted: "never a cancelled
\* invitation with the collaborator inside" (cancel_invitation).
OnlyByAccepting ==
  \A m \in Member : member[m].st # "new" =>
    LET i == invitation[member[m].via] IN
    /\ i.st = "accepted"
    /\ i.company = member[m].company /\ i.email = member[m].email
    /\ i.email \in users

\* A link lets in one person once, also after they are removed ("el enlace
\* sirve una sola vez", accept_invitation).
LinkOpensOnce ==
  \A m1, m2 \in Member :
    member[m1].st # "new" /\ member[m2].st # "new" /\ member[m1].via = member[m2].via
      => m1 = m2

\* No invitation waits without its e-mail having been tried, and a resend that
\* could not send its own leaves the link there was: "no queda ninguna pendiente
\* sin su correo" (invite_collaborators), "el anterior deja de servir sólo
\* cuando el correo salió" (resend_invitation).
WaitingWasMailed ==
  \A i \in Invitation : Pending(i) => mail[invitation[i].link] \in {"sent", "unsent"}

\* An invitation accepted or cancelled stays so ("de ahí ya no sale").
ClosedStaysClosed ==
  [][\A i \in Invitation :
       invitation[i].st \in {"accepted", "cancelled"} =>
         invitation'[i].st = invitation[i].st]_vars

\* A membership removed is not brought back by whoever had read it: a person
\* returns only through another invitation (remove_member).
RemovedStaysOut ==
  [][\A m \in Member : member[m].st = "gone" => member'[m].st = "gone"]_vars

=============================================================================
