-------------------------- MODULE InvitationsProofs --------------------------
(***************************************************************************)
(* Proofs about Invitations: the invariant of its requests, and the safety *)
(* properties that follow from it, for any number of requests, companies,  *)
(* addresses, invitations and members.                                     *)
(***************************************************************************)
EXTENDS Invitations, TLAPS

\* A row that was inserted is of a company, an address and a link; a membership
\* came from an invitation.
RowsWhole ==
  /\ \A i \in Invitation : invitation[i].st # "new" =>
       /\ invitation[i].company \in Company
       /\ invitation[i].email \in Email
       /\ invitation[i].link \in Link
  /\ \A m \in Member : member[m].st # "new" => member[m].via \in Invitation

\* What a request is about, by where it is: a link not mailed yet, mailed, or
\* mailed and delivered; a row that exists, or the one it will insert.
Inviting(r) ==
  /\ pc[r] \in {"find", "insert", "refresh"} \/ (pc[r] \in {"mail", "commit"} /\ job[r].op = "invite")
  => /\ job[r].op = "invite"
     /\ job[r].company \in Company /\ job[r].email \in Email
     /\ job[r].fresh \in Invitation /\ invitation[job[r].fresh].st = "new"

Linking(r) ==
  /\ pc[r] \in {"find", "insert", "refresh", "mail", "commit", "save"} => job[r].link \in Link
  /\ pc[r] \in {"find", "insert", "refresh", "mail"} => mail[job[r].link] = "none"
  /\ pc[r] = "commit" => mail[job[r].link] \in {"sent", "unsent"}
  /\ pc[r] = "save" => mail[job[r].link] = "sent"

Knowing(r) ==
  /\ pc[r] \in {"refresh", "mail", "commit", "save", "account", "join"} =>
       job[r].invitation \in Invitation
  /\ pc[r] = "refresh" => invitation[job[r].invitation].st # "new"
  /\ pc[r] \in {"mail", "commit", "save"} =>
       \/ job[r].op = "invite" /\ pc[r] # "save" /\ job[r].invitation = job[r].fresh
       \/ invitation[job[r].invitation].st # "new"
  /\ pc[r] = "mail" => job[r].op \in {"invite", "resend"}
  /\ pc[r] = "commit" => job[r].op = "invite"
  /\ pc[r] \in {"account", "join"} =>
       /\ Pending(job[r].invitation)
       /\ job[r].op = "accept"
       /\ job[r].member \in Member /\ member[job[r].member].st = "new"
  /\ pc[r] = "toggle" => job[r].member \in Member /\ member[job[r].member].st # "new"

JobsMakeSense == \A r \in Req : Inviting(r) /\ Linking(r) /\ Knowing(r)

\* A request that inserted, updated or locked a row holds it.
Holding(r) ==
  \/ pc[r] \in {"mail", "commit"} /\ job[r].op = "invite"
  \/ pc[r] \in {"account", "join"}

RowsAreHeld == \A r \in Req : Holding(r) => lock[job[r].invitation] = r

\* No two requests will use one id or one link.
OwnIds ==
  \A r, o \in Req : r # o =>
    /\ job[r].fresh # None => job[r].fresh # job[o].fresh
    /\ job[r].link # None => job[r].link # job[o].link
    /\ pc[r] \in {"account", "join"} => job[r].member # job[o].member

IInv == /\ TypeOK /\ RowsWhole /\ JobsMakeSense /\ RowsAreHeld /\ OwnIds
        /\ WaitingWasMailed /\ OnlyByAccepting /\ LinkOpensOnce

-----------------------------------------------------------------------------
USE InvitationsAssumption

LEMMA InitIInv == Init => IInv
<1> SUFFICES ASSUME Init PROVE IInv
  OBVIOUS
<1>1. TypeOK
  BY DEF Init, TypeOK, InvitationType, MemberType, JobType, PCs, NoInvitation, NoMember,
         NoJob
<1>2. RowsWhole /\ WaitingWasMailed /\ OnlyByAccepting /\ LinkOpensOnce
  BY DEF Init, RowsWhole, WaitingWasMailed, OnlyByAccepting, LinkOpensOnce, Pending,
         NoInvitation, NoMember
<1>3. JobsMakeSense /\ RowsAreHeld /\ OwnIds
  BY DEF Init, JobsMakeSense, RowsAreHeld, OwnIds, Inviting, Linking, Knowing, Holding,
         NoJob
<1> QED BY <1>1, <1>2, <1>3 DEF IInv

-----------------------------------------------------------------------------
(* The steps of one request, and those of nobody's. *)

Begins(r) ==
  \/ \E c \in Company, e \in Email, i \in Invitation, l \in Link : Invite(r, c, e, i, l)
  \/ \E i \in Invitation, l \in Link : Resend(r, i, l)
  \/ \E l \in Link, m \in Member : OpenLink(r, l, m)
  \/ \E m \in Member, active \in BOOLEAN : ReadMember(r, m, active)

GoesOn(r) ==
  \/ FindPending(r) \/ Insert(r) \/ Refresh(r)
  \/ \E sent \in BOOLEAN : Mail(r, sent)
  \/ FindUser(r)

Ends(r) == CommitInvite(r) \/ SaveLink(r) \/ Join(r) \/ SetActive(r) \/ Fail(r)

Outside ==
  \/ \E i \in Invitation : Cancel(i)
  \/ \E m \in Member : RemoveMember(m)
  \/ \E l \in Link : Expire(l)

LEMMA NextCases ==
  ASSUME Next
  PROVE  Outside \/ \E r \in Req : Begins(r) \/ GoesOn(r) \/ Ends(r)
BY DEF Next, Outside, Begins, GoesOn, Ends

\* A request's record has its type, field by field.
Typed(r) ==
  /\ job[r] \in JobType /\ pc[r] \in PCs
  /\ job[r].invitation \in Invitation \cup {None}
  /\ job[r].fresh \in Invitation \cup {None}
  /\ job[r].link \in Link \cup {None}
  /\ job[r].member \in Member \cup {None}
  /\ job[r].company \in Company \cup {None}
  /\ job[r].email \in Email \cup {None}

LEMMA JobFields == ASSUME TypeOK, NEW r \in Req PROVE Typed(r)
BY DEF TypeOK, JobType, Typed

\* A record with one field of its type replaced keeps its type.
LEMMA JobWith ==
  ASSUME NEW j \in JobType, NEW i \in Invitation, NEW known \in BOOLEAN
  PROVE  /\ [j EXCEPT !.invitation = i] \in JobType
         /\ [j EXCEPT !.known = known] \in JobType
BY DEF JobType

LEMMA RowWith ==
  ASSUME NEW i \in InvitationType, NEW st \in {"pending", "accepted", "cancelled"},
         NEW l \in Link \cup {None}
  PROVE  /\ [i EXCEPT !.st = st] \in InvitationType
         /\ [i EXCEPT !.link = l] \in InvitationType
BY DEF InvitationType

LEMMA NoJobType == NoJob \in JobType
BY DEF NoJob, JobType

LEMMA EndType ==
  ASSUME TypeOK, NEW r \in Req, End(r)
  PROVE  pc' \in [Req -> PCs] /\ job' \in [Req -> JobType]
         /\ lock' \in [Invitation -> Req \cup {None}]
BY NoJobType DEF TypeOK, End, PCs

\* Every step keeps every row and every request in its shape.
LEMMA NextTypeOK == IInv /\ Next => TypeOK'
<1> SUFFICES ASSUME IInv, Next PROVE TypeOK'
  OBVIOUS
<1>0. TypeOK /\ JobsMakeSense
  BY DEF IInv
<1>1. CASE Outside
  <2>1. CASE \E i \in Invitation : Cancel(i)
    BY <1>0, <2>1 DEF Cancel, TypeOK, InvitationType
  <2>2. CASE \E m \in Member : RemoveMember(m)
    BY <1>0, <2>2 DEF RemoveMember, TypeOK, MemberType
  <2>3. CASE \E l \in Link : Expire(l)
    BY <1>0, <2>3 DEF Expire, TypeOK
  <2> QED BY <1>1, <2>1, <2>2, <2>3 DEF Outside
<1>2. ASSUME NEW r \in Req, Begins(r) PROVE TypeOK'
  <2>1. /\ pc' \in [Req -> PCs] /\ job' \in [Req -> JobType]
        /\ lock' \in [Invitation -> Req \cup {None}]
    <3>1. ASSUME NEW c \in Company, NEW e \in Email, NEW i \in Invitation, NEW l \in Link,
                 Invite(r, c, e, i, l)
          PROVE  <2>1!:
      BY <1>0, <3>1 DEF Invite, TypeOK, NoJob, JobType, PCs
    <3>2. ASSUME NEW i \in Invitation, NEW l \in Link, Resend(r, i, l) PROVE <2>1!:
      BY <1>0, <3>2 DEF Resend, TypeOK, NoJob, JobType, PCs
    <3>3. ASSUME NEW l \in Link, NEW m \in Member, OpenLink(r, l, m) PROVE <2>1!:
      <4>1. PICK i \in Invitation :
              /\ lock' = [lock EXCEPT ![i] = r]
              /\ job' = [job EXCEPT ![r] = [NoJob EXCEPT !.op = "accept", !.invitation = i,
                                                         !.member = m]]
        BY <3>3 DEF OpenLink
      <4>2. [NoJob EXCEPT !.op = "accept", !.invitation = i, !.member = m] \in JobType
        BY DEF NoJob, JobType
      <4> QED BY <1>0, <3>3, <4>1, <4>2 DEF OpenLink, TypeOK, PCs
    <3>4. ASSUME NEW m \in Member, NEW active \in BOOLEAN, ReadMember(r, m, active)
          PROVE  <2>1!:
      BY <1>0, <3>4 DEF ReadMember, TypeOK, NoJob, JobType, PCs
    <3> QED BY <1>2, <3>1, <3>2, <3>3, <3>4 DEF Begins
  <2>2. UNCHANGED <<invitation, member, users, mail, late>>
    BY <1>2 DEF Begins, Invite, Resend, OpenLink, ReadMember
  <2> QED BY <1>0, <2>1, <2>2 DEF TypeOK
<1>3. ASSUME NEW r \in Req, GoesOn(r) PROVE TypeOK'
  <2>0. Typed(r)
    BY <1>0, JobFields
  <2>1. CASE FindPending(r) \/ Insert(r)
    <3>1. CASE End(r)
      BY <1>0, <2>1, <3>1, EndType DEF FindPending, Insert, TypeOK
    <3>2. CASE ~End(r) /\ FindPending(r)
      <4>1. \A i \in Invitation : [job[r] EXCEPT !.invitation = i] \in JobType
        BY <2>0, JobWith DEF Typed
      <4>2. job' = job \/ \E i \in Invitation : job' = [job EXCEPT ![r].invitation = i]
        BY <3>2 DEF FindPending, PendingOf
      <4>3. pc' \in [Req -> PCs] /\ UNCHANGED <<invitation, member, users, mail, late, lock>>
        BY <1>0, <3>2 DEF FindPending, TypeOK, PCs
      <4> QED BY <1>0, <4>1, <4>2, <4>3 DEF TypeOK
    <3>3. CASE ~End(r) /\ Insert(r)
      <4>1. job[r].fresh \in Invitation
        BY <1>0, <3>3 DEF Insert, JobsMakeSense, Inviting
      <4>2. [job[r] EXCEPT !.invitation = job[r].fresh] \in JobType
        BY <2>0, <4>1, JobWith DEF Typed
      <4> QED BY <1>0, <3>3, <4>1, <4>2 DEF Insert, TypeOK, PCs
    <3> QED BY <2>1, <3>1, <3>2, <3>3
  <2>2. CASE Refresh(r)
    BY <1>0, <2>0, <2>2 DEF Typed, Refresh, TypeOK, PCs
  <2>3. ASSUME NEW sent \in BOOLEAN, Mail(r, sent) PROVE TypeOK'
    <3>1. mail' \in [Link -> {"none", "sent", "unsent", "lost"}]
      BY <1>0, <2>3 DEF Mail, TypeOK
    <3>2. CASE End(r)
      BY <1>0, <2>3, <3>1, <3>2, EndType DEF Mail, TypeOK
    <3>3. CASE ~End(r)
      BY <1>0, <2>3, <3>1, <3>3 DEF Mail, TypeOK, PCs
    <3> QED BY <3>2, <3>3
  <2>4. CASE FindUser(r)
    <3>1. PICK known \in BOOLEAN : job' = [job EXCEPT ![r].known = known]
      <4> DEFINE k == invitation[job[r].invitation].email \in users
      <4>1. k = TRUE \/ k = FALSE
        OBVIOUS
      <4>2. job' = [job EXCEPT ![r].known = k]
        BY <2>4 DEF FindUser
      <4> HIDE DEF k
      <4> QED BY <4>1, <4>2
    <3>2. [job[r] EXCEPT !.known = known] \in JobType
      <4>1. job[r] \in JobType
        BY <2>0 DEF Typed
      <4> QED BY <4>1 DEF JobType
    <3> QED BY <1>0, <2>4, <3>1, <3>2 DEF FindUser, TypeOK, PCs
  <2> QED BY <1>3, <2>1, <2>2, <2>3, <2>4 DEF GoesOn
<1>4. ASSUME NEW r \in Req, Ends(r) PROVE TypeOK'
  <2>0. Typed(r) /\ End(r) /\ Knowing(r)
    BY <1>0, <1>4, JobFields
    DEF Ends, CommitInvite, SaveLink, Join, SetActive, Fail, JobsMakeSense
  <2>1. /\ pc' \in [Req -> PCs] /\ job' \in [Req -> JobType]
        /\ lock' \in [Invitation -> Req \cup {None}]
    BY <1>0, <2>0, EndType
  <2>2. CASE CommitInvite(r)
    <3>1. [st |-> "pending", company |-> job[r].company, email |-> job[r].email,
           link |-> job[r].link] \in InvitationType
      BY <2>0 DEF Typed, InvitationType
    <3>2. \A i \in Invitation : [invitation[i] EXCEPT !.link = job[r].link] \in InvitationType
      BY <1>0, <2>0, RowWith DEF Typed, TypeOK
    <3>3. invitation' \in [Invitation -> InvitationType]
      BY <1>0, <2>2, <3>1, <3>2 DEF CommitInvite, TypeOK
    <3> QED BY <1>0, <2>1, <2>2, <3>3 DEF CommitInvite, TypeOK
  <2>3. CASE SaveLink(r)
    <3>1. \A i \in Invitation : [invitation[i] EXCEPT !.link = job[r].link] \in InvitationType
      BY <1>0, <2>0, RowWith DEF Typed, TypeOK
    <3>2. invitation' \in [Invitation -> InvitationType]
      BY <1>0, <2>3, <3>1 DEF SaveLink, TypeOK
    <3> QED BY <1>0, <2>1, <2>3, <3>2 DEF SaveLink, TypeOK
  <2>4. CASE Join(r)
    <3>1. /\ job[r].invitation \in Invitation
          /\ invitation[job[r].invitation].email \in Email
          /\ invitation[job[r].invitation].company \in Company
      BY <2>0, <2>4 DEF Typed, Join, Knowing, IInv, RowsWhole, Pending
    <3>2. invitation' \in [Invitation -> InvitationType]
      BY <1>0, <2>4, <3>1, RowWith DEF Join, TypeOK
    <3>3. member' \in [Member -> MemberType]
      BY <1>0, <2>4, <3>1 DEF Join, TypeOK, MemberType
    <3> QED BY <1>0, <2>1, <2>4, <3>1, <3>2, <3>3 DEF Join, TypeOK
  <2>5. CASE SetActive(r)
    <3>1. \A m \in Member : [member[m] EXCEPT !.st = Toggled(r)] \in MemberType
      BY <1>0 DEF TypeOK, MemberType, Toggled
    <3>2. member' \in [Member -> MemberType]
      BY <1>0, <2>5, <3>1 DEF SetActive, TypeOK
    <3> QED BY <1>0, <2>1, <2>5, <3>2 DEF SetActive, TypeOK
  <2>6. CASE Fail(r)
    BY <1>0, <2>1, <2>6 DEF Fail, TypeOK
  <2> QED BY <1>4, <2>2, <2>3, <2>4, <2>5, <2>6 DEF Ends
<1> QED BY <1>1, <1>2, <1>3, <1>4, NextCases

-----------------------------------------------------------------------------
(* What a step may do to the rows. *)

\* A request's step: the rows, the links and the memberships that are not its
\* own stay, and a row that is there keeps its company and its address.
RowsStep(r) ==
  /\ \A i \in Invitation : invitation[i].st # "new" =>
       /\ invitation'[i].st # "new"
       /\ invitation'[i].company = invitation[i].company
       /\ invitation'[i].email = invitation[i].email
       /\ invitation[i].st # "pending" => invitation'[i].st = invitation[i].st
       /\ invitation[i].st = "pending" /\ lock[i] \notin {r, None} =>
            invitation'[i].st = "pending"
  /\ \A i \in Invitation : invitation[i].st = "new" /\ i # job[r].fresh =>
       invitation'[i].st = "new"
  /\ \A l \in Link : l # job[r].link => mail'[l] = mail[l]
  /\ \A m \in Member : member[m].st = "new" =>
       \/ member'[m].st = "new"
       \/ pc[r] \in {"account", "join"} /\ m = job[r].member
  /\ \A m \in Member : member[m].st # "new" =>
       /\ member'[m].st # "new"
       /\ member'[m].via = member[m].via
       /\ member'[m].company = member[m].company
       /\ member'[m].email = member[m].email
  /\ \A m \in Member : member[m].st = "gone" => member'[m].st = "gone"
  /\ users \subseteq users'

LEMMA QuietRows ==
  ASSUME IInv, NEW r \in Req,
         UNCHANGED <<invitation, member, users>>,
         \A l \in Link : l # job[r].link => mail'[l] = mail[l]
  PROVE  RowsStep(r)
BY DEF RowsStep

LEMMA RequestRows ==
  ASSUME IInv, NEW r \in Req, Begins(r) \/ GoesOn(r) \/ Ends(r)
  PROVE  RowsStep(r)
<1>0. TypeOK /\ Knowing(r) /\ Inviting(r)
  BY DEF IInv, JobsMakeSense
<1>1. CASE Begins(r)
  BY <1>1, QuietRows DEF Begins, Invite, Resend, OpenLink, ReadMember
<1>2. CASE GoesOn(r)
  <2>1. UNCHANGED <<invitation, member, users>>
    BY <1>2 DEF GoesOn, FindPending, Insert, Refresh, Mail, FindUser
  <2>2. \A l \in Link : l # job[r].link => mail'[l] = mail[l]
    BY <1>0, <1>2 DEF GoesOn, FindPending, Insert, Refresh, Mail, FindUser, TypeOK
  <2> QED BY <2>1, <2>2, QuietRows
<1>3. CASE CommitInvite(r)
  BY <1>0, <1>3 DEF CommitInvite, RowsStep, TypeOK, InvitationType, Knowing, Inviting
<1>4. CASE SaveLink(r)
  BY <1>0, <1>4 DEF SaveLink, RowsStep, TypeOK, InvitationType, Knowing
<1>5. CASE Join(r)
  <2> DEFINE i == job[r].invitation
             c == invitation[i].company
             e == invitation[i].email
  <2>1. /\ pc[r] = "join" /\ i \in Invitation /\ Pending(i)
        /\ job[r].member \in Member /\ member[job[r].member].st = "new"
    BY <1>0, <1>5 DEF Join, Knowing
  <2>2. lock[i] = r
    BY <2>1 DEF IInv, RowsAreHeld, Holding
  <2>3. /\ invitation' = [invitation EXCEPT ![i].st = "accepted"]
        /\ mail' = mail /\ users \subseteq users'
    BY <1>5 DEF Join
  <2>4. \/ member' = member
        \/ member' = [member EXCEPT ![job[r].member] =
                        [st |-> "active", company |-> c, email |-> e, via |-> i]]
    BY <1>5 DEF Join
  <2>5. RowsStep(r)!1 /\ RowsStep(r)!2 /\ RowsStep(r)!3 /\ RowsStep(r)!7
    BY <1>0, <2>1, <2>2, <2>3 DEF TypeOK, InvitationType, Pending
  <2>6. RowsStep(r)!4 /\ RowsStep(r)!5 /\ RowsStep(r)!6
    BY <1>0, <2>1, <2>4 DEF TypeOK
  <2> QED BY <2>5, <2>6 DEF RowsStep
<1>6. CASE SetActive(r)
  BY <1>0, <1>6 DEF SetActive, Toggled, Present, RowsStep, TypeOK, MemberType
<1>7. CASE Fail(r)
  BY <1>7, QuietRows DEF Fail
<1> QED BY <1>1, <1>2, <1>3, <1>4, <1>5, <1>6, <1>7 DEF Ends


-----------------------------------------------------------------------------
(* The requests. *)

\* What a request knows and holds, together.
Sound(r) == Inviting(r) /\ Linking(r) /\ Knowing(r) /\ (Holding(r) => lock[job[r].invitation] = r)

\* A step of r leaves the records of the others, and the rows they hold.
LEMMA OthersKeep ==
  ASSUME IInv, NEW r \in Req, Begins(r) \/ GoesOn(r) \/ Ends(r), NEW o \in Req, o # r
  PROVE  /\ pc'[o] = pc[o] /\ job'[o] = job[o]
         /\ \A i \in Invitation : lock[i] = o => lock'[i] = o \/ (Insert(r) /\ i = job[r].fresh)
<1>0. TypeOK /\ r # None /\ o # None
  BY DEF IInv
<1>1. CASE End(r)
  BY <1>0, <1>1 DEF End, TypeOK
<1>2. CASE ~End(r) /\ Begins(r)
  BY <1>0, <1>2 DEF Begins, Invite, Resend, OpenLink, ReadMember, Free, TypeOK
<1>3. CASE ~End(r) /\ GoesOn(r)
  BY <1>0, <1>3 DEF GoesOn, FindPending, Insert, Refresh, Mail, FindUser, Free, TypeOK
<1>4. Ends(r) => End(r)
  BY DEF Ends, CommitInvite, SaveLink, Join, SetActive, Fail
<1> QED BY <1>1, <1>2, <1>3, <1>4

LEMMA OthersSound ==
  ASSUME IInv, NEW r \in Req, Begins(r) \/ GoesOn(r) \/ Ends(r), NEW o \in Req, o # r
  PROVE  Sound(o)'
<1>0. TypeOK /\ RowsStep(r) /\ Sound(o) /\ Typed(o) /\ r # None /\ o # None
  BY RequestRows, JobFields DEF IInv, JobsMakeSense, RowsAreHeld, Sound
<1>1. /\ pc'[o] = pc[o] /\ job'[o] = job[o]
      /\ \A i \in Invitation : lock[i] = o => lock'[i] = o \/ (Insert(r) /\ i = job[r].fresh)
  BY OthersKeep
<1>2. /\ job[o].fresh # None => job[o].fresh # job[r].fresh
      /\ job[o].link # None => job[o].link # job[r].link
      /\ pc[o] \in {"account", "join"} => job[o].member # job[r].member
      /\ pc[r] \in {"account", "join"} => job[o].member # job[r].member
  BY DEF IInv, OwnIds
<1>3. Inviting(o)'
  BY <1>0, <1>1, <1>2 DEF Sound, Inviting, RowsStep
<1>4. Linking(o)'
  BY <1>0, <1>1, <1>2 DEF Sound, Linking, RowsStep
<1>5. Knowing(o)'
  <2>1. \A i \in Invitation : invitation[i].st # "new" => invitation'[i].st # "new"
    BY <1>0 DEF RowsStep
  <2>2. pc[o] \in {"account", "join"} => Pending(job[o].invitation)'
    BY <1>0, <1>1 DEF Sound, Knowing, Holding, RowsStep, Pending
  <2>3. pc[o] \in {"account", "join"} => member'[job[o].member].st = "new"
    BY <1>0, <1>2 DEF Sound, Knowing, RowsStep
  <2>4. pc[o] = "toggle" => member'[job[o].member].st # "new"
    BY <1>0 DEF Sound, Knowing, RowsStep
  <2> QED BY <1>0, <1>1, <2>1, <2>2, <2>3, <2>4 DEF Sound, Knowing
<1>6. (Holding(o) => lock[job[o].invitation] = o)'
  <2>1. SUFFICES ASSUME Holding(o) PROVE lock'[job[o].invitation] = o
    BY <1>1 DEF Holding
  <2>2. job[o].invitation \in Invitation /\ lock[job[o].invitation] = o
    BY <1>0, <2>1 DEF Sound, Holding, Knowing
  <2>3. ~(Insert(r) /\ job[o].invitation = job[r].fresh)
    <3>1. Insert(r) => invitation[job[r].fresh].st = "new" /\ job[r].fresh # None
      BY DEF IInv, JobsMakeSense, Inviting, Insert
    <3>2. \/ job[o].invitation = job[o].fresh /\ job[o].fresh # None
          \/ invitation[job[o].invitation].st # "new"
      BY <1>0, <2>1, <2>2 DEF Sound, Holding, Knowing, Pending
    <3> QED BY <1>2, <3>1, <3>2
  <2> QED BY <1>1, <2>2, <2>3
<1> QED BY <1>3, <1>4, <1>5, <1>6 DEF Sound

LEMMA EndSound ==
  ASSUME TypeOK, NEW r \in Req, End(r) PROVE Sound(r)'
BY DEF End, TypeOK, Sound, Inviting, Linking, Knowing, Holding

LEMMA OwnSound ==
  ASSUME IInv, NEW r \in Req, Begins(r) \/ GoesOn(r) \/ Ends(r)
  PROVE  Sound(r)'
<1>0. TypeOK /\ Sound(r) /\ Typed(r) /\ r # None /\ RowsWhole
  BY JobFields DEF IInv, JobsMakeSense, RowsAreHeld, Sound
<1>1. CASE End(r)
  BY <1>0, <1>1, EndSound
<1>2. ASSUME NEW c \in Company, NEW e \in Email, NEW i \in Invitation, NEW l \in Link,
             Invite(r, c, e, i, l)
      PROVE  Sound(r)'
  BY <1>0, <1>2 DEF Invite, TypeOK, NoJob, Unused, Undrawn, Sound, Inviting, Linking,
                    Knowing, Holding
<1>3. ASSUME NEW i \in Invitation, NEW l \in Link, Resend(r, i, l) PROVE Sound(r)'
  BY <1>0, <1>3 DEF Resend, TypeOK, NoJob, Undrawn, Pending, Sound, Inviting, Linking,
                    Knowing, Holding
<1>4. ASSUME NEW l \in Link, NEW m \in Member, OpenLink(r, l, m) PROVE Sound(r)'
  <2>1. PICK i \in Invitation :
          /\ Pending(i)
          /\ lock' = [lock EXCEPT ![i] = r]
          /\ job' = [job EXCEPT ![r] = [NoJob EXCEPT !.op = "accept", !.invitation = i,
                                                     !.member = m]]
    BY <1>4 DEF OpenLink, Usable
  <2>2. /\ pc'[r] = "account" /\ job'[r].invitation = i /\ job'[r].member = m
        /\ job'[r].op = "accept" /\ lock'[i] = r
        /\ invitation' = invitation /\ member' = member /\ member[m].st = "new"
    BY <1>0, <1>4, <2>1 DEF OpenLink, TypeOK, NoJob, Unborn
  <2> QED BY <2>1, <2>2 DEF Sound, Inviting, Linking, Knowing, Holding, Pending
<1>5. ASSUME NEW m \in Member, NEW active \in BOOLEAN, ReadMember(r, m, active)
      PROVE  Sound(r)'
  BY <1>0, <1>5 DEF ReadMember, TypeOK, NoJob, Present, Sound, Inviting, Linking,
                    Knowing, Holding
<1>6. CASE ~End(r) /\ FindPending(r)
  <2>1. CASE pc'[r] = "insert"
    <3>1. pc[r] = "find" /\ UNCHANGED <<job, invitation, mail>>
      BY <1>6, <2>1, <1>0 DEF FindPending, TypeOK
    <3> QED BY <1>0, <2>1, <3>1 DEF Sound, Inviting, Linking, Knowing, Holding
  <2>2. CASE pc'[r] # "insert"
    <3>1. PICK i \in PendingOf(job[r].company, job[r].email) :
            job' = [job EXCEPT ![r].invitation = i] /\ pc' = [pc EXCEPT ![r] = "refresh"]
      BY <1>6, <2>2, <1>0 DEF FindPending, TypeOK
    <3>2. i \in Invitation /\ invitation[i].st # "new"
      BY <3>1 DEF PendingOf, Pending
    <3>3. /\ pc[r] = "find" /\ pc'[r] = "refresh" /\ UNCHANGED <<invitation, mail>>
          /\ job'[r] = [job[r] EXCEPT !.invitation = i]
      BY <1>0, <1>6, <3>1 DEF FindPending, TypeOK
    <3>4. /\ job'[r].invitation = i /\ job'[r].op = job[r].op /\ job'[r].fresh = job[r].fresh
          /\ job'[r].company = job[r].company /\ job'[r].email = job[r].email
          /\ job'[r].link = job[r].link
      BY <1>0, <3>3 DEF Typed, JobType
    <3> QED BY <1>0, <3>2, <3>3, <3>4 DEF Sound, Inviting, Linking, Knowing, Holding
  <2> QED BY <2>1, <2>2
<1>7. CASE ~End(r) /\ Insert(r)
  <2>1. /\ pc[r] = "insert" /\ pc'[r] = "mail" /\ UNCHANGED <<invitation, mail>>
        /\ job'[r] = [job[r] EXCEPT !.invitation = job[r].fresh]
        /\ lock' = [lock EXCEPT ![job[r].fresh] = r]
    BY <1>0, <1>7 DEF Insert, TypeOK
  <2>2. /\ job'[r].invitation = job[r].fresh /\ job'[r].op = job[r].op
        /\ job'[r].fresh = job[r].fresh /\ job'[r].link = job[r].link
        /\ job'[r].company = job[r].company /\ job'[r].email = job[r].email
    BY <1>0, <2>1 DEF Typed, JobType
  <2>3. job[r].fresh \in Invitation /\ lock'[job[r].fresh] = r
    BY <1>0, <2>1 DEF Sound, Inviting, TypeOK
  <2> QED BY <1>0, <2>1, <2>2, <2>3 DEF Sound, Inviting, Linking, Knowing, Holding
<1>8. CASE Refresh(r)
  <2>1. /\ pc[r] = "refresh" /\ pc'[r] = "mail" /\ UNCHANGED <<invitation, mail, job>>
        /\ lock' = [lock EXCEPT ![job[r].invitation] = r]
    BY <1>0, <1>8 DEF Refresh, TypeOK
  <2>2. lock'[job[r].invitation] = r
    BY <1>0, <2>1 DEF Sound, Knowing, TypeOK
  <2> QED BY <1>0, <2>1, <2>2 DEF Sound, Inviting, Linking, Knowing, Holding
<1>9. ASSUME NEW sent \in BOOLEAN, Mail(r, sent), ~End(r) PROVE Sound(r)'
  <2>1. /\ pc[r] = "mail" /\ UNCHANGED <<invitation, job, lock>>
        /\ pc'[r] = IF job[r].op = "invite" THEN "commit" ELSE "save"
        /\ sent \/ job[r].op = "invite"
    <3>1. job[r].op \in {"invite", "resend"} /\ pc[r] = "mail"
      BY <1>0, <1>9 DEF Sound, Knowing, Mail
    <3> QED BY <1>0, <1>9, <3>1 DEF Mail, TypeOK
  <2>2. job[r].link \in Link
    BY <1>0, <2>1 DEF Sound, Linking
  <2>3. mail'[job[r].link] = IF sent THEN "sent"
                             ELSE IF job[r].op = "invite" THEN "unsent" ELSE "lost"
    BY <1>0, <1>9, <2>2 DEF Mail, TypeOK
  <2> QED BY <1>0, <2>1, <2>2, <2>3 DEF Sound, Inviting, Linking, Knowing, Holding
<1>10. CASE FindUser(r)
  <2>1. /\ pc[r] = "account" /\ pc'[r] = "join" /\ UNCHANGED <<invitation, member, lock>>
        /\ job'[r].invitation = job[r].invitation /\ job'[r].op = job[r].op
        /\ job'[r].member = job[r].member
    BY <1>0, <1>10 DEF FindUser, TypeOK, JobType
  <2> QED BY <1>0, <2>1 DEF Sound, Inviting, Linking, Knowing, Holding, Pending
<1>11. Ends(r) => End(r)
  BY DEF Ends, CommitInvite, SaveLink, Join, SetActive, Fail
<1> QED
  BY <1>1, <1>2, <1>3, <1>4, <1>5, <1>6, <1>7, <1>8, <1>9, <1>10, <1>11 DEF Begins, GoesOn


LEMMA OutsideSound ==
  ASSUME IInv, Outside, NEW r \in Req
  PROVE  Sound(r)'
<1>0. TypeOK /\ Sound(r)
  BY DEF IInv, JobsMakeSense, RowsAreHeld, Sound
<1>1. CASE \E i \in Invitation : Cancel(i)
  <2>1. PICK i \in Invitation : Cancel(i)
    BY <1>1
  <2>2. Holding(r) => job[r].invitation # i
    BY <2>1 DEF IInv, RowsAreHeld, Cancel, Free
  <2>3. \A j \in Invitation : j # i => invitation'[j] = invitation[j]
    BY <1>0, <2>1 DEF Cancel, TypeOK
  <2>4. invitation[i].st # "new" /\ invitation'[i].st # "new"
    BY <1>0, <2>1 DEF Cancel, Pending, TypeOK, InvitationType
  <2> QED
    BY <1>0, <2>1, <2>2, <2>3, <2>4
    DEF Cancel, Sound, Inviting, Linking, Knowing, Holding, Pending
<1>2. CASE \E m \in Member : RemoveMember(m)
  <2>1. PICK m \in Member : RemoveMember(m)
    BY <1>2
  <2>2. \A n \in Member : member'[n].st = "new" <=> member[n].st = "new"
    BY <1>0, <2>1 DEF RemoveMember, Present, TypeOK, MemberType
  <2> QED
    BY <1>0, <2>1, <2>2
    DEF RemoveMember, Sound, Inviting, Linking, Knowing, Holding, Pending
<1>3. CASE \E l \in Link : Expire(l)
  BY <1>0, <1>3 DEF Expire, Sound, Inviting, Linking, Knowing, Holding, Pending
<1> QED BY <1>1, <1>2, <1>3 DEF Outside

LEMMA NextSound == IInv /\ Next => JobsMakeSense' /\ RowsAreHeld'
<1> SUFFICES ASSUME IInv, Next, NEW o \in Req PROVE Sound(o)'
  BY DEF JobsMakeSense, RowsAreHeld, Sound
<1>1. CASE Outside
  BY <1>1, OutsideSound
<1>2. ASSUME NEW r \in Req, Begins(r) \/ GoesOn(r) \/ Ends(r) PROVE Sound(o)'
  BY <1>2, OwnSound, OthersSound
<1> QED BY <1>1, <1>2, NextCases

\* The ids and links a request reserved are its own: it takes those that no
\* other has, keeps them, and lets them go when it ends.
LEMMA NextOwnIds == IInv /\ Next => OwnIds'
<1> SUFFICES ASSUME IInv, Next PROVE OwnIds'
  OBVIOUS
<1>0. TypeOK /\ OwnIds
  BY DEF IInv
<1>1. CASE UNCHANGED <<pc, job>>
  BY <1>0, <1>1 DEF OwnIds
<1>2. ASSUME NEW r \in Req, Begins(r) \/ GoesOn(r) \/ Ends(r) PROVE OwnIds'
  <2> DEFINE Keeps(j) ==
        /\ \A o \in Req : o # r =>
             /\ j.fresh # None => j.fresh # job[o].fresh
             /\ j.link # None => j.link # job[o].link
             /\ pc'[r] \in {"account", "join"} => j.member # job[o].member
             /\ pc[o] \in {"account", "join"} => j.member # job[o].member
  <2>1. \A o \in Req : o # r => pc'[o] = pc[o] /\ job'[o] = job[o]
    BY <1>2, OthersKeep
  <2>2. Keeps(job'[r])
    <3>0. Typed(r) /\ \A o \in Req : Typed(o) /\ Knowing(o)
      BY <1>0, JobFields DEF IInv, JobsMakeSense
    <3>1. CASE End(r)
      BY <1>0, <3>0, <3>1 DEF End, NoJob, TypeOK, Knowing
    <3>2. CASE GoesOn(r) /\ ~End(r)
      <4>1. /\ job'[r].fresh = job[r].fresh /\ job'[r].link = job[r].link
            /\ job'[r].member = job[r].member
        BY <1>0, <3>0, <3>2
        DEF GoesOn, FindPending, Insert, Refresh, Mail, FindUser, TypeOK, JobType
      <4>2. pc'[r] \in {"account", "join"} => pc[r] \in {"account", "join"}
        BY <1>0, <3>2 DEF GoesOn, FindPending, Insert, Refresh, Mail, FindUser, TypeOK
      <4> QED BY <1>0, <4>1, <4>2 DEF OwnIds
    <3>3. ASSUME NEW c \in Company, NEW e \in Email, NEW i \in Invitation, NEW l \in Link,
                 Invite(r, c, e, i, l)
          PROVE  Keeps(job'[r])
      BY <1>0, <3>0, <3>3 DEF Invite, Unused, Undrawn, NoJob, TypeOK, Knowing
    <3>4. ASSUME NEW i \in Invitation, NEW l \in Link, Resend(r, i, l)
          PROVE  Keeps(job'[r])
      BY <1>0, <3>0, <3>4 DEF Resend, Undrawn, NoJob, TypeOK, Knowing
    <3>5. ASSUME NEW l \in Link, NEW m \in Member, OpenLink(r, l, m)
          PROVE  Keeps(job'[r])
      <4>1. job'[r].fresh = None /\ job'[r].link = None /\ job'[r].member = m
        BY <1>0, <3>5 DEF OpenLink, NoJob, TypeOK
      <4> QED BY <3>5, <4>1 DEF OpenLink, Unborn
    <3>6. ASSUME NEW m \in Member, NEW active \in BOOLEAN, ReadMember(r, m, active)
          PROVE  Keeps(job'[r])
      BY <1>0, <3>0, <3>6 DEF ReadMember, Present, NoJob, TypeOK, Knowing
    <3>7. Ends(r) => End(r)
      BY DEF Ends, CommitInvite, SaveLink, Join, SetActive, Fail
    <3> QED BY <1>2, <3>1, <3>2, <3>3, <3>4, <3>5, <3>6, <3>7 DEF Begins
  <2> QED BY <1>0, <2>1, <2>2 DEF OwnIds
<1>3. Outside => UNCHANGED <<pc, job>>
  BY DEF Outside, Cancel, RemoveMember, Expire
<1> QED BY <1>1, <1>2, <1>3, NextCases

-----------------------------------------------------------------------------
(* The rows. *)

\* Whatever the step, rows keep what they are about, and closed ones stay so.
RowsKeep ==
  /\ \A i \in Invitation : invitation[i].st # "new" =>
       /\ invitation'[i].st # "new"
       /\ invitation'[i].company = invitation[i].company
       /\ invitation'[i].email = invitation[i].email
       /\ invitation[i].st # "pending" => invitation'[i].st = invitation[i].st
  /\ \A m \in Member : member[m].st # "new" =>
       /\ member'[m].st # "new"
       /\ member'[m].via = member[m].via
       /\ member'[m].company = member[m].company
       /\ member'[m].email = member[m].email
  /\ \A m \in Member : member[m].st = "gone" => member'[m].st = "gone"
  /\ users \subseteq users'

LEMMA NextRowsKeep == IInv /\ Next => RowsKeep
<1> SUFFICES ASSUME IInv, Next PROVE RowsKeep
  OBVIOUS
<1>1. CASE Outside
  BY <1>1 DEF IInv, Outside, Cancel, RemoveMember, Expire, Pending, Present, RowsKeep,
              TypeOK, InvitationType, MemberType
<1>2. ASSUME NEW r \in Req, Begins(r) \/ GoesOn(r) \/ Ends(r) PROVE RowsKeep
  BY <1>2, RequestRows DEF RowsStep, RowsKeep
<1> QED BY <1>1, <1>2, NextCases

\* A membership is born by an acceptance of an invitation that was pending.
LEMMA MembersBorn ==
  ASSUME IInv, Next, NEW m \in Member, member[m].st = "new", member'[m].st # "new"
  PROVE  \E i \in Invitation :
           /\ Pending(i) /\ invitation'[i].st = "accepted"
           /\ member'[m].via = i
           /\ member'[m].company = invitation'[i].company
           /\ member'[m].email = invitation'[i].email
           /\ invitation'[i].email \in users'
           /\ \A n \in Member : n # m => member'[n] = member[n]
<1>0. TypeOK
  BY DEF IInv
<1>1. PICK r \in Req : Join(r) /\ m = job[r].member
  <2>1. ~Outside
    BY <1>0 DEF Outside, Cancel, RemoveMember, Expire, Present, TypeOK
  <2>2. PICK r \in Req : Begins(r) \/ GoesOn(r) \/ Ends(r)
    BY <2>1, NextCases
  <2>3. RowsStep(r)
    BY <2>2, RequestRows
  <2>4. m = job[r].member /\ pc[r] \in {"account", "join"}
    BY <2>3 DEF RowsStep
  <2>5. member' # member
    BY <1>0
  <2>6. Join(r)
    BY <2>2, <2>4, <2>5
    DEF Begins, Invite, Resend, OpenLink, ReadMember, GoesOn, FindPending, Insert, Refresh,
        Mail, FindUser, Ends, CommitInvite, SaveLink, SetActive, Fail
  <2> QED BY <2>4, <2>6
<1> DEFINE i == job[r].invitation
<1>2. pc[r] = "join" /\ i \in Invitation /\ Pending(i)
  BY <1>1 DEF IInv, JobsMakeSense, Knowing, Join
<1>3. /\ invitation'[i].st = "accepted"
      /\ invitation'[i].company = invitation[i].company
      /\ invitation'[i].email = invitation[i].email
  BY <1>0, <1>1, <1>2 DEF Join, TypeOK, InvitationType
<1>4. member' = [member EXCEPT ![m] = [st |-> "active", company |-> invitation[i].company,
                                       email |-> invitation[i].email, via |-> i]]
  BY <1>0, <1>1 DEF Join
<1>5. invitation[i].email \in users'
  BY <1>1 DEF Join
<1> QED BY <1>0, <1>2, <1>3, <1>4, <1>5 DEF TypeOK

LEMMA NextRowsWhole == IInv /\ Next => RowsWhole'
<1> SUFFICES ASSUME IInv, Next PROVE RowsWhole'
  OBVIOUS
<1>0. TypeOK /\ RowsWhole /\ RowsKeep
  BY NextRowsKeep DEF IInv
<1> DEFINE Whole(row) ==
      row.company \in Company /\ row.email \in Email /\ row.link \in Link
<1>1. ASSUME NEW i \in Invitation, invitation'[i].st # "new" PROVE Whole(invitation'[i])
  <2>0. invitation[i].st # "new" => Whole(invitation[i])
    BY <1>0 DEF RowsWhole
  <2>1. CASE invitation' = invitation
    BY <1>1, <2>0, <2>1
  <2>2. CASE Outside
    BY <1>0, <1>1, <2>0, <2>2
    DEF Outside, Cancel, RemoveMember, Expire, Pending, TypeOK, InvitationType
  <2>3. ASSUME NEW r \in Req, CommitInvite(r) PROVE Whole(invitation'[i])
    <3>1. /\ job[r].link \in Link
          /\ job[r].company \in Company /\ job[r].email \in Email
      BY <2>3 DEF CommitInvite, IInv, JobsMakeSense, Inviting, Linking, Knowing
    <3>2. \/ invitation'[i] = invitation[i]
          \/ invitation'[i] = [st |-> "pending", company |-> job[r].company,
                               email |-> job[r].email, link |-> job[r].link]
          \/ invitation'[i] = [invitation[i] EXCEPT !.link = job[r].link]
      BY <1>0, <2>3 DEF CommitInvite, TypeOK
    <3> QED BY <1>0, <1>1, <2>0, <3>1, <3>2 DEF TypeOK, InvitationType
  <2>4. ASSUME NEW r \in Req, SaveLink(r) PROVE Whole(invitation'[i])
    <3>1. job[r].link \in Link
      BY <2>4 DEF SaveLink, IInv, JobsMakeSense, Linking
    <3>2. \/ invitation'[i] = invitation[i]
          \/ invitation'[i] = [invitation[i] EXCEPT !.link = job[r].link]
      BY <1>0, <2>4 DEF SaveLink, TypeOK
    <3> QED BY <1>0, <1>1, <2>0, <3>1, <3>2 DEF TypeOK, InvitationType
  <2>5. ASSUME NEW r \in Req, Join(r) PROVE Whole(invitation'[i])
    <3>1. \/ invitation'[i] = invitation[i]
          \/ Pending(i) /\ invitation'[i] = [invitation[i] EXCEPT !.st = "accepted"]
      BY <1>0, <2>5 DEF Join, IInv, JobsMakeSense, Knowing, TypeOK
    <3> QED BY <1>0, <1>1, <2>0, <3>1 DEF Pending, TypeOK, InvitationType
  <2>6. ASSUME NEW r \in Req, Begins(r) \/ GoesOn(r) \/ SetActive(r) \/ Fail(r)
        PROVE  invitation' = invitation
    BY <2>6 DEF Begins, Invite, Resend, OpenLink, ReadMember, GoesOn, FindPending, Insert,
                Refresh, Mail, FindUser, SetActive, Fail
  <2> HIDE DEF Whole
  <2> QED BY <2>1, <2>2, <2>3, <2>4, <2>5, <2>6, NextCases DEF Ends
<1>2. ASSUME NEW m \in Member, member'[m].st # "new" PROVE member'[m].via \in Invitation
  <2>1. CASE member[m].st = "new"
    BY <1>2, <2>1, MembersBorn
  <2>2. CASE member[m].st # "new"
    BY <1>0, <2>2 DEF RowsKeep, RowsWhole
  <2> QED BY <2>1, <2>2
<1> QED BY <1>1, <1>2 DEF RowsWhole

LEMMA NextOnlyByAccepting == IInv /\ Next => OnlyByAccepting'
<1> SUFFICES ASSUME IInv, Next, NEW m \in Member, member'[m].st # "new"
             PROVE  LET i == invitation'[member'[m].via] IN
                    /\ i.st = "accepted"
                    /\ i.company = member'[m].company /\ i.email = member'[m].email
                    /\ i.email \in users'
  BY DEF OnlyByAccepting
<1>1. CASE member[m].st = "new"
  BY <1>1, MembersBorn
<1>2. CASE member[m].st # "new"
  BY <1>2, NextRowsKeep DEF IInv, OnlyByAccepting, RowsKeep, RowsWhole
<1> QED BY <1>1, <1>2

LEMMA NextLinkOpensOnce == IInv /\ Next => LinkOpensOnce'
<1> SUFFICES ASSUME IInv, Next, NEW m1 \in Member, NEW m2 \in Member, m1 # m2,
                    member'[m1].st # "new", member'[m2].st # "new",
                    member'[m1].via = member'[m2].via
             PROVE  FALSE
  BY DEF LinkOpensOnce
<1>0. \A m \in Member : member[m].st # "new" => ~Pending(member[m].via)
  BY DEF IInv, OnlyByAccepting, Pending
<1>1. CASE member[m1].st # "new" /\ member[m2].st # "new"
  BY <1>1, NextRowsKeep DEF IInv, LinkOpensOnce, RowsKeep
<1>2. ASSUME NEW m \in Member, NEW n \in Member, m # n, member[m].st = "new",
             member'[m].st # "new", member'[n].st # "new"
      PROVE  member'[n].via # member'[m].via
  <2>1. PICK i \in Invitation : /\ Pending(i) /\ member'[m].via = i
                                /\ \A k \in Member : k # m => member'[k] = member[k]
    BY <1>2, MembersBorn
  <2> QED BY <1>0, <1>2, <2>1
<1> QED BY <1>1, <1>2

\* Only the link of the request that mails changes, and none that waits has it.
LEMMA NextWaitingWasMailed == IInv /\ Next => WaitingWasMailed'
<1> SUFFICES ASSUME IInv, Next, NEW i \in Invitation, Pending(i)'
             PROVE  mail'[invitation'[i].link] \in {"sent", "unsent"}
  BY DEF WaitingWasMailed
<1>0. TypeOK /\ WaitingWasMailed
  BY DEF IInv
<1>1. CASE UNCHANGED <<invitation, mail>>
  BY <1>0, <1>1 DEF WaitingWasMailed, Pending
<1>2. CASE Outside
  BY <1>0, <1>2 DEF Outside, Cancel, RemoveMember, Expire, Pending, WaitingWasMailed, TypeOK,
                    InvitationType
<1>3. ASSUME NEW r \in Req, NEW sent \in BOOLEAN, Mail(r, sent)
      PROVE  mail'[invitation'[i].link] \in {"sent", "unsent"}
  <2>1. invitation' = invitation /\ mail[job[r].link] = "none"
    BY <1>3 DEF Mail, IInv, JobsMakeSense, Linking
  <2>2. invitation[i].link # job[r].link
    BY <1>0, <2>1 DEF WaitingWasMailed, Pending
  <2>3. invitation[i].link \in Link
    BY <2>1 DEF IInv, RowsWhole, Pending
  <2>4. mail'[invitation[i].link] = mail[invitation[i].link]
    BY <1>0, <1>3, <2>2, <2>3 DEF Mail, TypeOK
  <2> QED BY <1>0, <2>1, <2>4 DEF WaitingWasMailed, Pending
<1>4. ASSUME NEW r \in Req, CommitInvite(r)
      PROVE  mail'[invitation'[i].link] \in {"sent", "unsent"}
  BY <1>0, <1>4 DEF CommitInvite, Pending, WaitingWasMailed, IInv, JobsMakeSense, Linking,
                    TypeOK, InvitationType
<1>5. ASSUME NEW r \in Req, SaveLink(r)
      PROVE  mail'[invitation'[i].link] \in {"sent", "unsent"}
  BY <1>0, <1>5 DEF SaveLink, Pending, WaitingWasMailed, IInv, JobsMakeSense, Linking,
                    TypeOK, InvitationType
<1>6. ASSUME NEW r \in Req, Join(r)
      PROVE  mail'[invitation'[i].link] \in {"sent", "unsent"}
  BY <1>0, <1>6 DEF Join, Pending, WaitingWasMailed, TypeOK, InvitationType
<1>7. ASSUME NEW r \in Req, Begins(r) \/ FindPending(r) \/ Insert(r) \/ Refresh(r)
                            \/ FindUser(r) \/ SetActive(r) \/ Fail(r)
      PROVE  UNCHANGED <<invitation, mail>>
  BY <1>7 DEF Begins, Invite, Resend, OpenLink, ReadMember, FindPending, Insert, Refresh,
              FindUser, SetActive, Fail
<1> QED
  BY <1>1, <1>2, <1>3, <1>4, <1>5, <1>6, <1>7, NextCases DEF GoesOn, Ends


-----------------------------------------------------------------------------
LEMMA StutterIInv == IInv /\ UNCHANGED vars => IInv'
<1> SUFFICES ASSUME IInv, UNCHANGED vars PROVE IInv'
  OBVIOUS
<1>1. TypeOK' /\ RowsWhole' /\ WaitingWasMailed' /\ OnlyByAccepting' /\ LinkOpensOnce'
  BY DEF IInv, vars, TypeOK, RowsWhole, WaitingWasMailed, OnlyByAccepting, LinkOpensOnce,
         Pending
<1>2. JobsMakeSense' /\ RowsAreHeld' /\ OwnIds'
  BY DEF IInv, vars, JobsMakeSense, RowsAreHeld, OwnIds, Inviting, Linking, Knowing,
         Holding, Pending
<1> QED BY <1>1, <1>2 DEF IInv

\* The invariant of the requests holds of every reachable state.
THEOREM Invariance == Spec => []IInv
<1>1. IInv /\ [Next]_vars => IInv'
  <2>1. IInv /\ Next => IInv'
    BY NextTypeOK, NextSound, NextOwnIds, NextRowsWhole, NextOnlyByAccepting,
       NextLinkOpensOnce, NextWaitingWasMailed
    DEF IInv
  <2> QED BY <2>1, StutterIInv
<1> QED BY InitIInv, <1>1, PTL DEF Spec

\* Every row and every request has its shape, for any size of the team.
THEOREM InvitationsTypeOK == Spec => []TypeOK
<1>1. IInv => TypeOK
  BY DEF IInv
<1> QED BY <1>1, Invariance, PTL

\* Whoever is in a company came in by an invitation of it, accepted
\* (cancel_invitation: never one that is cancelled).
THEOREM MembersCameByAccepting == Spec => []OnlyByAccepting
<1>1. IInv => OnlyByAccepting
  BY DEF IInv
<1> QED BY <1>1, Invariance, PTL

\* A link lets in one person, once (accept_invitation).
THEOREM LinksOpenOnce == Spec => []LinkOpensOnce
<1>1. IInv => LinkOpensOnce
  BY DEF IInv
<1> QED BY <1>1, Invariance, PTL

\* No invitation waits without its e-mail having been tried
\* (invite_collaborators, resend_invitation).
THEOREM InvitationsWereMailed == Spec => []WaitingWasMailed
<1>1. IInv => WaitingWasMailed
  BY DEF IInv
<1> QED BY <1>1, Invariance, PTL

\* What was accepted or cancelled stays so (INVITATION_TRANSITIONS).
THEOREM ClosedInvitationsStay == Spec => ClosedStaysClosed
<1>1. IInv /\ [Next]_vars =>
        [\A i \in Invitation :
           invitation[i].st \in {"accepted", "cancelled"} =>
             invitation'[i].st = invitation[i].st]_vars
  BY NextRowsKeep DEF RowsKeep
<1> QED BY <1>1, Invariance, PTL DEF Spec, ClosedStaysClosed

\* No step brings back a membership that was removed (remove_member).
THEOREM RemovedMembersStayOut == Spec => RemovedStaysOut
<1>1. IInv /\ [Next]_vars =>
        [\A m \in Member : member[m].st = "gone" => member'[m].st = "gone"]_vars
  BY NextRowsKeep DEF RowsKeep
<1> QED BY <1>1, Invariance, PTL DEF Spec, RemovedStaysOut


=============================================================================
