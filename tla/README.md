# Presuplano backend: a verification project

Presuplano (Itzaka) is the backend of an application for contractors: they quote
jobs, turn a quote into a project, record progress with photographs, collect
payments, hand work out to their people, and invite collaborators. It is Django
and Django REST Framework over PostgreSQL. This directory holds TLA+ modules for
its core, the TLC configurations that check them on small instances, and proofs
that TLAPS checks.

All the paths below are under `src/src/` of the repository.

## 1. How the program runs

* `core/settings.py` sets `ATOMIC_REQUESTS`: every HTTP request is one database
  transaction, committed when the view returns and rolled back by any exception.
  PostgreSQL runs at READ COMMITTED, so two requests interleave between any two
  statements, and each statement sees what was committed before it.
* A view reads the object of the request first, with no lock, and hands it to a
  service. The service locks a row with `select_for_update`, reads it again,
  checks its state (`common/state_machine.py`), and writes. **What the service
  still uses of the first read is what could be stale.**
* Two things are outside the transaction: the file storage (photographs are
  stored before their row, and deleted in `transaction.on_commit`) and the cache
  with the attempt limits, which has its own connection.
* A foreign key is `DEFERRABLE INITIALLY DEFERRED`: the database looks at
  references when a transaction commits. `PROTECT`, `CASCADE` and `SET_NULL` are
  Django's, done by the request that deletes. On PostgreSQL every table of a
  company has a policy (`common/rls.py`); the local suite, on SQLite, has none.
* There is no queue and no background worker: concurrency is requests against
  requests, and failure is a request that raises or a process that dies.

## 2. Inventory

| Component | State | Operations | Talks to | What makes it correct |
|---|---|---|---|---|
| `apps/quotes` | quote: status, folio, client; items: quantity, price, room, `from_plan` | create, update, delete, `sync_quote_with_plan` | folios, planner, projects | a quote in a project is never edited; lines follow the plan without losing those added by hand |
| `apps/projects` | project: status, quote; progress; evidence and its files | start, finalize, progress (register, update, delete), evidence (add, delete) | quotes, payments, staff, storage | one project per quote; progress fits the quote; a closed project does not move; rows have their files |
| `apps/payments` | payments of a project | register | projects, folios | no payment enters a closed project |
| `apps/staff` | workers, what they charge, assignments, payments to them | hand out, delete a hand-out, set services, pay | projects, quotes | hand-outs fit the item; work with a name has a price |
| `apps/folios` | setting per type, counter per prefix, every folio issued | assign, configure, preview | quotes, projects, payments | folios never repeat; counters leave no gaps and never fall |
| `apps/accounts` | user, letterhead and logo, one-time codes, refresh tokens, hourly quotas | sign up, verify, reset, change e-mail, refresh, log out, letterhead, delete with all rows and files | mail, cache, storage, every app | a code works once and for the address it was sent to; a closed session stays closed; a deleted account leaves nothing of its own behind (one exception, section 6), and its deletion is refused only by a race |
| `apps/team` | invitations, memberships | invite, resend, cancel, accept, suspend, remove | accounts, mail | an invitation is accepted once, never after it is cancelled |
| `apps/planner` | floor plan, converted photographs | save, convert a photograph (read outside, then geometry), delete | quotes, external reader | a daily limit of conversions; the walls, doors and rooms of the plan are those of the drawing |
| `apps/assets` | binaries of the editor by path, catalogue of furniture | store, import, remove | storage | a row has its file; what an import answers as stored is there |
| `apps/catalog`, `clients`, `legal`, `leads` | plain records | create, edit, delete | quotes | what is referred to is not deleted; rows of one company refer to that company's |
| `apps/documents`, `dashboard` | none | render, sum | | no state |
| `common` | the company of a request | state machine, tenancy, row-level security, throttling | all | the state is checked on the row read under the lock; no request reaches another company's rows |
| `scripts/readme_sync.py` | a README, with blocks written from the repository | check, write, adopt | the repository | people's text is never changed; an adopted README has every block |

The hard behaviours, at their lines, are the `hazards` of `PROJECT.json`.

## 3. The modules

| Module | Models | Kind |
|---|---|---|
| `WorkRequests` | services of quotes, projects, payments and staff as concurrent requests | detailed, implements `WorkLedger` |
| `WorkLedger` | what the account is promised about a quote and its work | abstract |
| `Folios` | `assign_folio`, `configure_folios` as concurrent requests | detailed, implements `FolioBook` |
| `FolioBook` | what the account is promised about folios | abstract |
| `Invitations` | services of `apps/team` as concurrent requests | detailed |
| `EmailCodes` | one-time codes of `apps/accounts` and what they open | detailed |
| `Sessions` | sessions of `apps/accounts`: refresh tokens, passwords, the end of an account | detailed |
| `WorkItems` | the constants `WorkRequests` and `WorkLedger` share | |
| `Schema` | the tables as the migrations build them: references, unique keys, policies | operators |
| `Models` | what Django does to the rows that refer to a deleted one | operators |
| `Companies` | rows of several companies, the requests that write and delete them, `purge_account` | detailed, over `Schema` and `Models` |
| `Uploads` | files of an account and their rows, and the files of a deleted account | detailed |
| `Photos` | the daily limit of converted photographs | detailed |
| `Catalog` | the catalogue of furniture, imported by several devices | detailed |
| `QuotePlan` | the lines of a quote that follows a plan | detailed |
| `Tracing` | a photograph of a plan turned into walls, doors and rooms | pure algorithms and the two-step conversion |
| `ReadmeSync` | `scripts/readme_sync.py` | pure algorithms and the modes of the script |
| `MCParts` | `Uploads`, `Photos`, `Catalog`, `QuotePlan`, `Tracing` and `ReadmeSync`, machines that share nothing, one in each behaviour | for TLC |
| `MCWorkRequests`, `MCFolios`, `MCInvitations`, `MCEmailCodes`, `MCSessions`, `MCCompanies` | small instances | for TLC |
| `WorkLedgerProofs`, `WorkRequestsProofs`, `FoliosProofs`, `InvitationsProofs`, `EmailCodesProofs`, `SessionsProofs`, `PartsProofs`, `CompaniesProofs` | | proofs |

### WorkRequests

A request is `idle`, has `read` what it was asked about, has `locked` its row,
has `stored` a file, or has `committed` with files still to delete. Its `job`
keeps what it read before the lock (`seen`, `qty`, `worker`), the status it read
again under it (`status`), and `counted` what the service added up then. The
steps follow the code:

* `ReadQuote`, `ReadProject`, `ReadItem`, `ReadEntry`, `ReadPhoto`: the view's
  `get_object`, and the id validated by the serializer.
* `LockRow`: `lock_quote`, `lock_project`. It waits while another holds the
  row. `Count` is what the service sums after it: `_pending`, what was handed
  out, `pending_balance`. Writers of those rows hold the same lock, save
  `AssignmentViewSet.destroy`, which only lowers what was handed out.
* One action per service, guarded by its checks in their order and ending in
  `Commit`: `UpdateQuote`, `DeleteQuote`, `StartProject`, `FinalizeProject`,
  `RegisterProgress`, `UpdateProgress`, `DeleteProgress`, `StorePhoto` then
  `AddEvidence`, `DeleteEvidence`, `RegisterPayment`, `AssignService`.
* `CreateQuote`, `DeleteAssignment`, `SetWorkerServices` touch rows nobody
  locks, and are one step.
* `Rollback` is every error. `Die` is a process that stops: the database undoes
  what was not committed, and files not yet deleted stay. `DropFiles` is
  `on_commit`.

`UpdateProgress` deserves a note: the service compares the person it is sent
with `progress.worker_id` as it was read before the lock, and saves with
`update_fields`. `CorrectedLabor` compares with `job.worker` and `Save` needs the
row to be there, as in the code; section 6 says what follows.

The refinement: a quote's `stage` is `work` or `closed` by the status of its
project; `advanced`, `handed`, `earned` and `paid` are the sums over entries,
shares and payments (`Stages`, `AdvancedOf`, `HandedOf`, `EarnedOf`, `PaidOf`,
`WaivedOf`).

### Folios

`Begin` reads the setting (no lock), `LockCounter` is `_locked_counter`, `Draw`
and `CountOn` choose the next candidate, `Register` is the insert under the
unique index, which waits for an uncommitted insert of the same folio and fails
on a committed one, `Commit` is the end of the document's transaction, `Undo` an
error or a dead process at any point, `GiveUp` the error after `AUTO_ATTEMPTS`
draws. A folio is a prefix and a suffix. In the code a random suffix has letters and digits and
can be all digits, so the two modes can write one folio: in the model a suffix
may be a number. Old documents take part with folios given before
(`legacy.py`), registered as issued.

`FolioBook` has only the documents' folios and the counters: a document takes
at once a folio nobody had, in its prefix the first free number after the
counter.

### Invitations

An invitation is a row with a status and the link it has now; a link is drawn by
one request, `mail` says whether its e-mail went out, and `late` which links are
past their date. A membership remembers the invitation it came by, which the
database does not: the properties need it.

* `Invite` (`is_member`), `FindPending` (`pending_invitation`), then `Insert`
  under the unique index of pending invitations or `Refresh` (`_refresh_link`, an
  update of a row read with no lock), then `Mail`, then `CommitInvite`: the
  e-mail leaves before the transaction commits.
* `Resend`, `Mail`, `SaveLink`: the e-mail leaves before the row is locked and
  read again, and one that does not go out ends the request.
* `OpenLink` (`find_invitation` with the row locked, `_ensure_usable`),
  `FindUser`, `Join` (account, `get_or_create` of the membership, status).
* `ReadMember` then `SetActive`; `RemoveMember` and `Cancel`, which read under
  the lock they write with, are one step.
* `Fail` is every error and a dead process: e-mails already sent stay sent.

A row that a request inserted or updated is held until it ends (`lock`). A list
of addresses, and a bulk action, is a request for each. The operator of the platform
may add a membership without any invitation (`team/admin.py`): what the module says
of how somebody came in is of the services.

### EmailCodes

One account (`user`), its codes numbered as they are created (`code`, `last`),
those past their time (`late`), and who holds the row of each code and of the
account. A request's `job` keeps the address it is about, as authentication read it,
the codes its statement saw (`seen`) and the one it creates or opens with.

* Codes sent: `RequestEmailChange` then `SavePending` (the update of
  `pending_email`), `ResendEmailChange`, `SendCode` (`resend_otp`, `login_user`,
  `start_password_reset`). All go through `issue_otp`: `Void` is the snapshot of the
  update that voids the codes there are, `Issue` its wait for the rows others
  hold and the new code, a draft till `Commit`. Two requests that issue at once
  do not see each other's code, so both may live.
* `CancelEmailChange` locks the account and reads it again, then `Void` and `Clear`.
* Codes answered (`verify_account`, `reset_password`, `confirm_email_change`):
  `Look` is the snapshot of `_live_code`, `Match` its `select_for_update` when the
  code typed is the right one, `Miss` when it is not and the attempt is counted,
  `NoLiveCode` when there is none left; `Open` saves the account.
* `Fail` is every error (the quota, an address another account took, a weak
  password) and a dead process; `Deadlock` is the same for a request that waits for another that
  waits for it, and is named because PostgreSQL does end one of the two.

### Sessions

One account: the hash of its `password` (`None` once it is deleted), its refresh
tokens numbered as they are committed, the blacklist (`closed`), and three counters of
time: accesses and tokens that expired, tokens that were flushed. A token has its
fingerprint, the token it replaced, and `proof`, the hash its first sign-in was
checked with, which the code does not keep and `KnowsThePassword` needs.

* `SignIn` reads the account and checks the credential, `OpenSession` issues the
  token with the fingerprint that was read then.
* `Refresh` is `SessionRefreshSerializer`, `Validate` simplejwt's second look,
  `CloseToken` the `get_or_create` in the blacklist, which waits for another of the
  same token and goes on when it is there, and `Rotate` the commit with the new token.
  So two renewals of one token that pass the check together both succeed.
  `Logout`, `CloseToken`, `Leave` is logging out.
* `ChangePassword` or `ResetPassword`, then `SavePassword` (holds the account's row),
  `ListSessions` and `ShutSessions` (`end_all_sessions`), `CommitPassword`.
  `AdminPassword` is the admin's form, which closes no session. A hash is salted, so it is
  like no other (`NewHash`).
* `DeleteAccount` or `AdminDelete`, `Erase`, `Gone`: a token issued
  after `Erase` still names the account, and PostgreSQL refuses the deletion at its commit.
* `FlushExpired` is the daily cron. A `bulk_create` of rows it deleted fails whole.

What simplejwt does is modelled from its use and its settings here (`SIMPLE_JWT`).
The rows of `ShutSessions` are taken at once, when all are free; PostgreSQL takes
them one by one, which makes others wait longer and changes nothing that is committed.

### Schema, Models, Companies

`Schema` lists the migrations, app by app and in the order of their dependencies,
as operations on a map of tables (`Create`, `AddRef`, `AddOnce`, `Isolate`), and
computes the tables there are. `Models` is the other half, what each `on_delete`
says. Four ASSUMEs relate them, which TLC evaluates in run `companies`: the migrations
leave the tables the models declare (`ModelsAreMigrated`); columns of one name refer to
one table, and only four may be empty (`ReferencesAreNamed`); a policy goes from a row to
its parent, whose policy is the rest of it, and ends at the account
(`PoliciesReachTheAccount`); and the tables without a policy are those that
`common/rls.py` lists as shared, and refer to accounts only (`SharedTablesAreKnown`). `Companies` is requests over them. A row is named by its table and its
company, and carries for each column the company of the row it refers to, so a
reference across companies is one a property can see.

* `Enter` finds the company of the request (`account_of`: the header, or the one
  the person works for) and sets the context of the policies.
* `Insert` writes a row whose references are among those `Found` gives
  (`OwnedPrimaryKeyRelatedField`), and which its policy passes.
* `DeleteRow` is `delete_client`, `delete_tariff`, `delete_plans`; `BeginPurge`
  and `PurgeStep` are `purge_account`, one table at a time in `PurgeOrder`. Each
  collects what `CASCADE` takes along, is refused by what `PROTECT` names
  (`Collect`), and then deletes (`Apply`), having waited for rows others hold.
* `Commit` checks the references; `Dangling` is a 500 for the request and leaves
  the rows as they were. `Join` and `Toggle` are the team.

`postgres` is chosen at the start: with policies, or as the local suite.

### Uploads

A request stores its file, then writes its row, and commits; in between other
requests do the same, delete photographs or delete the account. `folder` is the
letterhead that names the directory of logos and binaries (`organization_id_for`
creates it when there is none), or the folder of the photographs. `BeginLogo`
reads the letterhead whole and `SaveLogo` writes it whole: what it writes
back may be an older logo. `PurgeList`, `PurgeRows`, `PurgeCommit`, `RemoveFiles`
are `purge_account` with its files: what it lists are the files the rows name and
the two folders whole, that of the letterhead if there is one by then. `swept`
remembers of a deletion which letterhead it listed and which the account had in
the end, so that `SweptClean` can say where they differ (section 6). `Fail` is a refusal or a dead process: the
database forgets, the storage does not.

### Photos, Catalog, QuotePlan

`Photos` counts conversions committed in the day and those being read. `Catalog`
reads the rows of a batch (`ReadModels`), and then inserts and updates them
(`StoreModels`), while others import or remove. `QuotePlan` keeps a quote's lines
in order, with what its rooms add up to; `Rewritten` is the body of
`update_quote`, which tells from the tariff alone what came from the plan, and
`Brought` that of `sync_quote_with_plan`. All hold the lock of the quote. A save from
the screen (`Edits`) may drop lines, change quantities and add one at once. Selections
are taken by their places (`Those`), about which the provers can reason, as they cannot
about `SelectSeq`.

### Tracing

`to_plan` as operators over whole pixels. `JoinWalls` groups ends that are near
into corners and then lays each loose end, one after another, on the nearest
wall; `WithDoors` closes the gap in which a door was drawn by merging two
walls; `PlaceOpenings` puts every opening on the wall that holds it;
`Doorways`, `Network` and `Faces` find the rooms: the lines of walls and of
passages as a graph, whose faces are walked turning always to the same side.
`ReadScale`, `MissingSides` and `ScaleFromMeasures` are how the scale is
known, and `Convert` is `convert_photo`: the quick reading, a question for the
measures that are missing, and the whole reading. The module's results were
compared with those of the Python code on every conversion of the instance, and
agree.

`RoomsAreTheSpaces` does not say it with the same walk: it floods the squares of
the drawing, and two squares are in one room exactly if no wall and no doorway
keeps them apart.

### ReadmeSync

`Doc` reads lines into blocks, headings and fences; `MapSections` finds the
sections of the template; `InsertMissing` adds one block after another, each over
the text the last one left; `ApplyBlocks` writes from the last to the first.
`AdoptReadme`, `WriteReadme` and `CheckReadme` are the modes, and `SourceChanges` lets the
repository change between runs.

## 4. The runs

Sizes are distinct states.

| Run | Instance | Question |
|---|---|---|
| `lifecycle` (65 880) | 2 quotes, 2 projects, 1 entry, quantity 2, 2 requests | does every interleaving of start, edit and delete leave a quote with one project and its own lines, and does every waiting request go on? |
| `project` (124 013) | 1 project, 2 entries, 1 photograph, quantity 2, payments to 2, 2 requests | does recorded work fit, does a closed project stay as it closed, do rows have their files, through crashes? |
| `staff` (133 096) | 2 people, one of them the account's own record, quantity 2, 2 requests | do hand-outs fit, does work with a name have a price? |
| `folios` (37 314) | 2 requests, 2 new documents and an old one, 2 types, 2 prefixes, 2 draws, numbers to 3 | do folios differ, do requests follow the book, do they never wait for each other? |
| `team` (64 942) | 3 requests, 2 companies, 1 address, 2 invitations, 3 links, 2 memberships | who comes in, and does each link work once, through expired links, lost e-mails and errors? |
| `codes` (140 898) | 2 requests, 2 addresses, 2 codes, 2 attempts | does a code open once, does a pending address have its code, does every request end? |
| `codes_address` | 2 requests, 3 addresses, 3 codes, 2 attempts | violation, see section 6 |
| `sessions` (2 424 962) | 2 requests, 3 tokens, 2 passwords | which sessions open, after renewals, log-outs, changes of password and flushes in any order? |
| `sessions_password` | 2 requests, 3 tokens, 3 passwords | violation, see section 6 |
| `companies` (343 862) | 2 companies and a collaborator, 2 requests, 5 tables of one and 1 of the other, with and without policies | do references stay within a company, do deletions, however they cascade, and is a purge refused only by a race? |
| `parts` (348 326) | 3 requests over 2 files; 3 conversions, limit 2; 2 devices, 2 models; a quote of 2 lines; READMEs of 4 lines; drawings | the properties of the six machines of `MCParts` |
| `quote_sync` | a quote of 2 lines, 2 tariffs | violation, see section 6 |

A type invariant is checked by TLC in run `project`, which has the largest state;
those of the other modules are proved (section 7), as are `LocksAreHeld`,
`GoneForGood`, `NoGaps`, `CounterNeverFalls`, `SpentIsDead`, `UsedIsClosed`,
`WaitingWasMailed` and the ledger's own properties, and no run repeats them.

Why the bounds are enough: each property is violated by two requests on one row
(a lost check needs one that reads early and one that writes between), or by one
request and a crash; two entries of a quantity of two let a sum pass the quote
by one; two quotes let a record hang from the wrong one; a payment up to two
against work worth up to four covers a balance that is positive, nothing and
negative. In `folios` two prefixes and two requests are what a cycle of waits
needs, an old folio in the counter's way is what makes it skip. In `team` two
companies race to create one account, three requests are an acceptance, a resend
and a cancellation of one invitation, and three links are its first, a renewed
one and another invitation's. In
`codes` one code is sent and another voids it while either is answered, and a second attempt is the last. In `sessions` two requests renew one token into two,
one renews while the other changes the password, and two passwords are what a hash that came back would need. In `companies` the account that goes has the chain client, quote, project, and
a plan that a quote may name: each kind of `on_delete` on one path; the second
company is the admin's and the other end of a reference; two requests are a
purge and a write. In `parts` two files are one that is replaced and one that
replaces it, or two first uploads at once, and the third request is the
deletion; three conversions pass a limit of two in every way; two lines of one
tariff are what a dictionary keyed by tariff loses; four lines of a README are a
section, a fence or a block opened, and something inside it. The drawings are a
house of seven walls in which up to two are missing, short, long, have a gap, a
door or a passage, and others chosen for what those do not have: a room within a room,
walls that cross, a duct, walls outside of the photograph, two passages that
cross, ends in every order. (A larger set, with three changes, was tried apart and
holds.)

`MaxQty`,
`MaxAmount`, `MaxPayments`, `MaxNumber`, `MaxCode`, `MaxToken`, `MaxPassword`, `MaxRows`, `MaxFiles`, `MaxFolders`, `MaxLines`, `MaxReadme` and the finite sets of ids are the only
bounds on what the code leaves open. Symmetry is used in runs with no liveness property
only. Deadlock is not checked where all ids may be used up and nothing is left
to do (`lifecycle`, `folios`, `team`, `codes`, `sessions`, `parts`, where a plan that came out is the end).

Each property also has a mutant of the modelled code that breaks it
(`PROJECT.json`), written beside the definition it replaces: `FreeForAll` is
`Free` without `select_for_update`, and so on.

## 5. Fairness

Only `lifecycle`, `folios` and `codes` check liveness. Weak fairness of a request that
holds its row says the server runs the requests it has accepted and that a
service that was not told of an error goes on to one. Strong fairness of the wait for a row
(`LockRow`, `LockCounter`, `Register`) says PostgreSQL serves waiting
transactions in turn, which its lock queues do; in `codes` it is of all the steps of a
request (`Proceed`). There a cycle is real: `confirm_email_change` locks a code
and then the account, `request_` and `cancel_email_change` the account and
then its codes. Weak fairness of `Deadlock` is PostgreSQL's detector. Nothing is assumed of new
requests, of clients, or of crashes.

## 6. What was found

`sync_quote_with_plan` says "What the architect added by hand is not touched"
(`apps/quotes/services.py:220-222`). The screen that edits a quote does not say
which lines are the plan's, and `update_quote` takes for such every line whose
tariff the plan measures (line 198). A line added by hand with one of those tariffs is the
plan's from then on, beside the one there is or in its place; the next synchronisation, for which the last line of a tariff is
the plan's (line 236), gives it the plan's quantity (lines 252-255). Run `quote_sync` shows it.
`SyncFollowsThePlan`, in run `parts`, says what does hold: with one plan line per tariff,
the quote has after it exactly what the plan measures.

`confirm_email_change` says of the new address "el código lo prueba"
(`apps/accounts/services.py:504`). It takes the address from the account as
authentication read it (lines 514 and 521), and any live code of the account for a change
of address. A change to one address is read as pending; before its code is looked for,
another request asks for a second address and its code replaces the first; the code
that answers is the second's, and the account takes the first. Run `codes_address`
shows it; it may also be the resend (line 495) that sends to the older address.

`change_password` promises "Cambiar la contraseña sabiendo la de ahora"
(`apps/accounts/services.py:554`). It checks the account as authentication read it (line
559) and saves over what there is by then (line 569). A change that was read before a reset,
or before the admin's form, and saved after it, replaces the new password knowing only the
old one, and goes on with a session of its own. Run `sessions_password` shows it.

Met while modelling, and not in a run:

* `update_progress` takes the labour price again "sólo si cambia quien lo hizo"
  (`apps/projects/services.py:203-205`), but compares with the entry read
  before the lock (line 223): of two corrections that name the same person, the
  second takes the price again. `WorkRequests` has it so; `LaborIsPriced` holds.
* `invite_collaborators` may invite somebody who joined between its two reads
  (`apps/team/services.py:138` and 142). `Invitations` has it so; no second membership
  follows (`LinkOpensOnce`, `OnlyByAccepting`).
* `_faces` "traces every enclosed space once" (`photo_geometry.py:430`), except where the
  lines of two passages cross: nothing cuts them there. `RoomsAreTheSpaces` leaves those
  drawings out, and says so.
* Walls closer to each other than a joint are drawn together into a slanted one
  (`join_walls`); a drawing with such walls is outside of `Tracing`.
* `purge_account` sweeps "las dos carpetas enteras", so that an interrupted upload leaves no
  file behind (`apps/accounts/deletion.py:8-10`). `_files_of` looks for the letterhead when
  the deletion begins (line 51), and without one lists only the folder of the photographs
  (lines 61-63). An account's first upload stores its file before it commits the letterhead
  that names the folder: when the list falls in between, the letterhead and the row are
  deleted and the file stays, and so does that of a first upload that failed. `Uploads` has
  it so; `SweptClean` excepts a letterhead that came after the list, and claims all the rest.
* `convert_photo` says that "Only what Claude actually read as a plan is counted"; the view
  counts every reading that came back, as `EndCounted` does.

## 7. The proofs

`WorkLedgerProofs` proves the abstract ledger's properties for every number of
quotes and lines, and all quantities and prices. `WorkFits` and `ClosedSettled` are not
inductive alone: `NothingBeforeStart` (no work or money on a quote that is not a
project's) is what lets a draft's lines change freely.

`WorkRequestsProofs` is the largest, in four parts. The first two prove, of the requests,
`TypeOK`, `LocksAreHeld`, `OneProject`, `LedgerHangsTogether`, `EvidenceIsStored`,
`LaborIsPriced`, and the action properties `QuoteFrozen`, `LedgerFrozen` and
`GoneForGood`, for any number of concurrent requests. The inductive invariant `IInv` adds
to them `RowsBelong` (every
entry and photograph has a parent that exists), `JobsMakeSense` (what a request
read before its lock is still of the row it locked, though perhaps
deleted), `StoredPhotos` (a file stored by a request is that request's alone) and
`DroppedPhotos` (files to delete are of deleted rows). The heart of it is
`LocksAreHeld`: since all who write a row's status hold its lock, the status
read under the lock is still the row's at the write, and so `Editable` means what it says.

The third part proves what is added up: `ProgressFits`, `HandOutsFit` and
`FinishedSettled`, for any finite sets of entries and people and any quantities and
prices. First the sums. `SumFunctionOnSet` of the community modules is a fold over a set;
that such a fold exists, does not depend on the order, and grows by what a new
member is worth (`SumExists`, `SumWithout`, `SumMoves`) is proved by induction on
the size of the set, which here is the smallest number for which it would fail
(`SmallestNumber`, `SubsetInduction`). Then two facts complete the
invariant (`TotalsInv`). `JobsKnow`: the quantity of an item that a request read before
its lock is the item's still, because the quote was in a project already and is frozen.
`CountsHold`: what a service counted under its lock is, when it writes,
what there is, because whoever adds to it would need the same lock; for a hand-out it
may have fallen (`AssignmentViewSet.destroy` takes no lock), which leaves more room and not
less. From them a write keeps each sum within the quote, and a project that closes
is owed exactly what was counted.

The fourth part proves `RequestsImplementLedger`: the requests implement `WorkLedger`,
under the mapping that `WorkRequests` names. There is a lemma for each action
(`CreateMaps`, `StartMaps`, `RegisterMaps`, `CollectMaps`, ...): a service's write is
one step of the ledger on the quote of its project, and every other step
leaves what the ledger sees as it is (`SilentMaps`). The mapping adds up over the
projects of a quote; `Mapped` says that there is one, and what the sums are then.
`NewProjects`, that a project not yet started has no payments and no waiver, is
what the start of one needs besides `TotalsInv`. So what `WorkLedgerProofs` proves of the
ledger holds of the requests.

`FoliosProofs` proves the type invariant, that folios differ, that counters
leave no gap and never fall, and that the requests implement `FolioBook`. The
invariant adds `IssuedIsGiven` (what was issued is on a document),
`OwnDocument` (no two requests create one document), `CountsOn` (a request
counts from the counter it holds, and all numbers in between are issued),
`WantsItsFolio`, and `RegisteredIsNew` (a registered folio is nobody else's).

`InvitationsProofs` proves every property of run `team`, for any number of
companies, addresses, invitations and requests. The invariant adds `RowsWhole`
(an invitation has its company, address and link), `JobsMakeSense` (what a
request holds or read is of the operation it does, and its e-mail was tried once
it is past `Mail`), `RowsAreHeld` (who accepts, or is about to commit, holds the
row) and `OwnIds` (ids and links drawn by requests under way are nobody
else's). `OnlyByAccepting` and `LinkOpensOnce` rest on `RowsAreHeld`: the
invitation read under the lock still waits when the membership is written.

`EmailCodesProofs` proves every safety property of run `codes`, for any number of
requests, codes, attempts and addresses. The invariant adds `Numbered`, `JobsMakeSense`,
`RowsAreHeld` (who writes the pending address holds the account, and who issues or
opens holds the codes it will void or use) and `WillStand`. `PendingHasItsCode` is
the one that needs it: when two requests issue at once neither voids the code of the other,
and either may commit first, so the claim is that from every code sent for a change on one
stands, also for the request about to make its address wait.

`SessionsProofs` proves every property of run `sessions`, for any number of requests,
tokens and passwords. The invariant adds `Proven` (a token has the fingerprint its
sign-in was checked with, of a password that was set), `Descends` (it was issued after
the one it replaced) and `JobsMakeSense`. `RefusedForGood` follows from `Onward`,
which every step satisfies: time goes on, issued tokens do not change, a closed one
stays closed till it expires, and a password is what it was or like none before.

`PartsProofs` proves of the files of an account, for any number of requests,
paths and files, `RowHasItsFile`, `TwoFolders` and `SweptClean`. None is inductive:
a row has its file because the request that wrote it had stored one that nobody
removes, so the invariant says of each request what it is about to save
(`Ready`), of each deletion of photographs that what it removes is named by no
row and no request (`Dropped`), and of each deletion of the account what its list covers
(`Listed`) and that a letterhead it listed is the one the account has to the end
(`Homes`); `OneCreates` is that one request at a time creates the letterhead, on
which `TwoFolders` rests; and what is said of rows and requests is claimed only while the account is there,
since after that nothing names a file. It also proves `LimitNearlyKept` for any
limit and any number of conversions, and `StoredIsThere` for any number of devices and
models: what a batch read is still so, save for the models others changed since
(`AsRead`).

Of the lines of a quote it proves `RoomsFit`, whose invariant is that they are lines
with rooms that fit (`LinesOK`), and `SyncFollowsThePlan`, for any services, amounts and
number of lines. A selection is known by the rank of its places: each rank is of one place
(`PlacesAreRanks`, from finite sets of one size), so a selection holds the entries of its
places and no other (`ThoseAre`), and two whose places go one to one in the same order, with
the same entries, are equal (`ThoseAreSame`), which is why the lines that are not the
plan's stay in their order. With one plan line of each service the last is the only one
(`OneOfEach`); then every line after a synchronisation comes from one kept or one of the payload
(`ComesFrom`), and each of those is somewhere (`GoesTo`).

`CompaniesProofs` proves all the properties of run `companies`, for any companies, people
and requests, and any tables that requests write; and that a request of the API finds,
and with policies sees, no other company's rows (`RequestsSeeTheirOwn`; the platform
operator of the admin, who reads all and writes nothing, is not one). A policy looks
only at the row where its path ends, and a reference is looked for among what the request
finds, which includes what it wrote itself; so the invariant `WrittenApart` is of
the rows committed and those still to be, together: each has the columns of
its table, and those of an isolated one lie in its company (`Sound`). `WayUp` is the
induction along a path: each row on the way is in an isolated table and of the same company, so the
owner a policy compares is the company of the row itself (`OwnerIsCompany`). That a row's references are there
(`RowsHaveParents`) is what the database checks at the commit, a lemma the rest uses and
no result of its own.

Deletions rest on what the collector computes. `Collected` is the least set that holds what it
starts from and that its cascades close (`CollectedIsLeast`). So it stays in the company
(`CollectedIsOwn`: a row that refers to one of a company is of that company), which with the
way up, that exists when every row has its parents (`WayExists`, `OwnerIsThere`), says
whose the rows are that a request deletes or empties. `DeletionsStayInside` is the action
property `DeletesItsOwn`, of what a commit really takes out: rows of the company and, in the
tables without a policy, the memberships of a deleted account in other companies, which
refer to it. It needs a third invariant, `InItsHands`: what a request is deleting is
there still, because no two requests have deleted the same row (`Apply` waits) and a commit
takes its rows from what the others collected; so no row of another could come in its
place. A shared row is never changed, since none of its columns may be empty
(`SharedAreKept`), and what cascades to one does so through an account (`CollectedIsTheirs`).

`OnlyRacesRefuse` needs of the invariant `InGoodOrder` what it says of every request that nobody raced, while it deletes: that a row
which refers to one that goes will go too, or be emptied (`Covered`), and that of the tables its purge
has passed nothing is left (`Swept`). What might protect a row is then in a table behind, and
gone, or goes with the same cascade (`NothingProtects`, over the eleven tables of `PurgeOrder`). This is where
the order matters: with clients before projects the lemma is false, and `OnlyRacesRefuse` with it. Of the tables the proofs use only the four ASSUMEs above and the `on_delete` of each column.

The assumptions are the ASSUMEs of the modules: the shape of the constants,
that ids of quotes and projects differ, that entries and people are finitely many (a sum
over infinitely many is nothing), that old documents have different folios, and what is said
of the tables. TLC evaluates all of them.

Only model-checked:

* the liveness properties `NobodyWaitsForEver`, `EveryDocumentEnds` and
  `EveryRequestEnds`, which TLAPS does not prove;
* `Tracing`, with RECURSIVE operators, and `ReadmeSync`, with folds over the lines of a
  text: what they compute is checked on the instance.

## 8. Not modelled, and the plan

Not modelled:

* `apps/documents`, `apps/dashboard`: PDFs and sums that are read and keep nothing.
* `apps/leads`, contact details, names and dates of `clients`, `catalog` and
  `legal`: one row per request that no other row counts on.
* `photo_cleanup.py`: arithmetic on the pixels of an image. Of the geometry, slanted
  walls and fractions of a pixel (floating point), the order in which rooms are
  listed, and coordinates relative to the photograph.
* The external reader of photographs: what it answers is chosen among drawings.
* `otp_quota.py`: a count in a cache of its own connection, whose isolation is the
  database's and not the code's.
* `ensure_single_self`: a look and an insert, which a unique constraint decides in one step.
* `security_audit.py`, `gate_guard.py`: searches over text, with no state between steps.
* The framework, and the texts of e-mails.

The plan from here:

1. Liveness of `Companies`, where two deletions may wait for each other.
2. Slanted walls in `Tracing`, over fractions.
3. `otp_quota`, once the settings of the cache say how it is isolated.
