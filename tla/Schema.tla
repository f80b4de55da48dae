------------------------------- MODULE Schema -------------------------------
(***************************************************************************)
(* The tables of the application as its migrations build them, one step at *)
(* a time: which column refers to which table, whether it may be empty,    *)
(* which columns together are unique, and the policy that ties each row of *)
(* an isolated table to its company (common/rls.py).  Columns that refer   *)
(* to nothing are left out.                                                *)
(*                                                                         *)
(* PostgreSQL enforces the references when a transaction commits; what     *)
(* Django does to the rows that refer to a deleted one is in Models.       *)
(***************************************************************************)
EXTENDS Naturals, Sequences, SequencesExt

-----------------------------------------------------------------------------
(* Operations of a migration.  A step maps the tables there are to the     *)
(* tables after it.                                                        *)

\* A reference that every row has, and one a row may lack.
Needs(table) == [to |-> table, null |-> FALSE]
May(table) == [to |-> table, null |-> TRUE]

\* Columns unique together, in all rows or in those of one kind.
Once(columns) == [columns |-> columns, among |-> "all"]
OnceAmong(columns, kind) == [columns |-> columns, among |-> kind]

NoColumns == [c \in {} |-> Needs("user")]
Create(table, refs, once) ==
    [op |-> "create", table |-> table, refs |-> refs, once |-> once]
AddRef(table, column, ref) ==
    [op |-> "ref", table |-> table, column |-> column, ref |-> ref]
AddOnce(table, key) == [op |-> "once", table |-> table, key |-> key]
Isolate(paths) == [op |-> "isolate", paths |-> paths]

\* A policy is the way from a row to the account that owns it; a table with
\* none is shared.
Shared == <<>>

Migrate(tables, step) ==
    CASE step.op = "create" ->
           [t \in DOMAIN tables \cup {step.table} |->
              IF t = step.table
              THEN [refs |-> step.refs, once |-> step.once, path |-> Shared]
              ELSE tables[t]]
      [] step.op = "ref" ->
           [tables EXCEPT ![step.table].refs =
              [c \in DOMAIN @ \cup {step.column} |->
                 IF c = step.column THEN step.ref ELSE @[c]]]
      [] step.op = "once" ->
           [tables EXCEPT ![step.table].once = @ \cup {step.key}]
      [] step.op = "isolate" ->
           [t \in DOMAIN tables |->
              IF t \in DOMAIN step.paths
              THEN [tables[t] EXCEPT !.path = step.paths[t]]
              ELSE tables[t]]

-----------------------------------------------------------------------------
(* The migrations.                                                         *)

CreateUser == Create("user", NoColumns, {Once({"email"})})
CreateSubscription ==
    Create("subscription", [user |-> Needs("user")], {Once({"user"})})
CreateOrganization ==
    Create("organization", [user |-> Needs("user")], {Once({"user"})})
CreateOtpCode == Create("otpcode", [user |-> Needs("user")], {})
Accounts == <<CreateUser, CreateSubscription, CreateOrganization, CreateOtpCode>>

CreateAcceptance ==
    Create("acceptance", [user |-> Needs("user")], {Once({"user", "document", "version"})})

CreateInvitation ==
    Create("invitation", [account |-> Needs("user")],
           {Once({"token_hash"}), OnceAmong({"account", "email"}, "pending")})
CreateMembership ==
    Create("membership", [account |-> Needs("user"), user |-> Needs("user")],
           {Once({"account", "user"})})
Team == <<CreateInvitation, CreateMembership>>

CreateTariff == Create("tariff", [owner |-> Needs("user")], {})
CreateClient == Create("client", [owner |-> Needs("user")], {})

CreatePlan == Create("plan", [owner |-> Needs("user")], {})
CreatePhotoConversion == Create("photo", [owner |-> Needs("user")], {})

CreatePlanAsset ==
    Create("planasset", [owner |-> Needs("user")], {Once({"owner", "path"})})
CreateCatalogModel ==
    Create("catalogmodel", [owner |-> Needs("user")], {Once({"owner", "model_id"})})

CreateQuote ==
    Create("quote", [client |-> Needs("client"), owner |-> Needs("user")], {})
CreateQuoteItem ==
    Create("quoteitem", [quote |-> Needs("quote"), tariff |-> Needs("tariff")], {})
PlanOfTheQuote == AddRef("quote", "plan", May("plan"))
FolioOfTheQuote == AddOnce("quote", Once({"owner", "folio"}))
CreateRoom ==
    Create("room", [quote_item |-> Needs("quoteitem")], {Once({"quote_item", "name"})})
Quotes == <<CreateQuote, CreateQuoteItem, PlanOfTheQuote, FolioOfTheQuote, CreateRoom>>

CreateProgress == Create("progress", [quote_item |-> Needs("quoteitem")], {})
CreateEvidence == Create("evidence", [progress |-> Needs("progress")], {})
CreateProject ==
    Create("project", [owner |-> Needs("user"), quote |-> Needs("quote")], {Once({"quote"})})
ProjectOfTheProgress == AddRef("progress", "project", Needs("project"))
FolioOfTheProject == AddOnce("project", Once({"owner", "folio"}))
Projects ==
    <<CreateProgress, CreateEvidence, CreateProject, ProjectOfTheProgress, FolioOfTheProject>>

CreateWorker == Create("worker", [owner |-> Needs("user")], {})
CreateAssignment ==
    Create("assignment", [project |-> Needs("project"), quote_item |-> Needs("quoteitem"),
                          worker |-> Needs("worker")], {})
CreateWorkerPayment ==
    Create("workerpayment", [owner |-> Needs("user"), project |-> May("project"),
                             worker |-> Needs("worker")], {})
CreateWorkerService ==
    Create("workerservice", [tariff |-> Needs("tariff"), worker |-> Needs("worker")], {})
OneSelf == AddOnce("worker", OnceAmong({"owner"}, "self"))
OneShare == AddOnce("assignment", Once({"quote_item", "worker"}))
OneService == AddOnce("workerservice", Once({"worker", "tariff"}))
FolioOfTheWorkerPayment == AddOnce("workerpayment", Once({"owner", "folio"}))
Staff ==
    <<CreateWorker, CreateAssignment, CreateWorkerPayment, CreateWorkerService,
      OneSelf, OneShare, OneService, FolioOfTheWorkerPayment>>

WorkerOfTheProgress == AddRef("progress", "worker", May("worker"))

CreatePayment ==
    Create("payment", [owner |-> Needs("user"), project |-> Needs("project"),
                       quote_item |-> May("quoteitem")], {})
FolioOfThePayment == AddOnce("payment", Once({"owner", "folio"}))

CreateFolioCounter ==
    Create("foliocounter", [owner |-> Needs("user")], {Once({"owner", "prefix"})})
CreateFolioSetting ==
    Create("foliosetting", [owner |-> Needs("user")], {Once({"owner", "document_type"})})
CreateIssuedFolio ==
    Create("issuedfolio", [owner |-> Needs("user")], {Once({"owner", "folio"})})
Folios == <<CreateFolioCounter, CreateFolioSetting, CreateIssuedFolio>>

(* The policies: the owner of the row, or of its parent.                   *)
Own == <<"owner">>
AssetsIsolated == Isolate([planasset |-> Own, catalogmodel |-> Own])
CatalogIsolated == Isolate([tariff |-> Own])
ClientsIsolated == Isolate([client |-> Own])
FoliosIsolated == Isolate([foliosetting |-> Own, foliocounter |-> Own, issuedfolio |-> Own])
PaymentsIsolated == Isolate([payment |-> Own])
PlannerIsolated == Isolate([plan |-> Own, photo |-> Own])
ProjectsIsolated ==
    Isolate([project |-> Own, progress |-> <<"project", "owner">>,
             evidence |-> <<"progress", "project", "owner">>])
QuotesIsolated ==
    Isolate([quote |-> Own, quoteitem |-> <<"quote", "owner">>,
             room |-> <<"quote_item", "quote", "owner">>])
StaffIsolated ==
    Isolate([worker |-> Own, workerservice |-> <<"worker", "owner">>,
             assignment |-> <<"project", "owner">>, workerpayment |-> Own])
Isolated ==
    <<AssetsIsolated, CatalogIsolated, ClientsIsolated, FoliosIsolated, PaymentsIsolated,
      PlannerIsolated, ProjectsIsolated, QuotesIsolated, StaffIsolated>>

\* The tables that belong to no company, and stay without a policy; that of the
\* public contact form refers to no account and is left out.
SharedTables ==
    {"user", "subscription", "organization", "otpcode", "membership", "invitation",
     "acceptance"}

\* Every step in an order that the migrations' dependencies allow.  Projects
\* refers to tables of Quotes, and the worker of a progress comes after Staff.
Migrations ==
    Accounts \o <<CreateAcceptance>> \o Team
    \o <<CreateTariff, CreateClient, CreatePlan, CreatePhotoConversion,
         CreatePlanAsset, CreateCatalogModel>>
    \o Quotes \o Projects \o Staff
    \o <<WorkerOfTheProgress, CreatePayment, FolioOfThePayment>> \o Folios \o Isolated

Tables == FoldLeft(Migrate, [t \in {} |-> [refs |-> NoColumns, once |-> {}, path |-> Shared]],
                   Migrations)
Table == DOMAIN Tables
Ref(table) == Tables[table].refs
=============================================================================
