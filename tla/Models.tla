------------------------------- MODULE Models -------------------------------
(***************************************************************************)
(* The models of the application: what Django does, when a row is deleted, *)
(* to those that refer to it.  The database knows nothing of it: it only   *)
(* refuses a transaction that leaves a reference to nothing (Schema).      *)
(***************************************************************************)
EXTENDS Schema

\* The references of a model with their on_delete, and its unique columns.
Model(gone, once) == [gone |-> gone, once |-> once]
Cascade == "CASCADE"
Protect == "PROTECT"
SetNull == "SET_NULL"

User == Model([c \in {} |-> Cascade], {Once({"email"})})
Subscription == Model([user |-> Cascade], {Once({"user"})})
Organization == Model([user |-> Cascade], {Once({"user"})})
OtpCode == Model([user |-> Cascade], {})
LegalAcceptance == Model([user |-> Cascade], {Once({"user", "document", "version"})})
Membership == Model([account |-> Cascade, user |-> Cascade], {Once({"account", "user"})})
Invitation ==
    Model([account |-> Cascade], {Once({"token_hash"}), OnceAmong({"account", "email"}, "pending")})

Tariff == Model([owner |-> Cascade], {})
Client == Model([owner |-> Cascade], {})
Plan == Model([owner |-> Cascade], {})
PhotoConversion == Model([owner |-> Cascade], {})
PlanAsset == Model([owner |-> Cascade], {Once({"owner", "path"})})
CatalogModel == Model([owner |-> Cascade], {Once({"owner", "model_id"})})

Quote ==
    Model([owner |-> Cascade, client |-> Protect, plan |-> SetNull], {Once({"owner", "folio"})})
QuoteItem == Model([quote |-> Cascade, tariff |-> Protect], {})
QuoteItemRoom == Model([quote_item |-> Cascade], {Once({"quote_item", "name"})})

Project ==
    Model([owner |-> Cascade, quote |-> Protect], {Once({"quote"}), Once({"owner", "folio"})})
Progress == Model([project |-> Cascade, quote_item |-> Protect, worker |-> Protect], {})
Evidence == Model([progress |-> Cascade], {})

Payment ==
    Model([owner |-> Cascade, project |-> Cascade, quote_item |-> SetNull],
          {Once({"owner", "folio"})})

Worker == Model([owner |-> Cascade], {OnceAmong({"owner"}, "self")})
WorkerService == Model([worker |-> Cascade, tariff |-> Cascade], {Once({"worker", "tariff"})})
Assignment ==
    Model([project |-> Cascade, quote_item |-> Cascade, worker |-> Protect],
          {Once({"quote_item", "worker"})})
WorkerPayment ==
    Model([owner |-> Cascade, worker |-> Protect, project |-> SetNull],
          {Once({"owner", "folio"})})

FolioSetting == Model([owner |-> Cascade], {Once({"owner", "document_type"})})
FolioCounter == Model([owner |-> Cascade], {Once({"owner", "prefix"})})
IssuedFolio == Model([owner |-> Cascade], {Once({"owner", "folio"})})

AllModels ==
    [user |-> User, subscription |-> Subscription, organization |-> Organization,
     otpcode |-> OtpCode, acceptance |-> LegalAcceptance, membership |-> Membership,
     invitation |-> Invitation, tariff |-> Tariff, client |-> Client, plan |-> Plan,
     photo |-> PhotoConversion, planasset |-> PlanAsset, catalogmodel |-> CatalogModel,
     quote |-> Quote, quoteitem |-> QuoteItem, room |-> QuoteItemRoom,
     project |-> Project, progress |-> Progress, evidence |-> Evidence,
     payment |-> Payment, worker |-> Worker, workerservice |-> WorkerService,
     assignment |-> Assignment, workerpayment |-> WorkerPayment,
     foliosetting |-> FolioSetting, foliocounter |-> FolioCounter,
     issuedfolio |-> IssuedFolio]

OnDelete(table, column) == AllModels[table].gone[column]

\* The migrations leave the tables the models declare, and what Django empties
\* when a row goes may be empty.
ASSUME ModelsAreMigrated ==
    /\ DOMAIN AllModels = Table
    /\ \A t \in Table :
          /\ DOMAIN AllModels[t].gone = DOMAIN Ref(t)
          /\ AllModels[t].once = Tables[t].once
          /\ \A c \in DOMAIN Ref(t) : OnDelete(t, c) = SetNull => Ref(t)[c].null

\* A policy goes from reference to reference, through columns that are never
\* empty, up to the account: that of a child, through that of its parent.
ASSUME PoliciesReachTheAccount ==
    \A t \in Table : Tables[t].path # Shared =>
       LET column == Head(Tables[t].path)
           rest == Tail(Tables[t].path)
       IN /\ Tables[t].path \in Seq(STRING)
          /\ column \in DOMAIN Ref(t) /\ ~ Ref(t)[column].null
          /\ IF rest = <<>> THEN Ref(t)[column].to = "user"
             ELSE /\ Ref(t)[column].to \in Table
                  /\ Tables[Ref(t)[column].to].path = rest

\* A column's name says which table it refers to, and few may be empty.
TableOf ==
    [owner |-> "user", account |-> "user", user |-> "user", client |-> "client",
     tariff |-> "tariff", quote |-> "quote", quote_item |-> "quoteitem", plan |-> "plan",
     project |-> "project", progress |-> "progress", worker |-> "worker"]
MayLack ==
    {<<"quote", "plan">>, <<"progress", "worker">>, <<"payment", "quote_item">>,
     <<"workerpayment", "project">>}
ASSUME ReferencesAreNamed ==
    \A t \in Table : \A c \in DOMAIN Ref(t) :
       /\ c \in DOMAIN TableOf /\ Ref(t)[c].to = TableOf[c]
       /\ Ref(t)[c].null <=> <<t, c>> \in MayLack

\* The tables without a policy are those that say why they need none, and refer
\* to accounts only.
ASSUME SharedTablesAreKnown ==
    /\ {t \in Table : Tables[t].path = Shared} = SharedTables
    /\ \A t \in SharedTables : \A c \in DOMAIN Ref(t) : Ref(t)[c].to = "user"
=============================================================================
