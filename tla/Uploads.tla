------------------------------ MODULE Uploads ------------------------------
(***************************************************************************)
(* The files of one account: the binaries of the plan editor, the logo of  *)
(* the letterhead and the photographs of progress, each stored before its  *)
(* row is written, and the deletion of the account with all of them        *)
(* (apps/assets/services.py, common/uploads.py, apps/accounts).            *)
(*                                                                         *)
(* A request is one transaction and may be cut short at any point: what it *)
(* wrote in the database goes, what it stored stays.                       *)
(***************************************************************************)
EXTENDS Naturals

CONSTANTS
    Req,        \* requests under way at once
    Path,       \* how plans name their binaries
    MaxFiles,   \* bound: files ever stored
    MaxFolders, \* bound: letterheads ever tried
    None

ASSUME UploadsAssumption ==
    /\ MaxFiles \in Nat /\ MaxFolders \in Nat
    /\ None \notin Nat /\ None \notin [folder : Nat, n : Nat]
    /\ None \notin [id : Nat, logo : [folder : Nat, n : Nat] \cup {None}]

VARIABLES
    account,    \* whether its row is there
    org,        \* its letterhead: id, which names the folder, and logo
    assets,     \* the file of each path
    evidence,   \* the files of the photographs
    files,      \* what is in storage
    made,       \* files stored so far: each has a name of its own
    folders,    \* letterhead ids tried so far
    swept,      \* of the last deletion that finished: the letterhead it listed, the
                \* one the account had in the end, and the files made till the list
    req         \* what each request is doing

uploadVars == <<account, org, assets, evidence, files, made, folders, swept, req>>

Evidence == 0                   \* the folder of the photographs
File == [folder : Nat, n : Nat]
Letterhead == [id : Nat, logo : File \cup {None}]
Kind == {"asset", "logo", "evidence", "drop", "purge"}
Phase == {"idle", "begun", "stored", "listed", "deleted", "removing"}
Job == [phase : Phase, kind : Kind, path : Path \cup {None}, file : File \cup {None},
        seen : Letterhead \cup {None}, fresh : Nat \cup {None}, home : Nat \cup {None},
        list : SUBSET File, upTo : Nat]
Idle == [phase |-> "idle", kind |-> "asset", path |-> None, file |-> None,
         seen |-> None, fresh |-> None, home |-> None, list |-> {}, upTo |-> 0]

UploadsOK ==
    /\ account \in BOOLEAN
    /\ org \in Letterhead \cup {None}
    /\ assets \in [Path -> File \cup {None}]
    /\ evidence \subseteq File
    /\ files \subseteq File
    /\ made \in Nat /\ folders \in Nat
    /\ swept \in [listed : Nat \cup {None}, home : Nat \cup {None}, upTo : Nat]
    /\ req \in [Req -> Job]

\* The letterhead's id, and the files that rows name.
IdOf(letterhead) == IF letterhead = None THEN None ELSE letterhead.id
Logos == IF org = None THEN {} ELSE {org.logo} \ {None}
Named == evidence \cup ({assets[p] : p \in Path} \ {None}) \cup Logos

\* Rows that a deletion under way holds: who needs one of them waits.
RowsHeld == \E q \in Req : req[q].phase = "deleted"

\* Requests that hold the lock of a project.
OnEvidence(q) == req[q].kind \in {"evidence", "drop"} /\ req[q].phase \in {"begun", "stored"}

-----------------------------------------------------------------------------
UploadsInit ==
    /\ account = TRUE
    /\ org \in {None, [id |-> 1, logo |-> None]}
    /\ assets = [p \in Path |-> None]
    /\ evidence = {} /\ files = {}
    /\ made = 0 /\ folders = (IF org = None THEN 0 ELSE 1)
    /\ swept = [listed |-> None, home |-> None, upTo |-> 0]
    /\ req = [r \in Req |-> Idle]

\* organization_id_for, get_my_organization: the letterhead there is, or a new
\* one, once nobody else is creating theirs.
AnybodyCreates == TRUE
NobodyCreates == \A q \in Req : req[q].fresh = None
ItsFolderOrNone(r) == IF org # None THEN org.id ELSE req[r].fresh
ItsFolder(r) ==
    IF org # None THEN org.id ELSE IF req[r].fresh # None THEN req[r].fresh ELSE folders + 1
FolderReady(r) ==
    org # None \/ req[r].fresh # None \/ (NobodyCreates /\ folders < MaxFolders)

\* store_asset: a path the account has is answered with what there is.
BeginAsset(r, p) ==
    /\ req[r].phase = "idle" /\ account /\ assets[p] = None
    /\ req' = [req EXCEPT ![r] = [Idle EXCEPT !.phase = "begun", !.kind = "asset", !.path = p]]
    /\ UNCHANGED <<account, org, assets, evidence, files, made, folders, swept>>

\* MyOrganizationView.patch: the letterhead is read whole.
BeginLogo(r) ==
    LET id == ItsFolder(r)
    IN /\ req[r].phase = "idle" /\ account /\ FolderReady(r) /\ ~RowsHeld
       /\ folders' = IF org = None THEN id ELSE folders
       /\ req' = [req EXCEPT ![r] =
            [Idle EXCEPT !.phase = "begun", !.kind = "logo",
                         !.seen = IF org = None THEN [id |-> id, logo |-> None] ELSE org,
                         !.fresh = IF org = None THEN id ELSE None]]
       /\ UNCHANGED <<account, org, assets, evidence, files, made, swept>>

\* add_evidence, under the lock of the project.
BeginEvidence(r) ==
    /\ req[r].phase = "idle" /\ account /\ ~RowsHeld
    /\ req' = [req EXCEPT ![r] = [Idle EXCEPT !.phase = "begun", !.kind = "evidence"]]
    /\ UNCHANGED <<account, org, assets, evidence, files, made, folders, swept>>

\* A patch without an image stores nothing: it keeps the logo it read, or
\* leaves none.
KeepLogo(r, logo) ==
    /\ req[r].phase = "begun" /\ req[r].kind = "logo"
    /\ req' = [req EXCEPT ![r].phase = "stored", ![r].file = logo]
    /\ UNCHANGED <<account, org, assets, evidence, files, made, folders, swept>>

\* The file goes to the storage before the row is written, under a new name.
Store(r, folder) ==
    LET file == [folder |-> folder, n |-> made + 1]
    IN /\ req[r].phase = "begun" /\ made < MaxFiles
       /\ files' = files \cup {file}
       /\ made' = made + 1
       /\ req' = [req EXCEPT ![r].phase = "stored", ![r].file = file,
                             ![r].fresh = IF folder = folders + 1 THEN folder ELSE @]
       /\ folders' = IF folder = folders + 1 THEN folder ELSE folders
       /\ UNCHANGED <<account, org, assets, evidence, swept>>
StoreAsset(r) == req[r].kind = "asset" /\ FolderReady(r) /\ Store(r, ItsFolder(r))
StoreLogo(r) == req[r].kind = "logo" /\ Store(r, req[r].seen.id)
StoreEvidence(r) == req[r].kind = "evidence" /\ Store(r, Evidence)

\* The row is written and the transaction ends: it fails if the path, or the
\* letterhead, is taken, or the account is gone.
Saved(r) == req[r].phase = "stored" /\ ~RowsHeld /\ account
SaveAsset(r) ==
    /\ Saved(r) /\ req[r].kind = "asset" /\ assets[req[r].path] = None
    /\ assets' = [assets EXCEPT ![req[r].path] = req[r].file]
    /\ org' = IF req[r].fresh # None THEN [id |-> req[r].fresh, logo |-> None] ELSE org
    /\ req' = [req EXCEPT ![r] = Idle]
    /\ UNCHANGED <<account, evidence, files, made, folders, swept>>
SaveLogoAlone(r) ==
    /\ Saved(r) /\ req[r].kind = "logo"
    /\ org' = [id |-> req[r].seen.id, logo |-> req[r].file]
    /\ files' = files \ (Logos \ {req[r].file})
    /\ req' = [req EXCEPT ![r] = Idle]
    /\ UNCHANGED <<account, assets, evidence, made, folders, swept>>
SaveLogo(r) ==
    /\ Saved(r) /\ req[r].kind = "logo"
    /\ org' = [id |-> req[r].seen.id, logo |-> req[r].file]
    /\ req' = [req EXCEPT ![r] = Idle]
    /\ UNCHANGED <<account, assets, evidence, files, made, folders, swept>>
SaveEvidence(r) ==
    /\ Saved(r) /\ req[r].kind = "evidence"
    /\ evidence' = evidence \cup {req[r].file}
    /\ req' = [req EXCEPT ![r] = Idle]
    /\ UNCHANGED <<account, org, assets, files, made, folders, swept>>

\* Refused, or its process dies: the database forgets it.
Fail(r) ==
    /\ req[r].phase # "idle"
    /\ req' = [req EXCEPT ![r] = Idle]
    /\ UNCHANGED <<account, org, assets, evidence, files, made, folders, swept>>

\* delete_evidence, delete_progress: the photographs go once the rows are gone.
DropEvidence(r, some) ==
    /\ req[r].phase = "idle" /\ account /\ ~RowsHeld /\ some # {} /\ some \subseteq evidence
    /\ evidence' = evidence \ some
    /\ req' = [req EXCEPT ![r] =
         [Idle EXCEPT !.phase = "removing", !.kind = "drop", !.list = some]]
    /\ UNCHANGED <<account, org, assets, files, made, folders, swept>>

-----------------------------------------------------------------------------
(* purge_account.                                                          *)

\* _files_of: what the rows name and the two folders, whole.
FilesNamed == Named
FilesOf == Named \cup {f \in files : f.folder = Evidence \/ (org # None /\ f.folder = org.id)}
PurgeList(r) ==
    /\ req[r].phase = "idle" /\ account
    /\ req' = [req EXCEPT ![r] =
         [Idle EXCEPT !.phase = "listed", !.kind = "purge", !.seen = org,
                      !.list = FilesOf, !.upTo = made]]
    /\ UNCHANGED <<account, org, assets, evidence, files, made, folders, swept>>

\* The rows are deleted, whatever they name by now.
PurgeRows(r) ==
    /\ req[r].phase = "listed" /\ ~RowsHeld /\ \A q \in Req : ~OnEvidence(q)
    /\ req' = [req EXCEPT ![r].phase = "deleted"]
    /\ UNCHANGED <<account, org, assets, evidence, files, made, folders, swept>>

\* The commit; the files go after it.  Refused, it is Fail.
PurgeCommit(r) ==
    /\ req[r].phase = "deleted"
    /\ account' = FALSE /\ org' = None
    /\ assets' = [p \in Path |-> None] /\ evidence' = {}
    /\ req' = [req EXCEPT ![r].phase = "removing",
                          ![r].home = IdOf(IF org = None THEN req[r].seen ELSE org)]
    /\ UNCHANGED <<files, made, folders, swept>>

RemoveFiles(r) ==
    /\ req[r].phase = "removing"
    /\ files' = files \ req[r].list
    /\ swept' = IF req[r].kind = "drop" THEN swept
                ELSE [listed |-> IdOf(req[r].seen), home |-> req[r].home,
                      upTo |-> req[r].upTo]
    /\ req' = [req EXCEPT ![r] = Idle]
    /\ UNCHANGED <<account, org, assets, evidence, made, folders>>

UploadsNext ==
    \E r \in Req :
       \/ \E p \in Path : BeginAsset(r, p)
       \/ BeginLogo(r) \/ BeginEvidence(r)
       \/ req[r].seen # None /\ \E logo \in {req[r].seen.logo, None} : KeepLogo(r, logo)
       \/ StoreAsset(r) \/ StoreLogo(r) \/ StoreEvidence(r)
       \/ SaveAsset(r) \/ SaveLogo(r) \/ SaveEvidence(r) \/ Fail(r)
       \/ \E some \in SUBSET evidence : DropEvidence(r, some)
       \/ PurgeList(r) \/ PurgeRows(r) \/ PurgeCommit(r) \/ RemoveFiles(r)

UploadsSpec == UploadsInit /\ [][UploadsNext]_uploadVars

-----------------------------------------------------------------------------
\* A row always names a file that is there: a file is stored before its row and
\* removed after it, and a letterhead saved whole may bring an old logo back.
RowHasItsFile == Named \subseteq files

\* All the files of an account are in its two folders: the letterhead, even when
\* two first uploads create it at once, is one, and its id never changes.
TwoFolders ==
    \A f \in Named : f.folder = Evidence \/ (org # None /\ f.folder = org.id)

\* Once the account and its files are gone, what is left in the folder of its
\* photographs, and in that of the letterhead it had, was stored after they were
\* listed, rows or no rows.  One case is excepted: a letterhead that came after
\* the list, with a first upload that was under way, may leave older files too.
\* (A first upload that failed leaves its file in a folder of no letterhead.)
SweptClean ==
    \A f \in files : f.n <= swept.upTo =>
       /\ f.folder # Evidence
       /\ f.folder = swept.home => swept.listed = None
=============================================================================
