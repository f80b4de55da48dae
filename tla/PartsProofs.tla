---------------------------- MODULE PartsProofs ----------------------------
(***************************************************************************)
(* What holds of the files of an account, of the photographs of a day, of  *)
(* the catalogue of furniture and of the lines of a quote with its plan,   *)
(* for any number of requests and any of what they bring.                  *)
(***************************************************************************)
EXTENDS Uploads, Photos, Catalog, QuotePlan, FiniteSetTheorems, SequenceTheorems, TLAPS

(***************************************************************************)
(* The files of an account.  What a request knows is worth something while *)
(* the account is there: a deletion that committed ends it for good.       *)
(***************************************************************************)

\* Every file has a number of its own, and what was listed had one.
Numbered ==
    /\ \A f \in files : 1 <= f.n /\ f.n <= made
    /\ swept.upTo <= made
    /\ \A r \in Req : req[r].upTo <= made

\* Letterheads are numbered from 1 on: none is the folder of the photographs.
Ids ==
    /\ org # None => org.id \in 1 .. folders
    /\ \A r \in Req : /\ req[r].fresh # None => req[r].fresh \in 1 .. folders
                      /\ req[r].seen # None => req[r].seen.id \in 1 .. folders

\* One request at a time creates the letterhead, and only while there is none.
OneCreates ==
    /\ account /\ org # None => \A r \in Req : req[r].fresh = None
    /\ \A r, q \in Req : req[r].fresh # None /\ req[q].fresh # None => r = q

\* What the rows of an account name is in storage, in the folder it belongs to.
Rows ==
    /\ account => /\ evidence \subseteq files
                  /\ \A f \in evidence : f.folder = Evidence
                  /\ \A p \in Path : assets[p] # None =>
                       /\ assets[p] \in files
                       /\ org # None /\ assets[p].folder = org.id
                  /\ org # None /\ org.logo # None =>
                       org.logo \in files /\ org.logo.folder = org.id
    /\ ~account => org = None /\ evidence = {} /\ \A p \in Path : assets[p] = None

\* A phase is of the requests that go through it.
Phases ==
    \A r \in Req :
       /\ req[r].phase = "idle" => req[r].fresh = None
       /\ req[r].phase \in {"begun", "stored"} => req[r].kind \in {"asset", "logo", "evidence"}
       /\ req[r].phase \in {"begun", "stored"} /\ req[r].kind = "logo" => req[r].seen # None
       /\ req[r].phase \in {"listed", "deleted"} => req[r].kind = "purge"
       /\ req[r].phase = "removing" => req[r].kind \in {"drop", "purge"}
       /\ req[r].phase = "removing" /\ req[r].kind = "purge" => ~account

\* What a request is about to save is in storage, in the folder of the
\* letterhead there is, or of the one it creates.
AssetReady(r) ==
    req[r].kind = "asset" /\ req[r].phase \in {"begun", "stored"} =>
       /\ req[r].path \in Path
       /\ req[r].phase = "stored" =>
            /\ req[r].file \in files
            /\ org # None => req[r].file.folder = org.id
            /\ org = None => req[r].fresh # None /\ req[r].file.folder = req[r].fresh
LogoReady(r) ==
    req[r].kind = "logo" /\ req[r].phase \in {"begun", "stored"} =>
       /\ org # None => req[r].seen.id = org.id
       /\ org = None => req[r].fresh = req[r].seen.id
       /\ req[r].seen.logo # None =>
            req[r].seen.logo \in files /\ req[r].seen.logo.folder = req[r].seen.id
       /\ req[r].phase = "stored" /\ req[r].file # None =>
            req[r].file \in files /\ req[r].file.folder = req[r].seen.id
EvidenceReady(r) ==
    req[r].kind = "evidence" /\ req[r].phase = "stored" =>
       /\ req[r].file \in files /\ req[r].file.folder = Evidence
       /\ req[r].file \notin evidence
       /\ \A q \in Req \ {r} : req[q].kind = "evidence" /\ req[q].phase = "stored" =>
            req[q].file # req[r].file
Ready == account => \A r \in Req : AssetReady(r) /\ LogoReady(r) /\ EvidenceReady(r)

\* What is about to be removed is named by no row, nor about to be.
Dropped ==
    account =>
       \A r \in Req : req[r].kind = "drop" /\ req[r].phase = "removing" =>
          /\ \A f \in req[r].list : f.folder = Evidence /\ f.n <= made /\ f \notin evidence
          /\ \A q \in Req : req[q].kind = "evidence" /\ req[q].phase = "stored" =>
               req[q].file \notin req[r].list

\* A deletion has listed all there was in the two folders.
Listed ==
    \A r \in Req : req[r].kind = "purge" =>
       \A f \in files :
          /\ f.n <= req[r].upTo
          /\ f.folder = Evidence \/ (req[r].seen # None /\ f.folder = req[r].seen.id)
          => f \in req[r].list

\* A letterhead that a deletion listed is the account's to the end.
Homes ==
    \A r \in Req : req[r].kind = "purge" /\ req[r].seen # None =>
       /\ account => org # None /\ org.id = req[r].seen.id
       /\ req[r].phase = "removing" => req[r].home = req[r].seen.id

UploadsInv ==
    /\ UploadsOK /\ Numbered /\ Ids /\ OneCreates /\ Rows /\ Phases
    /\ Ready /\ Dropped /\ Listed /\ Homes /\ SweptClean

USE DEF Idle, Kind, Phase, Job, Evidence, File, Letterhead

\* The initial states.
LEMMA UploadsInitially == UploadsInit => UploadsInv
BY UploadsAssumption DEF UploadsInit, UploadsInv, UploadsOK, Numbered, Ids, OneCreates, Rows,
   Phases, Ready, AssetReady, LogoReady, EvidenceReady, Dropped, Listed, Homes, SweptClean

\* A request that keeps or stores a file is still a request.
LEMMA StoredTypes ==
  ASSUME NEW job \in Job, NEW f \in File \cup {None}, NEW fresh \in Nat \cup {None}
  PROVE  [job EXCEPT !.phase = "stored", !.file = f, !.fresh = fresh] \in Job
<1> HIDE DEF File, Letterhead, Kind
<1> QED OBVIOUS

\* So is one that goes on to remove.
LEMMA RemovingTypes ==
  ASSUME NEW job \in Job, NEW home \in Nat \cup {None}
  PROVE  [job EXCEPT !.phase = "removing", !.home = home] \in Job
<1> HIDE DEF File, Letterhead, Kind
<1> QED OBVIOUS

\* Storing a file leaves everything of its type.
LEMMA StoreTypes ==
  ASSUME UploadsOK, NEW r \in Req, NEW folder \in Nat, Store(r, folder)
  PROVE  UploadsOK'
<1> DEFINE file == [folder |-> folder, n |-> made + 1]
           job == [req[r] EXCEPT !.phase = "stored", !.file = file,
                                 !.fresh = IF folder = folders + 1 THEN folder ELSE @]
<1>1. file \in File
  BY DEF UploadsOK
<1>2. job \in Job
  <2>1. req[r] \in Job /\ req[r].fresh \in Nat \cup {None}
    BY DEF UploadsOK
  <2>2. (IF folder = folders + 1 THEN folder ELSE req[r].fresh) \in Nat \cup {None}
    BY <2>1
  <2> HIDE DEF Job, File
  <2> QED BY <1>1, <2>1, <2>2, StoredTypes
<1>3. req' = [req EXCEPT ![r] = job]
  BY DEF Store
<1>4. req' \in [Req -> Job]
  BY <1>2, <1>3 DEF UploadsOK
<1> QED BY <1>1, <1>4 DEF Store, UploadsOK

\* What rows name are files.
LEMMA NamedTypes == UploadsOK => Named \subseteq File
BY DEF UploadsOK, Named, Logos

\* A request that is to store a binary keeps the invariant.
LEMMA BeginAssetKeeps ==
  ASSUME UploadsInv, NEW r \in Req, NEW p \in Path, BeginAsset(r, p)
  PROVE  UploadsInv'
<1>1. UploadsOK'
  BY UploadsAssumption DEF BeginAsset, UploadsInv, UploadsOK
<1>2. Numbered'
  BY UploadsAssumption DEF BeginAsset, UploadsInv, UploadsOK, Numbered
<1>3. Ids'
  BY UploadsAssumption DEF BeginAsset, UploadsInv, UploadsOK, Ids
<1>4. OneCreates'
  BY UploadsAssumption DEF BeginAsset, UploadsInv, UploadsOK, OneCreates
<1>5. Rows'
  BY UploadsAssumption DEF BeginAsset, UploadsInv, UploadsOK, Rows
<1>6. Phases'
  BY UploadsAssumption DEF BeginAsset, UploadsInv, UploadsOK, Phases
<1>7. Ready'
  BY UploadsAssumption DEF BeginAsset, UploadsInv, UploadsOK, Ready, AssetReady,
     LogoReady, EvidenceReady
<1>8. Dropped'
  BY UploadsAssumption DEF BeginAsset, UploadsInv, UploadsOK, Dropped
<1>9. Listed'
  BY UploadsAssumption DEF BeginAsset, UploadsInv, UploadsOK, Listed
<1>10. SweptClean'
  BY UploadsAssumption DEF BeginAsset, UploadsInv, UploadsOK, SweptClean
<1>11. Homes'
  BY UploadsAssumption DEF BeginAsset, UploadsInv, UploadsOK, Homes
<1> QED BY <1>1, <1>2, <1>3, <1>4, <1>5, <1>6, <1>7, <1>8, <1>9, <1>10, <1>11
  DEF UploadsInv

\* The read of the letterhead keeps the invariant.
LEMMA BeginLogoKeeps ==
  ASSUME UploadsInv, NEW r \in Req, BeginLogo(r)
  PROVE  UploadsInv'
<1>1. UploadsOK'
  <2> DEFINE id == ItsFolder(r)
  <2>1. id \in Nat
    BY DEF UploadsInv, UploadsOK, ItsFolder
  <2>2. [Idle EXCEPT !.phase = "begun", !.kind = "logo",
                     !.seen = IF org = None THEN [id |-> id, logo |-> None] ELSE org,
                     !.fresh = IF org = None THEN id ELSE None] \in Job
    BY <2>1 DEF UploadsInv, UploadsOK
  <2> QED BY <2>1, <2>2 DEF BeginLogo, UploadsInv, UploadsOK
<1>2. Numbered'
  BY UploadsAssumption DEF BeginLogo, ItsFolder, FolderReady, NobodyCreates, UploadsInv,
     UploadsOK, Numbered
<1>3. Ids'
  BY UploadsAssumption DEF BeginLogo, ItsFolder, FolderReady, NobodyCreates, UploadsInv,
     UploadsOK, Ids, Phases
<1>4. OneCreates'
  BY UploadsAssumption DEF BeginLogo, ItsFolder, FolderReady, NobodyCreates, UploadsInv,
     UploadsOK, OneCreates
<1>5. Rows'
  BY UploadsAssumption DEF BeginLogo, ItsFolder, FolderReady, NobodyCreates, UploadsInv,
     UploadsOK, Rows
<1>6. Phases'
  BY UploadsAssumption DEF BeginLogo, ItsFolder, FolderReady, NobodyCreates, UploadsInv,
     UploadsOK, Phases
<1>7. Ready'
  <2> SUFFICES ASSUME account', NEW q \in Req
               PROVE  (AssetReady(q) /\ LogoReady(q) /\ EvidenceReady(q))'
    BY DEF Ready
  <2>1. CASE q = r
    BY <2>1, UploadsAssumption DEF BeginLogo, ItsFolder, UploadsInv, UploadsOK, Phases,
       Rows, AssetReady, LogoReady, EvidenceReady
  <2>2. CASE q # r
    BY <2>2, UploadsAssumption DEF BeginLogo, ItsFolder, UploadsInv, UploadsOK, Ready,
       AssetReady, LogoReady, EvidenceReady
  <2> QED BY <2>1, <2>2
<1>8. Dropped'
  BY UploadsAssumption DEF BeginLogo, ItsFolder, FolderReady, NobodyCreates, UploadsInv,
     UploadsOK, Dropped
<1>9. Listed'
  BY UploadsAssumption DEF BeginLogo, ItsFolder, FolderReady, NobodyCreates, UploadsInv,
     UploadsOK, Listed
<1>10. SweptClean'
  BY UploadsAssumption DEF BeginLogo, ItsFolder, FolderReady, NobodyCreates, UploadsInv,
     UploadsOK, SweptClean
<1>11. Homes'
  BY UploadsAssumption DEF BeginLogo, ItsFolder, FolderReady, NobodyCreates, UploadsInv,
     UploadsOK, Homes
<1> QED BY <1>1, <1>2, <1>3, <1>4, <1>5, <1>6, <1>7, <1>8, <1>9, <1>10, <1>11
  DEF UploadsInv

\* The lock of the project keeps the invariant.
LEMMA BeginEvidenceKeeps ==
  ASSUME UploadsInv, NEW r \in Req, BeginEvidence(r)
  PROVE  UploadsInv'
<1>1. UploadsOK'
  BY UploadsAssumption DEF BeginEvidence, UploadsInv, UploadsOK
<1>2. Numbered'
  BY UploadsAssumption DEF BeginEvidence, UploadsInv, UploadsOK, Numbered
<1>3. Ids'
  BY UploadsAssumption DEF BeginEvidence, UploadsInv, UploadsOK, Ids
<1>4. OneCreates'
  BY UploadsAssumption DEF BeginEvidence, UploadsInv, UploadsOK, OneCreates
<1>5. Rows'
  BY UploadsAssumption DEF BeginEvidence, UploadsInv, UploadsOK, Rows
<1>6. Phases'
  BY UploadsAssumption DEF BeginEvidence, UploadsInv, UploadsOK, Phases
<1>7. Ready'
  BY UploadsAssumption DEF BeginEvidence, UploadsInv, UploadsOK, Ready, AssetReady,
     LogoReady, EvidenceReady
<1>8. Dropped'
  BY UploadsAssumption DEF BeginEvidence, UploadsInv, UploadsOK, Dropped
<1>9. Listed'
  BY UploadsAssumption DEF BeginEvidence, UploadsInv, UploadsOK, Listed
<1>10. SweptClean'
  BY UploadsAssumption DEF BeginEvidence, UploadsInv, UploadsOK, SweptClean
<1>11. Homes'
  BY UploadsAssumption DEF BeginEvidence, UploadsInv, UploadsOK, Homes
<1> QED BY <1>1, <1>2, <1>3, <1>4, <1>5, <1>6, <1>7, <1>8, <1>9, <1>10, <1>11
  DEF UploadsInv

\* A patch without an image keeps the invariant.
LEMMA KeepLogoKeeps ==
  ASSUME UploadsInv, NEW r \in Req, req[r].seen # None,
         NEW logo \in {req[r].seen.logo, None}, KeepLogo(r, logo)
  PROVE  UploadsInv'
<1>1. UploadsOK'
  <2>1. logo \in File \cup {None}
    BY DEF UploadsInv, UploadsOK
  <2>2. [req[r] EXCEPT !.phase = "stored", !.file = logo] \in Job
    <3>1. req[r] \in Job /\ req[r].fresh \in Nat \cup {None}
      BY DEF UploadsInv, UploadsOK
    <3>2. [req[r] EXCEPT !.phase = "stored", !.file = logo, !.fresh = req[r].fresh] \in Job
      BY <2>1, <3>1, StoredTypes
    <3> QED BY <3>1, <3>2
  <2>3. req' = [req EXCEPT ![r] = [req[r] EXCEPT !.phase = "stored", !.file = logo]]
    BY DEF KeepLogo
  <2> QED BY <2>2, <2>3 DEF KeepLogo, UploadsInv, UploadsOK
<1>2. Numbered'
  BY UploadsAssumption DEF KeepLogo, UploadsInv, UploadsOK, Numbered
<1>3. Ids'
  BY UploadsAssumption DEF KeepLogo, UploadsInv, UploadsOK, Ids
<1>4. OneCreates'
  BY UploadsAssumption DEF KeepLogo, UploadsInv, UploadsOK, OneCreates
<1>5. Rows'
  BY UploadsAssumption DEF KeepLogo, UploadsInv, UploadsOK, Rows
<1>6. Phases'
  BY UploadsAssumption DEF KeepLogo, UploadsInv, UploadsOK, Phases
<1>7. Ready'
  BY UploadsAssumption DEF KeepLogo, UploadsInv, UploadsOK, Ready, AssetReady, LogoReady,
     EvidenceReady
<1>8. Dropped'
  BY UploadsAssumption DEF KeepLogo, UploadsInv, UploadsOK, Dropped
<1>9. Listed'
  BY UploadsAssumption DEF KeepLogo, UploadsInv, UploadsOK, Listed
<1>10. SweptClean'
  BY UploadsAssumption DEF KeepLogo, UploadsInv, UploadsOK, SweptClean
<1>11. Homes'
  BY UploadsAssumption DEF KeepLogo, UploadsInv, UploadsOK, Homes
<1> QED BY <1>1, <1>2, <1>3, <1>4, <1>5, <1>6, <1>7, <1>8, <1>9, <1>10, <1>11
  DEF UploadsInv

\* The binary goes to the storage keeps the invariant.
LEMMA StoreAssetKeeps ==
  ASSUME UploadsInv, NEW r \in Req, StoreAsset(r)
  PROVE  UploadsInv'
<1>1. UploadsOK'
  <2>1. ItsFolder(r) \in Nat
    BY DEF ItsFolder, UploadsInv, UploadsOK
  <2> QED BY <2>1, StoreTypes DEF StoreAsset, UploadsInv
<1>2. Numbered'
  BY UploadsAssumption DEF StoreAsset, Store, ItsFolder, FolderReady, NobodyCreates,
     UploadsInv, UploadsOK, Numbered
<1>3. Ids'
  BY UploadsAssumption DEF StoreAsset, Store, ItsFolder, FolderReady, NobodyCreates,
     UploadsInv, UploadsOK, Ids
<1>4. OneCreates'
  BY UploadsAssumption DEF StoreAsset, Store, ItsFolder, FolderReady, NobodyCreates,
     UploadsInv, UploadsOK, OneCreates
<1>5. Rows'
  BY UploadsAssumption DEF StoreAsset, Store, ItsFolder, FolderReady, NobodyCreates,
     UploadsInv, UploadsOK, Rows
<1>6. Phases'
  BY UploadsAssumption DEF StoreAsset, Store, ItsFolder, FolderReady, NobodyCreates,
     UploadsInv, UploadsOK, Phases
<1>7. Ready'
  <2> DEFINE file == [folder |-> ItsFolder(r), n |-> made + 1]
  <2>1. file \notin files /\ file.folder = ItsFolder(r)
    BY DEF UploadsInv, UploadsOK, Numbered
  <2>2. org # None => ItsFolder(r) = org.id /\ req'[r].fresh = req[r].fresh
    BY UploadsAssumption DEF StoreAsset, Store, ItsFolder, UploadsInv, UploadsOK, Ids
  <2>3. org = None => req'[r].fresh = ItsFolder(r) /\ ItsFolder(r) # None
    BY UploadsAssumption DEF StoreAsset, Store, ItsFolder, UploadsInv, UploadsOK, Ids
  <2> SUFFICES ASSUME account', NEW q \in Req
               PROVE  (AssetReady(q) /\ LogoReady(q) /\ EvidenceReady(q))'
    BY DEF Ready
  <2>4. CASE q = r
    BY <2>1, <2>2, <2>3, <2>4 DEF StoreAsset, Store, UploadsInv, UploadsOK, Ready,
       AssetReady, LogoReady, EvidenceReady
  <2>5. CASE q # r
    BY <2>5 DEF StoreAsset, Store, UploadsInv, UploadsOK, Ready, AssetReady, LogoReady,
       EvidenceReady
  <2> QED BY <2>4, <2>5
<1>8. Dropped'
  BY UploadsAssumption DEF StoreAsset, Store, ItsFolder, FolderReady, NobodyCreates,
     UploadsInv, UploadsOK, Dropped
<1>9. Listed'
  BY UploadsAssumption DEF StoreAsset, Store, ItsFolder, FolderReady, NobodyCreates,
     UploadsInv, UploadsOK, Numbered, Listed
<1>10. SweptClean'
  BY UploadsAssumption DEF StoreAsset, Store, ItsFolder, FolderReady, NobodyCreates,
     UploadsInv, UploadsOK, Numbered, SweptClean
<1>11. Homes'
  BY UploadsAssumption DEF StoreAsset, Store, ItsFolder, FolderReady, NobodyCreates,
     UploadsInv, UploadsOK, Numbered, Homes
<1> QED BY <1>1, <1>2, <1>3, <1>4, <1>5, <1>6, <1>7, <1>8, <1>9, <1>10, <1>11
  DEF UploadsInv

\* The logo goes to the storage keeps the invariant.
LEMMA StoreLogoKeeps ==
  ASSUME UploadsInv, NEW r \in Req, StoreLogo(r)
  PROVE  UploadsInv'
<1>1. UploadsOK'
  <2>1. req[r].seen.id \in Nat
    BY DEF StoreLogo, Store, UploadsInv, UploadsOK, Phases
  <2> QED BY <2>1, StoreTypes DEF StoreLogo, UploadsInv
<1>2. Numbered'
  BY UploadsAssumption DEF StoreLogo, Store, UploadsInv, UploadsOK, Numbered
<1>3. Ids'
  BY UploadsAssumption DEF StoreLogo, Store, UploadsInv, UploadsOK, Ids
<1>4. OneCreates'
  BY UploadsAssumption DEF StoreLogo, Store, UploadsInv, UploadsOK, OneCreates
<1>5. Rows'
  BY UploadsAssumption DEF StoreLogo, Store, UploadsInv, UploadsOK, Rows
<1>6. Phases'
  BY UploadsAssumption DEF StoreLogo, Store, UploadsInv, UploadsOK, Phases
<1>7. Ready'
  <2> DEFINE file == [folder |-> req[r].seen.id, n |-> made + 1]
  <2>1. file \notin files /\ file.folder = req[r].seen.id /\ file # None
    BY UploadsAssumption DEF StoreLogo, Store, UploadsInv, UploadsOK, Numbered, Ids, Phases
  <2>2. req'[r].fresh = req[r].fresh
    BY UploadsAssumption DEF StoreLogo, Store, UploadsInv, UploadsOK, Ids, Phases
  <2> SUFFICES ASSUME account', NEW q \in Req
               PROVE  (AssetReady(q) /\ LogoReady(q) /\ EvidenceReady(q))'
    BY DEF Ready
  <2>3. CASE q = r
    BY <2>1, <2>2, <2>3 DEF StoreLogo, Store, UploadsInv, UploadsOK, Ready, AssetReady,
       LogoReady, EvidenceReady
  <2>4. CASE q # r
    BY <2>4 DEF StoreLogo, Store, UploadsInv, UploadsOK, Ready, AssetReady, LogoReady,
       EvidenceReady
  <2> QED BY <2>3, <2>4
<1>8. Dropped'
  BY UploadsAssumption DEF StoreLogo, Store, UploadsInv, UploadsOK, Dropped
<1>9. Listed'
  BY UploadsAssumption DEF StoreLogo, Store, UploadsInv, UploadsOK, Numbered, Listed
<1>10. SweptClean'
  BY UploadsAssumption DEF StoreLogo, Store, UploadsInv, UploadsOK, Numbered, SweptClean
<1>11. Homes'
  BY UploadsAssumption DEF StoreLogo, Store, UploadsInv, UploadsOK, Numbered, Homes
<1> QED BY <1>1, <1>2, <1>3, <1>4, <1>5, <1>6, <1>7, <1>8, <1>9, <1>10, <1>11
  DEF UploadsInv

\* The photograph goes to the storage keeps the invariant.
LEMMA StoreEvidenceKeeps ==
  ASSUME UploadsInv, NEW r \in Req, StoreEvidence(r)
  PROVE  UploadsInv'
<1>1. UploadsOK'
  BY StoreTypes DEF StoreEvidence, UploadsInv
<1>2. Numbered'
  BY UploadsAssumption DEF StoreEvidence, Store, UploadsInv, UploadsOK, Numbered
<1>3. Ids'
  BY UploadsAssumption DEF StoreEvidence, Store, UploadsInv, UploadsOK, Ids
<1>4. OneCreates'
  BY UploadsAssumption DEF StoreEvidence, Store, UploadsInv, UploadsOK, OneCreates
<1>5. Rows'
  BY UploadsAssumption DEF StoreEvidence, Store, UploadsInv, UploadsOK, Rows
<1>6. Phases'
  BY UploadsAssumption DEF StoreEvidence, Store, UploadsInv, UploadsOK, Phases
<1>7. Ready'
  BY UploadsAssumption DEF StoreEvidence, Store, UploadsInv, UploadsOK, Numbered, Ids,
     OneCreates, Rows, Phases, Ready, AssetReady, LogoReady, EvidenceReady
<1>8. Dropped'
  BY UploadsAssumption DEF StoreEvidence, Store, UploadsInv, UploadsOK, Dropped
<1>9. Listed'
  BY UploadsAssumption DEF StoreEvidence, Store, UploadsInv, UploadsOK, Numbered, Listed
<1>10. SweptClean'
  BY UploadsAssumption DEF StoreEvidence, Store, UploadsInv, UploadsOK, Numbered, SweptClean
<1>11. Homes'
  BY UploadsAssumption DEF StoreEvidence, Store, UploadsInv, UploadsOK, Numbered, Homes
<1> QED BY <1>1, <1>2, <1>3, <1>4, <1>5, <1>6, <1>7, <1>8, <1>9, <1>10, <1>11
  DEF UploadsInv

\* The binary's row keeps the invariant.
LEMMA SaveAssetKeeps ==
  ASSUME UploadsInv, NEW r \in Req, SaveAsset(r)
  PROVE  UploadsInv'
<1>1. UploadsOK'
  BY UploadsAssumption DEF SaveAsset, Saved, UploadsInv, UploadsOK
<1>2. Numbered'
  BY UploadsAssumption DEF SaveAsset, Saved, UploadsInv, UploadsOK, Numbered
<1>3. Ids'
  BY UploadsAssumption DEF SaveAsset, Saved, UploadsInv, UploadsOK, Ids
<1>4. OneCreates'
  BY UploadsAssumption DEF SaveAsset, Saved, UploadsInv, UploadsOK, OneCreates
<1>5. Rows'
  <2>1. /\ account /\ req[r].file \in files /\ req[r].path \in Path
        /\ org' # None /\ req[r].file.folder = org'.id
    BY UploadsAssumption DEF SaveAsset, Saved, UploadsInv, UploadsOK, OneCreates, Ready,
       AssetReady
  <2>2. org # None => org' = org
    BY <2>1 DEF SaveAsset, UploadsInv, OneCreates
  <2>3. org = None => org'.logo = None
    BY <2>1 DEF SaveAsset
  <2> QED BY <2>1, <2>2, <2>3 DEF SaveAsset, UploadsInv, UploadsOK, Rows
<1>6. Phases'
  BY UploadsAssumption DEF SaveAsset, Saved, UploadsInv, UploadsOK, Phases
<1>7. Ready'
  BY UploadsAssumption DEF SaveAsset, Saved, UploadsInv, UploadsOK, Numbered, Ids,
     OneCreates, Rows, Phases, Ready, AssetReady, LogoReady, EvidenceReady
<1>8. Dropped'
  BY UploadsAssumption DEF SaveAsset, Saved, UploadsInv, UploadsOK, Dropped
<1>9. Listed'
  BY UploadsAssumption DEF SaveAsset, Saved, UploadsInv, UploadsOK, Listed
<1>10. SweptClean'
  BY UploadsAssumption DEF SaveAsset, Saved, UploadsInv, UploadsOK, SweptClean
<1>11. Homes'
  BY UploadsAssumption DEF SaveAsset, Saved, UploadsInv, UploadsOK, Homes, OneCreates
<1> QED BY <1>1, <1>2, <1>3, <1>4, <1>5, <1>6, <1>7, <1>8, <1>9, <1>10, <1>11
  DEF UploadsInv

\* The letterhead's row keeps the invariant.
LEMMA SaveLogoKeeps ==
  ASSUME UploadsInv, NEW r \in Req, SaveLogo(r)
  PROVE  UploadsInv'
<1>1. UploadsOK'
  BY UploadsAssumption DEF SaveLogo, Saved, UploadsInv, UploadsOK, Ids, Phases
<1>2. Numbered'
  BY UploadsAssumption DEF SaveLogo, Saved, UploadsInv, UploadsOK, Numbered
<1>3. Ids'
  BY UploadsAssumption DEF SaveLogo, Saved, UploadsInv, UploadsOK, Ids, Phases
<1>4. OneCreates'
  BY UploadsAssumption DEF SaveLogo, Saved, UploadsInv, UploadsOK, Phases, OneCreates,
     Ready, LogoReady
<1>5. Rows'
  <2>1. /\ account
        /\ req[r].file # None => req[r].file \in files /\ req[r].file.folder = req[r].seen.id
    BY DEF SaveLogo, Saved, UploadsInv, Ready, LogoReady
  <2>2. org # None => org'.id = org.id
    BY DEF SaveLogo, Saved, UploadsInv, Ready, LogoReady
  <2>3. org' # None /\ org'.logo = req[r].file /\ org'.id = req[r].seen.id
    BY UploadsAssumption DEF SaveLogo, Saved, UploadsInv, UploadsOK, Phases
  <2> QED BY <2>1, <2>2, <2>3 DEF SaveLogo, UploadsInv, UploadsOK, Rows
<1>6. Phases'
  BY UploadsAssumption DEF SaveLogo, Saved, UploadsInv, UploadsOK, Phases
<1>7. Ready'
  <2>1. org' # None /\ (org # None => org'.id = org.id) /\ account
    BY UploadsAssumption DEF SaveLogo, Saved, UploadsInv, UploadsOK, Phases, Ready,
       LogoReady
  <2>2. org = None => req[r].fresh # None
    BY <2>1, UploadsAssumption DEF SaveLogo, Saved, UploadsInv, UploadsOK, Phases,
       Ready, LogoReady
  <2> SUFFICES ASSUME NEW q \in Req
               PROVE  (AssetReady(q) /\ LogoReady(q) /\ EvidenceReady(q))'
    BY DEF Ready
  <2>3. CASE q = r
    BY <2>3 DEF SaveLogo, UploadsInv, UploadsOK, AssetReady, LogoReady, EvidenceReady
  <2>4. CASE q # r
    <3>1. req'[q] = req[q]
      BY <2>4 DEF SaveLogo, UploadsInv, UploadsOK
    <3>2. org = None => req[q].fresh = None
      BY <2>2, <2>4 DEF UploadsInv, OneCreates
    <3>3. AssetReady(q)'
      BY <2>1, <3>1, <3>2 DEF SaveLogo, UploadsInv, Ready, AssetReady
    <3>4. LogoReady(q)'
      BY <2>1, <3>1, <3>2, UploadsAssumption DEF SaveLogo, UploadsInv, UploadsOK,
         Phases, Ready, LogoReady
    <3>5. EvidenceReady(q)'
      BY <2>1, <3>1 DEF SaveLogo, UploadsInv, UploadsOK, Ready, EvidenceReady
    <3> QED BY <3>3, <3>4, <3>5
  <2> QED BY <2>3, <2>4
<1>8. Dropped'
  BY UploadsAssumption DEF SaveLogo, Saved, UploadsInv, UploadsOK, Dropped
<1>9. Listed'
  BY UploadsAssumption DEF SaveLogo, Saved, UploadsInv, UploadsOK, Listed
<1>10. SweptClean'
  BY UploadsAssumption DEF SaveLogo, Saved, UploadsInv, UploadsOK, SweptClean
<1>11. Homes'
  BY UploadsAssumption DEF SaveLogo, Saved, UploadsInv, UploadsOK, Homes, OneCreates,
     Ready, LogoReady
<1> QED BY <1>1, <1>2, <1>3, <1>4, <1>5, <1>6, <1>7, <1>8, <1>9, <1>10, <1>11
  DEF UploadsInv

\* The photograph's row keeps the invariant.
LEMMA SaveEvidenceKeeps ==
  ASSUME UploadsInv, NEW r \in Req, SaveEvidence(r)
  PROVE  UploadsInv'
<1>1. UploadsOK'
  BY UploadsAssumption DEF SaveEvidence, Saved, UploadsInv, UploadsOK, Ready, EvidenceReady
<1>2. Numbered'
  BY UploadsAssumption DEF SaveEvidence, Saved, UploadsInv, UploadsOK, Numbered
<1>3. Ids'
  BY UploadsAssumption DEF SaveEvidence, Saved, UploadsInv, UploadsOK, Ids
<1>4. OneCreates'
  BY UploadsAssumption DEF SaveEvidence, Saved, UploadsInv, UploadsOK, OneCreates
<1>5. Rows'
  BY UploadsAssumption DEF SaveEvidence, Saved, UploadsInv, UploadsOK, Ready,
     EvidenceReady, Rows
<1>6. Phases'
  BY UploadsAssumption DEF SaveEvidence, Saved, UploadsInv, UploadsOK, Phases
<1>7. Ready'
  BY UploadsAssumption DEF SaveEvidence, Saved, UploadsInv, UploadsOK, Ready, AssetReady,
     LogoReady, EvidenceReady
<1>8. Dropped'
  BY UploadsAssumption DEF SaveEvidence, Saved, UploadsInv, UploadsOK, Dropped
<1>9. Listed'
  BY UploadsAssumption DEF SaveEvidence, Saved, UploadsInv, UploadsOK, Listed
<1>10. SweptClean'
  BY UploadsAssumption DEF SaveEvidence, Saved, UploadsInv, UploadsOK, SweptClean
<1>11. Homes'
  BY UploadsAssumption DEF SaveEvidence, Saved, UploadsInv, UploadsOK, Homes
<1> QED BY <1>1, <1>2, <1>3, <1>4, <1>5, <1>6, <1>7, <1>8, <1>9, <1>10, <1>11
  DEF UploadsInv

\* A refusal or a crash keeps the invariant.
LEMMA FailKeeps ==
  ASSUME UploadsInv, NEW r \in Req, Fail(r)
  PROVE  UploadsInv'
<1>1. UploadsOK'
  BY UploadsAssumption DEF Fail, UploadsInv, UploadsOK
<1>2. Numbered'
  BY UploadsAssumption DEF Fail, UploadsInv, UploadsOK, Numbered
<1>3. Ids'
  BY UploadsAssumption DEF Fail, UploadsInv, UploadsOK, Ids
<1>4. OneCreates'
  BY UploadsAssumption DEF Fail, UploadsInv, UploadsOK, OneCreates
<1>5. Rows'
  BY UploadsAssumption DEF Fail, UploadsInv, UploadsOK, Rows
<1>6. Phases'
  BY UploadsAssumption DEF Fail, UploadsInv, UploadsOK, Phases
<1>7. Ready'
  BY UploadsAssumption DEF Fail, UploadsInv, UploadsOK, Ready, AssetReady, LogoReady,
     EvidenceReady
<1>8. Dropped'
  BY UploadsAssumption DEF Fail, UploadsInv, UploadsOK, Dropped
<1>9. Listed'
  BY UploadsAssumption DEF Fail, UploadsInv, UploadsOK, Listed
<1>10. SweptClean'
  BY UploadsAssumption DEF Fail, UploadsInv, UploadsOK, SweptClean
<1>11. Homes'
  BY UploadsAssumption DEF Fail, UploadsInv, UploadsOK, Homes
<1> QED BY <1>1, <1>2, <1>3, <1>4, <1>5, <1>6, <1>7, <1>8, <1>9, <1>10, <1>11
  DEF UploadsInv

\* The deletion of photographs keeps the invariant.
LEMMA DropEvidenceKeeps ==
  ASSUME UploadsInv, NEW r \in Req, NEW some \in SUBSET evidence, DropEvidence(r, some)
  PROVE  UploadsInv'
<1>1. UploadsOK'
  BY UploadsAssumption DEF DropEvidence, UploadsInv, UploadsOK
<1>2. Numbered'
  BY UploadsAssumption DEF DropEvidence, UploadsInv, UploadsOK, Numbered
<1>3. Ids'
  BY UploadsAssumption DEF DropEvidence, UploadsInv, UploadsOK, Ids
<1>4. OneCreates'
  BY UploadsAssumption DEF DropEvidence, UploadsInv, UploadsOK, OneCreates
<1>5. Rows'
  BY UploadsAssumption DEF DropEvidence, UploadsInv, UploadsOK, Rows
<1>6. Phases'
  BY UploadsAssumption DEF DropEvidence, UploadsInv, UploadsOK, Phases
<1>7. Ready'
  BY UploadsAssumption DEF DropEvidence, UploadsInv, UploadsOK, Ready, AssetReady,
     LogoReady, EvidenceReady
<1>8. Dropped'
  BY UploadsAssumption DEF DropEvidence, UploadsInv, UploadsOK, Numbered, Rows, Ready,
     EvidenceReady, Dropped
<1>9. Listed'
  BY UploadsAssumption DEF DropEvidence, UploadsInv, UploadsOK, Listed
<1>10. SweptClean'
  BY UploadsAssumption DEF DropEvidence, UploadsInv, UploadsOK, SweptClean
<1>11. Homes'
  BY UploadsAssumption DEF DropEvidence, UploadsInv, UploadsOK, Homes
<1> QED BY <1>1, <1>2, <1>3, <1>4, <1>5, <1>6, <1>7, <1>8, <1>9, <1>10, <1>11
  DEF UploadsInv

\* The list of a deletion keeps the invariant.
LEMMA PurgeListKeeps ==
  ASSUME UploadsInv, NEW r \in Req, PurgeList(r)
  PROVE  UploadsInv'
<1>1. UploadsOK'
  <2>1. FilesOf \subseteq File
    BY NamedTypes DEF FilesOf, UploadsInv, UploadsOK
  <2>2. [Idle EXCEPT !.phase = "listed", !.kind = "purge", !.seen = org,
                     !.list = FilesOf, !.upTo = made] \in Job
    BY <2>1 DEF UploadsInv, UploadsOK
  <2> QED BY <2>2 DEF PurgeList, UploadsInv, UploadsOK
<1>2. Numbered'
  BY UploadsAssumption DEF PurgeList, FilesOf, Named, Logos, UploadsInv, UploadsOK, Numbered
<1>3. Ids'
  BY UploadsAssumption DEF PurgeList, FilesOf, Named, Logos, UploadsInv, UploadsOK, Ids
<1>4. OneCreates'
  BY UploadsAssumption DEF PurgeList, FilesOf, Named, Logos, UploadsInv, UploadsOK,
     OneCreates
<1>5. Rows'
  BY UploadsAssumption DEF PurgeList, FilesOf, Named, Logos, UploadsInv, UploadsOK, Rows
<1>6. Phases'
  BY UploadsAssumption DEF PurgeList, FilesOf, Named, Logos, UploadsInv, UploadsOK, Phases
<1>7. Ready'
  BY UploadsAssumption DEF PurgeList, FilesOf, Named, Logos, UploadsInv, UploadsOK, Ready,
     AssetReady, LogoReady, EvidenceReady
<1>8. Dropped'
  BY UploadsAssumption DEF PurgeList, FilesOf, Named, Logos, UploadsInv, UploadsOK, Dropped
<1>9. Listed'
  BY UploadsAssumption DEF PurgeList, FilesOf, Named, Logos, UploadsInv, UploadsOK, Listed
<1>10. SweptClean'
  BY UploadsAssumption DEF PurgeList, FilesOf, Named, Logos, UploadsInv, UploadsOK,
     SweptClean
<1>11. Homes'
  BY UploadsAssumption DEF PurgeList, FilesOf, Named, Logos, UploadsInv, UploadsOK,
     Homes
<1> QED BY <1>1, <1>2, <1>3, <1>4, <1>5, <1>6, <1>7, <1>8, <1>9, <1>10, <1>11
  DEF UploadsInv

\* The deletion of the rows keeps the invariant.
LEMMA PurgeRowsKeeps ==
  ASSUME UploadsInv, NEW r \in Req, PurgeRows(r)
  PROVE  UploadsInv'
<1>1. UploadsOK'
  BY UploadsAssumption DEF PurgeRows, UploadsInv, UploadsOK
<1>2. Numbered'
  BY UploadsAssumption DEF PurgeRows, UploadsInv, UploadsOK, Numbered
<1>3. Ids'
  BY UploadsAssumption DEF PurgeRows, UploadsInv, UploadsOK, Ids
<1>4. OneCreates'
  BY UploadsAssumption DEF PurgeRows, UploadsInv, UploadsOK, OneCreates
<1>5. Rows'
  BY UploadsAssumption DEF PurgeRows, UploadsInv, UploadsOK, Rows
<1>6. Phases'
  BY UploadsAssumption DEF PurgeRows, UploadsInv, UploadsOK, Phases
<1>7. Ready'
  BY UploadsAssumption DEF PurgeRows, UploadsInv, UploadsOK, Ready, AssetReady, LogoReady,
     EvidenceReady
<1>8. Dropped'
  BY UploadsAssumption DEF PurgeRows, UploadsInv, UploadsOK, Dropped
<1>9. Listed'
  BY UploadsAssumption DEF PurgeRows, UploadsInv, UploadsOK, Listed
<1>10. SweptClean'
  BY UploadsAssumption DEF PurgeRows, UploadsInv, UploadsOK, SweptClean
<1>11. Homes'
  BY UploadsAssumption DEF PurgeRows, UploadsInv, UploadsOK, Homes
<1> QED BY <1>1, <1>2, <1>3, <1>4, <1>5, <1>6, <1>7, <1>8, <1>9, <1>10, <1>11
  DEF UploadsInv

\* The commit of a deletion keeps the invariant.
LEMMA PurgeCommitKeeps ==
  ASSUME UploadsInv, NEW r \in Req, PurgeCommit(r)
  PROVE  UploadsInv'
<1>1. UploadsOK'
  <2>1. [p \in Path |-> None] \in [Path -> File \cup {None}]
    OBVIOUS
  <2> DEFINE home == IdOf(IF org = None THEN req[r].seen ELSE org)
  <2>2. home \in Nat \cup {None}
    BY DEF UploadsInv, UploadsOK, IdOf
  <2>3. [req[r] EXCEPT !.phase = "removing", !.home = home] \in Job
    <3>1. req[r] \in Job
      BY DEF UploadsInv, UploadsOK
    <3> HIDE DEF home, Job
    <3> QED BY <2>2, <3>1, RemovingTypes
  <2>4. req' \in [Req -> Job]
    BY <2>3 DEF PurgeCommit, UploadsInv, UploadsOK
  <2> QED BY <2>1, <2>4 DEF PurgeCommit, UploadsInv, UploadsOK
<1>2. Numbered'
  BY UploadsAssumption DEF PurgeCommit, UploadsInv, UploadsOK, Numbered
<1>3. Ids'
  BY UploadsAssumption DEF PurgeCommit, UploadsInv, UploadsOK, Ids
<1>4. OneCreates'
  BY UploadsAssumption DEF PurgeCommit, UploadsInv, UploadsOK, OneCreates
<1>5. Rows'
  BY UploadsAssumption DEF PurgeCommit, UploadsInv, UploadsOK, Rows
<1>6. Phases'
  BY UploadsAssumption DEF PurgeCommit, UploadsInv, UploadsOK, Phases
<1>7. Ready'
  BY UploadsAssumption DEF PurgeCommit, UploadsInv, UploadsOK, Ready, AssetReady,
     LogoReady, EvidenceReady
<1>8. Dropped'
  BY UploadsAssumption DEF PurgeCommit, UploadsInv, UploadsOK, Dropped
<1>9. Listed'
  BY UploadsAssumption DEF PurgeCommit, UploadsInv, UploadsOK, Listed
<1>10. SweptClean'
  BY UploadsAssumption DEF PurgeCommit, UploadsInv, UploadsOK, SweptClean
<1>11. Homes'
  BY UploadsAssumption DEF PurgeCommit, UploadsInv, UploadsOK, Homes, Rows, IdOf
<1> QED BY <1>1, <1>2, <1>3, <1>4, <1>5, <1>6, <1>7, <1>8, <1>9, <1>10, <1>11
  DEF UploadsInv

\* The removal of files keeps the invariant.
LEMMA RemoveFilesKeeps ==
  ASSUME UploadsInv, NEW r \in Req, RemoveFiles(r)
  PROVE  UploadsInv'
<1>1. UploadsOK'
  <2>1. /\ IdOf(req[r].seen) \in Nat \cup {None} /\ req[r].home \in Nat \cup {None}
        /\ req[r].upTo \in Nat /\ Idle \in Job
    BY DEF UploadsInv, UploadsOK, IdOf
  <2> HIDE DEF Job, Idle
  <2> QED BY <2>1 DEF RemoveFiles, UploadsInv, UploadsOK
<1>2. Numbered'
  BY UploadsAssumption DEF RemoveFiles, UploadsInv, UploadsOK, Numbered
<1>3. Ids'
  BY UploadsAssumption DEF RemoveFiles, UploadsInv, UploadsOK, Ids
<1>4. OneCreates'
  BY UploadsAssumption DEF RemoveFiles, UploadsInv, UploadsOK, OneCreates
<1>5. Rows'
  BY UploadsAssumption DEF RemoveFiles, UploadsInv, UploadsOK, Ids, Phases, Rows, Dropped
<1>6. Phases'
  BY UploadsAssumption DEF RemoveFiles, UploadsInv, UploadsOK, Phases
<1>7. Ready'
  BY UploadsAssumption DEF RemoveFiles, UploadsInv, UploadsOK, Ids, Phases, Ready,
     AssetReady, LogoReady, EvidenceReady, Dropped
<1>8. Dropped'
  BY UploadsAssumption DEF RemoveFiles, UploadsInv, UploadsOK, Dropped
<1>9. Listed'
  BY UploadsAssumption DEF RemoveFiles, UploadsInv, UploadsOK, Listed
<1>10. SweptClean'
  <2>1. CASE req[r].kind = "drop"
    BY <2>1 DEF RemoveFiles, UploadsInv, SweptClean
  <2>2. CASE req[r].kind = "purge"
    <3> SUFFICES ASSUME NEW f \in files, f \notin req[r].list, f.n <= req[r].upTo
                 PROVE  /\ f.folder # Evidence
                        /\ f.folder = req[r].home => IdOf(req[r].seen) = None
      BY <2>2 DEF RemoveFiles, SweptClean
    <3>1. f.folder # Evidence /\ (req[r].seen # None => f.folder # req[r].seen.id)
      BY <2>2 DEF UploadsInv, Listed
    <3>2. req[r].seen # None => req[r].home = req[r].seen.id
      BY <2>2 DEF RemoveFiles, UploadsInv, Homes
    <3> QED BY <3>1, <3>2 DEF IdOf
  <2> QED BY <2>1, <2>2 DEF RemoveFiles, UploadsInv, Phases
<1>11. Homes'
  BY UploadsAssumption DEF RemoveFiles, UploadsInv, UploadsOK, Numbered, Phases, Listed,
     Homes, IdOf
<1> QED BY <1>1, <1>2, <1>3, <1>4, <1>5, <1>6, <1>7, <1>8, <1>9, <1>10, <1>11
  DEF UploadsInv

\* The invariant of the files: every state has it, whatever is stored, saved,
\* removed or cut short.
THEOREM UploadsInvariance == UploadsSpec => []UploadsInv
<1>1. UploadsInv /\ [UploadsNext]_uploadVars => UploadsInv'
  <2> SUFFICES ASSUME UploadsInv, [UploadsNext]_uploadVars
               PROVE  UploadsInv'
    OBVIOUS
  <2>1. CASE UNCHANGED uploadVars
    BY <2>1 DEF uploadVars, UploadsInv, UploadsOK, Numbered, Ids, OneCreates, Rows, Phases,
       Ready, AssetReady, LogoReady, EvidenceReady, Dropped, Listed, Homes, SweptClean
  <2>2. CASE UploadsNext
    <3>1. PICK r \in Req :
            \/ \E p \in Path : BeginAsset(r, p)
            \/ BeginLogo(r) \/ BeginEvidence(r)
            \/ req[r].seen # None /\ \E logo \in {req[r].seen.logo, None} : KeepLogo(r, logo)
            \/ StoreAsset(r) \/ StoreLogo(r) \/ StoreEvidence(r)
            \/ SaveAsset(r) \/ SaveLogo(r) \/ SaveEvidence(r) \/ Fail(r)
            \/ \E some \in SUBSET evidence : DropEvidence(r, some)
            \/ PurgeList(r) \/ PurgeRows(r) \/ PurgeCommit(r) \/ RemoveFiles(r)
      BY <2>2 DEF UploadsNext
    <3>2. CASE \E p \in Path : BeginAsset(r, p)
      BY <3>2, BeginAssetKeeps
    <3>3. CASE BeginLogo(r) \/ BeginEvidence(r)
      BY <3>3, BeginLogoKeeps, BeginEvidenceKeeps
    <3>4. CASE req[r].seen # None /\ \E logo \in {req[r].seen.logo, None} : KeepLogo(r, logo)
      BY <3>4, KeepLogoKeeps
    <3>5. CASE StoreAsset(r) \/ StoreLogo(r) \/ StoreEvidence(r)
      BY <3>5, StoreAssetKeeps, StoreLogoKeeps, StoreEvidenceKeeps
    <3>6. CASE SaveAsset(r) \/ SaveLogo(r) \/ SaveEvidence(r) \/ Fail(r)
      BY <3>6, SaveAssetKeeps, SaveLogoKeeps, SaveEvidenceKeeps, FailKeeps
    <3>7. CASE \E some \in SUBSET evidence : DropEvidence(r, some)
      BY <3>7, DropEvidenceKeeps
    <3>8. CASE PurgeList(r) \/ PurgeRows(r) \/ PurgeCommit(r) \/ RemoveFiles(r)
      BY <3>8, PurgeListKeeps, PurgeRowsKeeps, PurgeCommitKeeps, RemoveFilesKeeps
    <3> QED BY <3>1, <3>2, <3>3, <3>4, <3>5, <3>6, <3>7, <3>8
  <2> QED BY <2>1, <2>2
<1> QED BY <1>1, UploadsInitially, PTL DEF UploadsSpec

\* No row names a file that is not in storage, however many requests there are
\* and wherever they are cut short.
THEOREM RowsHaveTheirFiles == UploadsSpec => []RowHasItsFile
<1>1. UploadsInv => RowHasItsFile
  BY DEF UploadsInv, UploadsOK, Rows, RowHasItsFile, Named, Logos
<1> QED BY <1>1, UploadsInvariance, PTL

\* All an account's rows name is in the folder of the photographs or in that of
\* its letterhead, even if two first uploads create it at once.
THEOREM FilesAreInTwoFolders == UploadsSpec => []TwoFolders
<1>1. UploadsInv => TwoFolders
  BY DEF UploadsInv, UploadsOK, Rows, TwoFolders, Named, Logos
<1> QED BY <1>1, UploadsInvariance, PTL

\* A deletion that ended left nothing older than its list in the folder of the
\* photographs, nor in that of the letterhead, unless the letterhead itself came
\* after the list.
THEOREM FoldersAreSwept == UploadsSpec => []SweptClean
<1>1. UploadsInv => SweptClean
  BY DEF UploadsInv
<1> QED BY <1>1, UploadsInvariance, PTL

-----------------------------------------------------------------------------
(***************************************************************************)
(* The photographs of a day.                                               *)
(***************************************************************************)

PhotosInv == PhotosOK /\ LimitNearlyKept

\* However many conversions are under way, the limit of the day is passed by
\* those that started before the last was counted, and by no more.
THEOREM LimitIsNearlyKept == PhotosSpec => []LimitNearlyKept
<1> USE DEF PhotosInv, PhotosOK, LimitNearlyKept
<1>1. IsFiniteSet(Asker) /\ Cardinality(Asker) \in Nat /\ Cardinality(Asker) >= 1 /\ Limit \in Nat
  BY PhotosAssumption, FS_CardinalityType, FS_EmptySet
<1>2. PhotosInit => PhotosInv
  BY <1>1, FS_EmptySet DEF PhotosInit
<1>3. PhotosInv /\ [PhotosNext]_photoVars => PhotosInv'
  <2> SUFFICES ASSUME PhotosInv, [PhotosNext]_photoVars
               PROVE  PhotosInv'
    OBVIOUS
  <2>1. IsFiniteSet(reading) /\ Cardinality(reading) \in Nat
        /\ Cardinality(reading) <= Cardinality(Asker)
    BY <1>1, FS_Subset, FS_CardinalityType
  <2>2. ASSUME NEW r \in Asker, StartReading(r)
        PROVE  PhotosInv'
    <3>1. reading' \subseteq Asker /\ taken < Limit /\ taken' = taken
      BY <2>2 DEF StartReading, LeftToday
    <3>2. Cardinality(reading') <= Cardinality(Asker) /\ Cardinality(reading') \in Nat
      BY <1>1, <3>1, FS_Subset, FS_CardinalityType
    <3> QED BY <1>1, <3>1, <3>2
  <2>3. ASSUME NEW r \in Asker, EndUncounted(r)
        PROVE  PhotosInv'
    <3>1. Cardinality(reading') = Cardinality(reading) - 1
      BY <2>1, <2>3, FS_RemoveElement DEF EndUncounted
    <3> QED BY <1>1, <2>1, <2>3, <3>1 DEF EndUncounted
  <2>4. ASSUME NEW r \in Asker, EndCounted(r)
        PROVE  PhotosInv'
    <3>1. Cardinality(reading') = Cardinality(reading) - 1
      BY <2>1, <2>4, FS_RemoveElement DEF EndCounted
    <3> QED BY <1>1, <2>1, <2>4, <3>1 DEF EndCounted
  <2>5. CASE NewDay
    BY <1>1, <2>1, <2>5 DEF NewDay
  <2>6. CASE UNCHANGED photoVars
    BY <2>6 DEF photoVars
  <2> QED BY <2>2, <2>3, <2>4, <2>5, <2>6 DEF PhotosNext
<1>4. PhotosInv => LimitNearlyKept
  OBVIOUS
<1> QED BY <1>2, <1>3, <1>4, PTL DEF PhotosSpec

-----------------------------------------------------------------------------
(***************************************************************************)
(* The catalogue.                                                          *)
(***************************************************************************)

\* Rows and batches have their fields; a request that is storing a batch gives
\* something, and what no other changed since is as the request read it.
CatalogOK ==
    /\ catalog = [m \in Model |-> [row |-> catalog[m].row, fiche |-> catalog[m].fiche]]
    /\ batch = [r \in Device |-> [given |-> batch[r].given, read |-> batch[r].read,
                                  raced |-> batch[r].raced]]
AsRead ==
    \A r \in Device : ~Free(r) =>
       /\ \E m \in Model : batch[r].given[m] # NoFiche
       /\ \A m \in Model \ batch[r].raced : catalog[m] = batch[r].read[m]
CatalogInv == CatalogOK /\ AsRead

\* Others are told what changed, and know all else as it was.
LEMMA TellKeeps ==
  ASSUME CatalogInv, NEW r \in Device, NEW ids, Tell(r, ids), CatalogOK',
         \A m \in Model \ ids : catalog'[m] = catalog[m]
  PROVE  AsRead'
<1> SUFFICES ASSUME NEW q \in Device, ~Free(q)'
             PROVE  /\ \E m \in Model : batch'[q].given[m] # NoFiche
                    /\ \A m \in Model \ batch'[q].raced : catalog'[m] = batch'[q].read[m]
  BY DEF AsRead
<1>1. q # r /\ ~Free(q)
  BY DEF Tell, Free
<1>2. /\ batch'[q].given = batch[q].given /\ batch'[q].read = batch[q].read
      /\ batch'[q].raced = batch[q].raced \cup ids
  BY <1>1 DEF Tell, CatalogInv, CatalogOK
<1> QED BY <1>1, <1>2 DEF CatalogInv, AsRead

\* Rows and batches that are what they were, or new, have their fields.
LEMMA Fields ==
  ASSUME catalog' = [m \in Model |-> catalog'[m]], batch' = [q \in Device |-> batch'[q]],
         \A m \in Model : catalog'[m] = [row |-> catalog'[m].row, fiche |-> catalog'[m].fiche],
         \A q \in Device : batch'[q] = [given |-> batch'[q].given, read |-> batch'[q].read,
                                        raced |-> batch'[q].raced]
  PROVE  CatalogOK'
BY DEF CatalogOK

\* The read of a batch keeps the invariant.
LEMMA ReadModelsKeeps ==
  ASSUME CatalogInv, NEW r \in Device, NEW given \in [Model -> Fiche \cup {NoFiche}],
         ReadModels(r, given)
  PROVE  CatalogInv'
BY DEF CatalogInv, CatalogOK, AsRead, ReadModels, Free

\* A refusal keeps the invariant.
LEMMA RefuseModelsKeeps ==
  ASSUME CatalogInv, NEW r \in Device, RefuseModels(r)
  PROVE  CatalogInv'
BY DEF CatalogInv, CatalogOK, AsRead, RefuseModels, Free, NoBatch

\* A removal keeps the invariant.
LEMMA RemoveModelsKeeps ==
  ASSUME CatalogInv, NEW ids \in SUBSET Model, RemoveModels(ids)
  PROVE  CatalogInv'
<1>1. \A m \in Model : catalog'[m] = IF m \in ids THEN Nothing ELSE catalog[m]
  BY DEF RemoveModels
<1>2. \A q \in Device :
        batch'[q] = IF Free(q) THEN batch[q] ELSE [batch[q] EXCEPT !.raced = @ \cup ids]
  BY DEF RemoveModels
<1>3. \A m \in Model : catalog[m] = [row |-> catalog[m].row, fiche |-> catalog[m].fiche]
  BY DEF CatalogInv, CatalogOK
<1>4. \A q \in Device : batch[q] = [given |-> batch[q].given, read |-> batch[q].read,
                                    raced |-> batch[q].raced]
  BY DEF CatalogInv, CatalogOK
<1>5. CatalogOK'
  <2>1. \A m \in Model : catalog'[m] = [row |-> catalog'[m].row, fiche |-> catalog'[m].fiche]
    BY <1>1, <1>3 DEF Nothing
  <2>2. \A q \in Device : batch'[q] = [given |-> batch'[q].given, read |-> batch'[q].read,
                                       raced |-> batch'[q].raced]
    BY <1>2, <1>4
  <2>3. catalog' = [m \in Model |-> catalog'[m]] /\ batch' = [q \in Device |-> batch'[q]]
    BY DEF RemoveModels
  <2> QED BY <2>1, <2>2, <2>3, Fields
<1>6. AsRead'
  <2> SUFFICES ASSUME NEW q \in Device, ~Free(q)'
               PROVE  /\ \E m \in Model : batch'[q].given[m] # NoFiche
                      /\ \A m \in Model \ batch'[q].raced : catalog'[m] = batch'[q].read[m]
    BY DEF AsRead
  <2>1. ~Free(q)
    BY <1>2 DEF Free
  <2>2. /\ batch'[q].given = batch[q].given /\ batch'[q].read = batch[q].read
        /\ batch'[q].raced = batch[q].raced \cup ids
    BY <1>2, <1>4, <2>1
  <2> QED BY <1>1, <2>1, <2>2 DEF CatalogInv, AsRead
<1> QED BY <1>5, <1>6 DEF CatalogInv

\* The storing of a batch keeps the invariant.
LEMMA StoreModelsKeeps ==
  ASSUME CatalogInv, NEW r \in Device, StoreModels(r)
  PROVE  CatalogInv'
<1> DEFINE updated == {m \in Changed(r) : catalog[m].row = batch[r].read[m].row}
<1>1. CatalogOK'
  <2> DEFINE row(m) == [row |-> catalog[m].row, fiche |-> catalog[m].fiche]
  <2>1. \A m \in Model : catalog[m] = row(m)
    BY DEF CatalogInv, CatalogOK
  <2>2. \A q \in Device : batch[q] = [given |-> batch[q].given, read |-> batch[q].read,
                                      raced |-> batch[q].raced]
    BY DEF CatalogInv, CatalogOK
  <2>3. \A m \in Model :
          \/ \E n : catalog'[m] = [row |-> n, fiche |-> batch[r].given[m]]
          \/ catalog'[m] = [catalog[m] EXCEPT !.fiche = batch[r].given[m]]
          \/ catalog'[m] = catalog[m]
    BY DEF StoreModels
  <2>4. \A m \in Model : catalog'[m] = [row |-> catalog'[m].row, fiche |-> catalog'[m].fiche]
    <3> SUFFICES ASSUME NEW m \in Model
                 PROVE  catalog'[m] = [row |-> catalog'[m].row, fiche |-> catalog'[m].fiche]
      OBVIOUS
    <3>1. ASSUME NEW n, catalog'[m] = [row |-> n, fiche |-> batch[r].given[m]]
          PROVE  catalog'[m] = [row |-> catalog'[m].row, fiche |-> catalog'[m].fiche]
      BY <3>1
    <3>2. CASE catalog'[m] = [catalog[m] EXCEPT !.fiche = batch[r].given[m]]
      BY <2>1, <3>2
    <3>3. CASE catalog'[m] = catalog[m]
      BY <2>1, <3>3
    <3> QED BY <2>3, <3>1, <3>2, <3>3
  <2>5. \A q \in Device : \/ batch'[q] = NoBatch \/ batch'[q] = batch[q]
                          \/ \E ids : batch'[q] = [batch[q] EXCEPT !.raced = @ \cup ids]
    BY DEF StoreModels, Tell
  <2>6. \A q \in Device : batch'[q] = [given |-> batch'[q].given, read |-> batch'[q].read,
                                       raced |-> batch'[q].raced]
    <3> SUFFICES ASSUME NEW q \in Device
                 PROVE  batch'[q] = [given |-> batch'[q].given, read |-> batch'[q].read,
                                     raced |-> batch'[q].raced]
      OBVIOUS
    <3>1. CASE batch'[q] = NoBatch
      BY <3>1 DEF NoBatch
    <3>2. ASSUME NEW ids, batch'[q] = [batch[q] EXCEPT !.raced = @ \cup ids]
          PROVE  batch'[q] = [given |-> batch'[q].given, read |-> batch'[q].read,
                              raced |-> batch'[q].raced]
      BY <2>2, <3>2
    <3>3. CASE batch'[q] = batch[q]
      BY <2>2, <3>3
    <3> QED BY <2>5, <3>1, <3>2, <3>3
  <2>7. catalog' = [m \in Model |-> catalog'[m]] /\ batch' = [q \in Device |-> batch'[q]]
    BY DEF StoreModels, Tell
  <2> QED BY <2>4, <2>6, <2>7, Fields
<1>2. \A m \in Model \ (New(r) \cup updated) : catalog'[m] = catalog[m]
  BY DEF StoreModels
<1>3. Tell(r, New(r) \cup updated)
  BY DEF StoreModels
<1> QED BY <1>1, <1>2, <1>3, TellKeeps DEF CatalogInv

\* What a batch gave and nobody raced for is in the catalogue.
LEMMA StoredStands ==
  ASSUME CatalogInv, NEW r \in Device, StoreModels(r), NEW m \in Given(r) \ batch[r].raced
  PROVE  catalog'[m].fiche = batch[r].given[m]
<1>1. m \in Model /\ catalog[m] = batch[r].read[m]
  BY DEF StoreModels, CatalogInv, AsRead, Given
<1>2. CASE m \in New(r)
  BY <1>1, <1>2 DEF StoreModels
<1>3. CASE m \in Changed(r)
  <2>1. m \notin New(r) /\ catalog[m].row = batch[r].read[m].row
    BY <1>1, <1>3 DEF Changed
  <2>2. catalog'[m] = [catalog[m] EXCEPT !.fiche = batch[r].given[m]]
    BY <1>1, <1>3, <2>1 DEF StoreModels
  <2>3. catalog[m] = [row |-> catalog[m].row, fiche |-> catalog[m].fiche]
    BY <1>1 DEF CatalogInv, CatalogOK
  <2> QED BY <2>2, <2>3
<1>4. CASE m \notin New(r) /\ m \notin Changed(r)
  BY <1>1, <1>4 DEF StoreModels, Changed
<1> QED BY <1>2, <1>3, <1>4

\* A batch answered as stored is in the catalogue but for what others changed,
\* for any number of devices, models and fiches.
THEOREM StoredBatchIsThere == CatalogSpec => StoredIsThere
<1>1. CatalogInit => CatalogInv
  BY DEF CatalogInit, CatalogInv, CatalogOK, AsRead, Free, NoBatch, Nothing
<1>2. CatalogInv /\ [CatalogNext]_catalogVars => CatalogInv'
  <2> SUFFICES ASSUME CatalogInv, [CatalogNext]_catalogVars
               PROVE  CatalogInv'
    OBVIOUS
  <2>1. CASE CatalogNext
    BY <2>1, ReadModelsKeeps, RefuseModelsKeeps, RemoveModelsKeeps, StoreModelsKeeps
       DEF CatalogNext
  <2>2. CASE UNCHANGED catalogVars
    BY <2>2 DEF catalogVars, CatalogInv, CatalogOK, AsRead, Free
  <2> QED BY <2>1, <2>2
<1>3. CatalogInv /\ [CatalogNext]_catalogVars =>
        [\A r \in Device :
           ~Free(r) /\ batch'[r] = NoBatch /\ catalog' # catalog =>
              \A m \in Given(r) \ batch[r].raced :
                 catalog'[m].fiche = batch[r].given[m]]_catalogVars
  <2> SUFFICES ASSUME CatalogInv, CatalogNext, NEW r \in Device,
                      ~Free(r), batch'[r] = NoBatch, catalog' # catalog,
                      NEW m \in Given(r) \ batch[r].raced
               PROVE  catalog'[m].fiche = batch[r].given[m]
    OBVIOUS
  <2>1. ~ \E ids \in SUBSET Model : RemoveModels(ids)
    BY DEF RemoveModels, CatalogInv, CatalogOK, AsRead, Free, NoBatch
  <2>2. PICK q \in Device : StoreModels(q)
    BY <2>1 DEF CatalogNext, ReadModels, RefuseModels
  <2>3. q = r
    BY <2>2 DEF StoreModels, Tell, CatalogInv, CatalogOK, AsRead, Free, NoBatch
  <2> QED BY <2>2, <2>3, StoredStands
<1> QED BY <1>1, <1>2, <1>3, PTL DEF CatalogSpec, StoredIsThere

(***************************************************************************)
(* The lines of a quote with its plan.  First what a selection of the      *)
(* entries of a sequence is, by the rank of their places.                  *)
(***************************************************************************)

\* How many of a set of places come up to one of them.
Rank(at, i) == Cardinality({j \in at : j <= i})
RankIn(at) == [i \in at |-> Rank(at, i)]

LEMMA RanksCount ==
  ASSUME NEW at \in SUBSET Nat, IsFiniteSet(at)
  PROVE  /\ Cardinality(at) \in Nat
         /\ \A i \in at : Rank(at, i) \in 1..Cardinality(at)
         /\ \A i, j \in at : i < j => Rank(at, i) < Rank(at, j)
<1> DEFINE upTo(i) == {j \in at : j <= i}
<1>1. \A i \in at : /\ IsFiniteSet(upTo(i)) /\ Cardinality(upTo(i)) <= Cardinality(at)
                    /\ Cardinality(upTo(i)) \in Nat
  BY FS_Subset, FS_CardinalityType
<1>2. ASSUME NEW i \in at
      PROVE  Cardinality(upTo(i)) # 0
  <2>1. i \in upTo(i)
    OBVIOUS
  <2> QED BY <1>1, <2>1, FS_EmptySet
<1>3. ASSUME NEW i \in at, NEW j \in at, i < j
      PROVE  Cardinality(upTo(i)) < Cardinality(upTo(j))
  <2>1. upTo(i) \in SUBSET upTo(j) /\ j \in upTo(j) /\ j \notin upTo(i)
    <3>1. i \in Nat /\ j \in Nat /\ at \subseteq Nat /\ i < j
      BY <1>3
    <3>2. \A m \in at : m <= i => m <= j
      BY <3>1
    <3>3. upTo(i) \subseteq upTo(j)
      BY <3>2
    <3>4. j \in upTo(j)
      BY <3>1
    <3>5. j \notin upTo(i)
      BY <3>1
    <3> QED BY <3>3, <3>4, <3>5
  <2>2. Cardinality(upTo(i)) <= Cardinality(upTo(j)) /\ Cardinality(upTo(i)) # Cardinality(upTo(j))
    <3> HIDE DEF upTo
    <3> QED BY <1>1, <2>1, FS_Subset
  <2> QED BY <1>1, <2>2
<1>4. Cardinality(at) \in Nat
  BY FS_CardinalityType
<1> QED BY <1>1, <1>2, <1>3, <1>4 DEF Rank

LEMMA RanksDiffer ==
  ASSUME NEW at \in SUBSET Nat, IsFiniteSet(at), NEW i \in at, NEW j \in at
  PROVE  Rank(at, i) = Rank(at, j) => i = j
<1>1. i < j \/ j < i \/ i = j
  OBVIOUS
<1>2. Rank(at, i) \in Nat /\ Rank(at, j) \in Nat
  BY RanksCount
<1>3. i < j => Rank(at, i) < Rank(at, j)
  BY RanksCount
<1>4. j < i => Rank(at, j) < Rank(at, i)
  BY RanksCount
<1> QED BY <1>1, <1>2, <1>3, <1>4

\* As many places as ranks, and none shared: each rank is of one place.
LEMMA PlacesAreRanks ==
  ASSUME NEW at \in SUBSET Nat, IsFiniteSet(at)
  PROVE  /\ \A k \in 1..Cardinality(at) : Place(at, k) \in at /\ Rank(at, Place(at, k)) = k
         /\ \A i \in at : Place(at, Rank(at, i)) = i
<1> DEFINE n == Cardinality(at)
<1>1. n \in Nat /\ IsFiniteSet(1..n) /\ Cardinality(1..n) = n
  BY RanksCount, FS_Interval
<1>2. RankIn(at) \in Injection(at, 1..n)
  BY RanksCount, RanksDiffer DEF RankIn, Injection, IsInjective
<1>3. RankIn(at) \in Surjection(at, 1..n)
  <2> HIDE DEF n
  <2> QED BY <1>1, <1>2, FS_Injection DEF n
<1>4. ASSUME NEW k \in 1..n
      PROVE  \E i \in at : Rank(at, i) = k
  BY <1>3 DEF Surjection, RankIn
<1>5. ASSUME NEW k \in 1..n
      PROVE  Place(at, k) \in at /\ Rank(at, Place(at, k)) = k
  BY <1>4, <1>5 DEF Place, Rank
<1>6. ASSUME NEW i \in at
      PROVE  Place(at, Rank(at, i)) = i
  <2>1. Rank(at, i) \in 1..n
    BY RanksCount
  <2>2. Place(at, Rank(at, i)) \in at /\ Rank(at, Place(at, Rank(at, i))) = Rank(at, i)
    BY <1>5, <2>1
  <2>3. \A p, q \in at : Rank(at, p) = Rank(at, q) => p = q
    BY RanksDiffer
  <2> QED BY <2>2, <2>3
<1> QED BY <1>5, <1>6
LEMMA ThoseAre ==
  ASSUME NEW at \in SUBSET Nat, IsFiniteSet(at), NEW seq
  PROVE  /\ DOMAIN Those(seq, at) = 1..Cardinality(at)
         /\ \A k \in 1..Cardinality(at) :
              Place(at, k) \in at /\ Those(seq, at)[k] = seq[Place(at, k)]
         /\ \A i \in at : \E k \in 1..Cardinality(at) :
              Place(at, k) = i /\ Those(seq, at)[k] = seq[i]
<1>1. \A k \in 1..Cardinality(at) :
        Place(at, k) \in at /\ Those(seq, at)[k] = seq[Place(at, k)]
  BY PlacesAreRanks DEF Those
<1>2. DOMAIN Those(seq, at) = 1..Cardinality(at)
  BY DEF Those
<1>3. ASSUME NEW i \in at
      PROVE  \E k \in 1..Cardinality(at) : Place(at, k) = i /\ Those(seq, at)[k] = seq[i]
  <2>1. Rank(at, i) \in 1..Cardinality(at) /\ Place(at, Rank(at, i)) = i
    BY RanksCount, PlacesAreRanks
  <2> QED BY <1>1, <2>1
<1> QED BY <1>1, <1>2, <1>3

LEMMA ThoseAreEntries ==
  ASSUME NEW at \in SUBSET Nat, IsFiniteSet(at), NEW seq, NEW S,
         \A i \in at : seq[i] \in S
  PROVE  Those(seq, at) \in Seq(S) /\ Len(Those(seq, at)) = Cardinality(at)
<1>1. Cardinality(at) \in Nat
  BY RanksCount
<1>2. \A k \in 1..Cardinality(at) : Those(seq, at)[k] \in S
  <2>1. \A k \in 1..Cardinality(at) :
          Place(at, k) \in at /\ Those(seq, at)[k] = seq[Place(at, k)]
    BY ThoseAre
  <2> QED BY <2>1
<1>3. Those(seq, at) \in [1..Cardinality(at) -> S]
  BY <1>2 DEF Those
<1> QED BY <1>1, <1>3

\* Places that go one to one, in the same order and with the same entries, give
\* the same selection.
LEMMA ThoseAreSame ==
  ASSUME NEW A \in SUBSET Nat, IsFiniteSet(A), NEW B \in SUBSET Nat, IsFiniteSet(B),
         NEW s, NEW t, NEW g \in Surjection(A, B),
         \A i, j \in A : i < j => g[i] < g[j],
         \A i \in A : t[g[i]] = s[i]
  PROVE  Those(s, A) = Those(t, B)
<1>1. g \in [A -> B] /\ (\A m \in B : \E i \in A : g[i] = m) /\ A \subseteq Nat /\ B \subseteq Nat
  BY DEF Surjection
<1>2. \A i, j \in A : i <= j <=> g[i] <= g[j]
  <2> TAKE i, j \in A
  <2>1. i \in Nat /\ j \in Nat /\ g[i] \in Nat /\ g[j] \in Nat
    BY <1>1
  <2>2. (i < j => g[i] < g[j]) /\ (j < i => g[j] < g[i])
    OBVIOUS
  <2> QED BY <2>1, <2>2
<1>3. \A i, j \in A : g[i] = g[j] => i = j
  <2> TAKE i, j \in A
  <2>1. i \in Nat /\ j \in Nat /\ g[i] \in Nat /\ g[j] \in Nat
    BY <1>1
  <2> QED BY <1>2, <2>1
<1>4. ASSUME NEW P \in SUBSET A, NEW Q \in SUBSET B,
             \A i \in A : i \in P <=> g[i] \in Q
      PROVE  Cardinality(P) = Cardinality(Q)
  <2>1. IsFiniteSet(P)
    BY FS_Subset
  <2> DEFINE h == [i \in P |-> g[i]]
  <2>2. h \in Bijection(P, Q)
    BY <1>1, <1>3, <1>4 DEF Bijection, Surjection, Injection, IsInjective
  <2>3. ExistsBijection(P, Q)
    <3> HIDE DEF h
    <3> QED BY <2>2 DEF ExistsBijection
  <2> QED BY <2>1, <2>3, FS_Bijection
<1>5. Cardinality(A) = Cardinality(B)
  BY <1>1, <1>4
<1>6. ASSUME NEW i \in A
      PROVE  Rank(A, i) = Rank(B, g[i])
  <2>1. \A j \in A : j \in {n \in A : n <= i} <=> g[j] \in {n \in B : n <= g[i]}
    BY <1>1, <1>2
  <2> QED BY <1>4, <2>1 DEF Rank
<1>7. ASSUME NEW k \in 1..Cardinality(A)
      PROVE  s[Place(A, k)] = t[Place(B, k)]
  <2>1. Place(A, k) \in A /\ Rank(A, Place(A, k)) = k
    BY PlacesAreRanks
  <2>2. g[Place(A, k)] \in B /\ Rank(B, g[Place(A, k)]) = k
    BY <1>1, <1>6, <2>1
  <2>3. Place(B, k) = g[Place(A, k)]
    BY <2>2, PlacesAreRanks
  <2> QED BY <2>1, <2>3
<1> QED BY <1>5, <1>7 DEF Those

LEMMA LargestPlace ==
  ASSUME NEW n \in Nat, NEW T \in SUBSET (1..n), T # {}
  PROVE  \E x \in T : \A y \in T : y <= x
<1> DEFINE c == Cardinality(T)
<1>1. IsFiniteSet(1..n)
  BY FS_Interval
<1>2. IsFiniteSet(T) /\ c \in Nat /\ c # 0 /\ T \in SUBSET Nat
  <2>1. IsFiniteSet(T)
    BY <1>1, FS_Subset
  <2>2. T \in SUBSET Nat
    OBVIOUS
  <2> QED BY <2>1, <2>2, FS_CardinalityType, FS_EmptySet
<1>3. c \in 1..c
  BY <1>2
<1>4. Place(T, c) \in T /\ Rank(T, Place(T, c)) = c
  <2> HIDE DEF c
  <2> QED BY <1>2, <1>3, PlacesAreRanks DEF c
<1>5. ASSUME NEW y \in T
      PROVE  y <= Place(T, c)
  <2>1. Rank(T, y) \in 1..c /\ (Place(T, c) < y => Rank(T, Place(T, c)) < Rank(T, y))
    BY <1>2, <1>4, RanksCount
  <2> HIDE DEF c
  <2>2. ~(Place(T, c) < y)
    BY <1>2, <1>4, <2>1
  <2>3. y \in Nat /\ Place(T, c) \in Nat
    BY <1>2, <1>4
  <2> QED BY <2>2, <2>3
<1> QED BY <1>4, <1>5

\* A line of a quote whose rooms fit in it, and what a screen says of a line.
FitLine ==
    {l \in [tariff : Tariff, quantity : Amount, price : Price, plan : BOOLEAN,
            rooms : Nat, hand : BOOLEAN] : l.rooms <= l.quantity}
Entry == [tariff : Tariff, quantity : Amount, price : Price, hand : BOOLEAN]
LinesOK == lines \in Seq(FitLine)

LEMMA LastOfIs ==
  ASSUME LinesOK, NEW t
  PROVE  /\ LastOf(lines, t) \in 0..Len(lines)
         /\ LastOf(lines, t) # 0 =>
              /\ lines[LastOf(lines, t)].plan
              /\ lines[LastOf(lines, t)].tariff = t
         /\ LastOf(lines, t) = 0 => \A i \in 1..Len(lines) : lines[i].plan => lines[i].tariff # t
<1> DEFINE at == {i \in DOMAIN lines : lines[i].plan /\ lines[i].tariff = t}
<1>1. Len(lines) \in Nat /\ DOMAIN lines = 1..Len(lines)
  BY DEF LinesOK
<1>2. CASE at = {}
  BY <1>1, <1>2 DEF LastOf
<1>3. CASE at # {}
  <2>1. \E x \in at : \A y \in at : y <= x
    <3>1. at \in SUBSET (1..Len(lines))
      BY <1>1
    <3> HIDE DEF at
    <3> QED BY <1>1, <1>3, <3>1, LargestPlace
  <2>2. LastOf(lines, t) = CHOOSE x \in at : \A y \in at : y <= x
    BY <1>3 DEF LastOf
  <2>3. LastOf(lines, t) \in at
    <3> HIDE DEF at
    <3> QED BY <2>1, <2>2
  <2> QED BY <1>1, <2>3
<1> QED BY <1>2, <1>3

LEMMA LastGivenIs ==
  ASSUME NEW items \in Seq(Measured), NEW t
  PROVE  /\ LastGiven(items, t) \in 0..Len(items)
         /\ LastGiven(items, t) # 0 => items[LastGiven(items, t)].tariff = t
         /\ LastGiven(items, t) = 0 => \A i \in 1..Len(items) : items[i].tariff # t
<1> DEFINE I == {i \in 1..Len(items) : items[i].tariff = t}
<1>1. Len(items) \in Nat
  OBVIOUS
<1>2. LastGiven(items, t) = IF I # {} THEN Max(I) ELSE 0
  BY DEF LastGiven, SelectLastInSeq
<1>3. CASE I # {}
  <2>1. \E x \in I : \A y \in I : y <= x
    <3>1. I \in SUBSET (1..Len(items))
      OBVIOUS
    <3> HIDE DEF I
    <3> QED BY <1>1, <1>3, <3>1, LargestPlace
  <2>2. \E x \in I : \A y \in I : x >= y
    BY <1>1, <2>1
  <2>3. Max(I) \in I
    <3> HIDE DEF I
    <3> QED BY <2>2 DEF Max
  <2> QED BY <1>2, <1>3, <2>3
<1>4. CASE I = {}
  BY <1>2, <1>4, <1>1
<1> QED BY <1>3, <1>4

LEMMA EditsAre ==
  ASSUME LinesOK, NEW items \in Edits
  PROVE  items \in Seq(Entry)
<1>1. PICK at \in SUBSET DOMAIN lines :
        items \in {edited \o more : edited \in Edited(Those(lines, at)), more \in Added}
  BY DEF Edits
<1>2. PICK e \in Edited(Those(lines, at)), a \in Added : items = e \o a
  BY <1>1
<1> DEFINE left == Those(lines, at)
<1>3. left \in Seq(FitLine)
  <2>1. Len(lines) \in Nat /\ at \in SUBSET (1..Len(lines)) /\ \A i \in at : lines[i] \in FitLine
    BY DEF LinesOK
  <2>2. IsFiniteSet(1..Len(lines)) /\ 1..Len(lines) \subseteq Nat
    BY <2>1, FS_Interval
  <2>3. at \in SUBSET Nat /\ IsFiniteSet(at)
    BY <2>1, <2>2, FS_Subset
  <2> QED BY <2>1, <2>3, ThoseAreEntries
<1>4. e \in Seq(Entry)
  <2> HIDE DEF left
  <2>1. Len(left) \in Nat /\ DOMAIN left = 1..Len(left)
        /\ \A i \in 1..Len(left) : left[i] \in FitLine
    BY <1>3
  <2>2. e \in Edited(left)
    BY <1>2 DEF left
  <2>3. PICK quantity \in [DOMAIN left -> Amount] :
          e = [i \in DOMAIN left |-> Sent(left[i], quantity[i])]
    BY <2>2 DEF Edited
  <2>4. \A i \in 1..Len(left) : Sent(left[i], quantity[i]) \in Entry
    BY <2>1 DEF Sent, FitLine, Entry
  <2>5. e \in [1..Len(left) -> Entry]
    BY <2>1, <2>3, <2>4
  <2> QED BY <2>1, <2>5
<1>5. a \in Seq(Entry)
  <2>1. CASE a = <<>>
    BY <2>1
  <2>2. ASSUME NEW m \in [tariff : Tariff, quantity : Amount, price : {ListPrice}, hand : {TRUE}],
               a = <<m>>
        PROVE  a \in Seq(Entry)
    <3>1. m \in Entry
      BY QuotePlanAssumption DEF Entry
    <3> QED BY <2>2, <3>1
  <2> QED BY <2>1, <2>2 DEF Added
<1> QED BY <1>2, <1>4, <1>5, ConcatProperties

LEMMA AmountsAreNat == (\A q \in Amount \cup {0} : q \in Nat) /\ ListPrice \in Price
  BY QuotePlanAssumption

LEMMA MeasuredFits ==
  ASSUME NEW item \in Measured
  PROVE  AsLine(item) \in FitLine
<1>1. /\ item.tariff \in Tariff /\ item.quantity \in Amount
      /\ item.rooms \in Amount \cup {0} /\ item.rooms <= item.quantity
  BY DEF Measured
<1>2. item.rooms \in Nat
  BY <1>1, AmountsAreNat
<1> QED BY <1>1, <1>2, AmountsAreNat DEF AsLine, Line, FitLine

LEMMA RewrittenFits ==
  ASSUME LinesOK, NEW items \in Seq(Entry)
  PROVE  Rewritten(items) \in Seq(FitLine)
<1>1. Len(items) \in Nat /\ DOMAIN items = 1..Len(items)
  OBVIOUS
<1>2. ASSUME NEW i \in 1..Len(items)
      PROVE  Rewritten(items)[i] \in FitLine
  <2> DEFINE previous == LastOf(lines, items[i].tariff)
             rooms == IF FirstIn(items, i) THEN KeptRooms(previous, items[i].quantity) ELSE 0
  <2>1. items[i] \in Entry
    BY <1>1
  <2>2. items[i].quantity \in Nat
    BY <2>1, AmountsAreNat DEF Entry
  <2>3. previous \in 0..Len(lines)
    BY LastOfIs
  <2>4. rooms \in Nat /\ rooms <= items[i].quantity
    <3>1. CASE previous = 0
      BY <2>2, <3>1 DEF KeptRooms
    <3>2. CASE previous # 0
      <4>1. lines[previous].rooms \in Nat
        BY <2>3, <3>2 DEF LinesOK, FitLine
      <4> HIDE DEF previous
      <4> QED BY <2>2, <4>1 DEF KeptRooms
    <3> QED BY <3>1, <3>2
  <2>5. Rewritten(items)[i] = Line(items[i].tariff, items[i].quantity, items[i].price,
                                    previous # 0, rooms, items[i].hand)
    BY <1>1 DEF Rewritten
  <2> HIDE DEF previous, rooms
  <2> QED BY <2>1, <2>4, <2>5 DEF Line, FitLine, Entry
<1>3. Rewritten(items) \in [1..Len(items) -> FitLine]
  BY <1>1, <1>2 DEF Rewritten
<1> QED BY <1>1, <1>3

\* The lines of the quote a synchronisation keeps, and those of the payload it adds.
KeptAt(items) == {i \in DOMAIN lines : lines[i].plan => lines[i].tariff \in Tariffs(items)}
NewAt(items) == {i \in DOMAIN items : LastOf(lines, items[i].tariff) = 0}

LEMMA TakenAre ==
  ASSUME LinesOK, NEW items \in Seq(Measured), NEW i \in 1..Len(lines)
  PROVE  /\ Taken(items)[i] \in FitLine
         /\ Taken(items)[i].plan = lines[i].plan
         /\ Taken(items)[i].tariff = lines[i].tariff
         /\ Taken(items)[i].price = lines[i].price
         /\ ~lines[i].plan => Taken(items)[i] = lines[i]
         /\ \A j \in 1..Len(items) :
              lines[i].plan /\ LastOf(lines, lines[i].tariff) = i
                /\ LastGiven(items, lines[i].tariff) = j =>
                Taken(items)[i] = [lines[i] EXCEPT !.quantity = items[j].quantity,
                                                   !.rooms = items[j].rooms]
<1> DEFINE j == LastGiven(items, lines[i].tariff)
<1>1. lines[i] \in FitLine /\ DOMAIN lines = 1..Len(lines)
  BY DEF LinesOK
<1>2. j \in 0..Len(items)
  BY LastGivenIs
<1>3. Taken(items)[i] = IF lines[i].plan /\ LastOf(lines, lines[i].tariff) = i /\ j # 0
          THEN [lines[i] EXCEPT !.quantity = items[j].quantity, !.rooms = items[j].rooms]
          ELSE lines[i]
  BY <1>1 DEF Taken
<1>4. j # 0 => items[j].quantity \in Amount /\ items[j].rooms \in Nat
               /\ items[j].rooms <= items[j].quantity
  <2>1. j # 0 => items[j] \in Measured
    BY <1>2
  <2> HIDE DEF j
  <2>2. j # 0 => items[j].quantity \in Amount /\ items[j].rooms \in Amount \cup {0}
                 /\ items[j].rooms <= items[j].quantity
    BY <2>1 DEF Measured
  <2> QED BY <2>2, AmountsAreNat
<1> HIDE DEF j
<1>5. CASE Taken(items)[i] = lines[i]
  <2>1. \A k \in 1..Len(items) :
          lines[i].plan /\ LastOf(lines, lines[i].tariff) = i /\ j = k =>
            Taken(items)[i] = [lines[i] EXCEPT !.quantity = items[k].quantity,
                                               !.rooms = items[k].rooms]
    BY <1>3
  <2> QED BY <1>1, <1>5, <2>1 DEF FitLine, j
<1>6. CASE /\ lines[i].plan /\ j # 0
           /\ Taken(items)[i] = [lines[i] EXCEPT !.quantity = items[j].quantity,
                                                 !.rooms = items[j].rooms]
  BY <1>1, <1>4, <1>6 DEF FitLine, j
<1> QED BY <1>3, <1>5, <1>6

LEMMA BroughtIs ==
  ASSUME LinesOK, NEW items \in Seq(Measured)
  PROVE  LET m == Cardinality(KeptAt(items))
             n == Cardinality(NewAt(items))
         IN /\ KeptAt(items) \in SUBSET Nat /\ IsFiniteSet(KeptAt(items)) /\ m \in Nat
            /\ NewAt(items) \in SUBSET Nat /\ IsFiniteSet(NewAt(items)) /\ n \in Nat
            /\ Brought(items) \in Seq(FitLine)
            /\ Len(Brought(items)) = m + n
            /\ \A k \in 1..m : Brought(items)[k] = Taken(items)[Place(KeptAt(items), k)]
            /\ \A k \in 1..n :
                 Brought(items)[m + k] = AsLine(items[Place(NewAt(items), k)])
<1> DEFINE K == KeptAt(items)
           N == NewAt(items)
           m == Cardinality(K)
           n == Cardinality(N)
<1>1. Len(lines) \in Nat /\ DOMAIN lines = 1..Len(lines)
      /\ Len(items) \in Nat /\ DOMAIN items = 1..Len(items)
  BY DEF LinesOK
<1>2. K \in SUBSET (1..Len(lines)) /\ N \in SUBSET (1..Len(items))
  BY <1>1 DEF KeptAt, NewAt
<1>3. /\ K \in SUBSET Nat /\ IsFiniteSet(K) /\ m \in Nat
      /\ N \in SUBSET Nat /\ IsFiniteSet(N) /\ n \in Nat
  <2>1. IsFiniteSet(1..Len(lines)) /\ IsFiniteSet(1..Len(items))
    BY <1>1, FS_Interval
  <2>2. IsFiniteSet(K) /\ IsFiniteSet(N)
    <3> HIDE DEF K, N
    <3> QED BY <1>2, <2>1, FS_Subset
  <2>3. 1..Len(lines) \subseteq Nat /\ 1..Len(items) \subseteq Nat
    BY <1>1
  <2> HIDE DEF K, N
  <2> QED BY <1>2, <2>2, <2>3, FS_CardinalityType
<1> DEFINE left == Those(Taken(items), K)
           new == Those(items, N)
<1>4. /\ left \in Seq(FitLine) /\ Len(left) = m
      /\ \A k \in 1..m : left[k] = Taken(items)[Place(K, k)]
  <2>1. \A i \in K : Taken(items)[i] \in FitLine
    BY <1>2, TakenAre
  <2> DEFINE after == Taken(items)
  <2> HIDE DEF K, after
  <2>2. \A i \in K : after[i] \in FitLine
    BY <2>1 DEF after
  <2>3. K \in SUBSET Nat /\ IsFiniteSet(K)
    BY <1>3
  <2>4. Those(after, K) \in Seq(FitLine) /\ Len(Those(after, K)) = Cardinality(K)
    BY <2>2, <2>3, ThoseAreEntries
  <2>5. \A k \in 1..Cardinality(K) : Those(after, K)[k] = after[Place(K, k)]
    BY <2>3, ThoseAre
  <2> QED BY <2>4, <2>5 DEF after
<1>5. /\ new \in Seq(Measured) /\ Len(new) = n /\ DOMAIN new = 1..n
      /\ \A k \in 1..n : new[k] = items[Place(N, k)]
  <2>1. \A i \in N : items[i] \in Measured
    BY <1>2
  <2> HIDE DEF N
  <2>2. N \in SUBSET Nat /\ IsFiniteSet(N)
    BY <1>3
  <2>3. Those(items, N) \in Seq(Measured) /\ Len(Those(items, N)) = Cardinality(N)
    BY <2>1, <2>2, ThoseAreEntries
  <2>4. /\ DOMAIN Those(items, N) = 1..Cardinality(N)
        /\ \A k \in 1..Cardinality(N) : Those(items, N)[k] = items[Place(N, k)]
    BY <2>2, ThoseAre
  <2> QED BY <2>3, <2>4
<1>6. /\ NewLines(items) \in Seq(FitLine) /\ Len(NewLines(items)) = n
      /\ \A k \in 1..n : NewLines(items)[k] = AsLine(items[Place(N, k)])
  <2>1. NewLines(items) = [k \in 1..n |-> AsLine(new[k])]
    BY <1>5 DEF NewLines, Unlisted, NewAt
  <2>2. \A k \in 1..n : AsLine(new[k]) \in FitLine
    <3> HIDE DEF new, N, n
    <3> QED BY <1>5, MeasuredFits
  <2> HIDE DEF new, n
  <2>3. NewLines(items) \in [1..n -> FitLine]
    BY <2>1, <2>2
  <2> QED BY <1>3, <1>5, <2>1, <2>3
<1>7. Brought(items) = left \o NewLines(items)
  BY DEF Brought, KeptAt
<1> HIDE DEF left, new, K, N, m, n
<1>8. /\ Brought(items) \in Seq(FitLine)
      /\ Len(Brought(items)) = m + n
      /\ \A i \in 1..(m + n) : Brought(items)[i] = IF i <= m THEN left[i] ELSE NewLines(items)[i - m]
  <2>1. left \in Seq(FitLine) /\ NewLines(items) \in Seq(FitLine)
    BY <1>4, <1>6
  <2>2. /\ left \o NewLines(items) \in Seq(FitLine)
        /\ Len(left \o NewLines(items)) = Len(left) + Len(NewLines(items))
        /\ \A i \in 1..Len(left) + Len(NewLines(items)) : (left \o NewLines(items))[i] =
             IF i <= Len(left) THEN left[i] ELSE NewLines(items)[i - Len(left)]
    BY <2>1, ConcatProperties
  <2>3. Len(left) = m /\ Len(NewLines(items)) = n
    BY <1>4, <1>6
  <2> QED BY <1>7, <2>2, <2>3
<1>9. \A k \in 1..m : Brought(items)[k] = Taken(items)[Place(K, k)]
  BY <1>3, <1>4, <1>8
<1>10. ASSUME NEW k \in 1..n
       PROVE  Brought(items)[m + k] = AsLine(items[Place(N, k)])
  <2>1. m + k \in 1..(m + n) /\ ~(m + k <= m) /\ (m + k) - m = k
    BY <1>3
  <2> QED BY <1>6, <1>8, <2>1
<1> QED BY <1>3, <1>8, <1>9, <1>10 DEF K, N, m, n

LEMMA PayloadsAre ==
  ASSUME NEW items \in Payloads
  PROVE  items \in Seq(Measured)
<1>1. PICK n \in 0..MaxLines : items \in [1..n -> Measured]
  BY DEF Payloads
<1>2. n \in Nat
  BY QuotePlanAssumption
<1> QED BY <1>1, <1>2

\* Lines are lines of a quote, with rooms that fit, and each step leaves them so.
LEMMA QuoteLinesFit == QuotePlanSpec => []LinesOK
<1>1. QuotePlanInit => LinesOK
  <2> SUFFICES ASSUME QuotePlanInit PROVE LinesOK
    OBVIOUS
  <2>1. PICK items \in Payloads : \E price \in [DOMAIN items -> Price] :
          lines = [i \in DOMAIN items |-> [AsLine(items[i]) EXCEPT !.price = price[i]]]
    BY DEF QuotePlanInit
  <2>2. PICK price \in [DOMAIN items -> Price] :
          lines = [i \in DOMAIN items |-> [AsLine(items[i]) EXCEPT !.price = price[i]]]
    BY <2>1
  <2>3. Len(items) \in Nat /\ DOMAIN items = 1..Len(items)
        /\ \A i \in 1..Len(items) : items[i] \in Measured
    BY PayloadsAre
  <2>4. \A i \in 1..Len(items) : [AsLine(items[i]) EXCEPT !.price = price[i]] \in FitLine
    <3>1. \A i \in 1..Len(items) : AsLine(items[i]) \in FitLine /\ price[i] \in Price
      BY <2>2, <2>3, MeasuredFits
    <3> QED BY <3>1 DEF FitLine
  <2>5. lines \in [1..Len(items) -> FitLine]
    BY <2>2, <2>3, <2>4
  <2> QED BY <2>3, <2>5 DEF LinesOK
<1>2. LinesOK /\ [QuotePlanNext]_quotePlanVars => LinesOK'
  <2> SUFFICES ASSUME LinesOK, [QuotePlanNext]_quotePlanVars
               PROVE  LinesOK'
    OBVIOUS
  <2>1. CASE UpdateQuote
    <3>1. PICK items \in Edits : lines' = Rewritten(items)
      BY <2>1 DEF UpdateQuote
    <3> QED BY <3>1, EditsAre, RewrittenFits DEF LinesOK
  <2>2. ASSUME NEW items \in Payloads, SyncQuoteWithPlan(items)
        PROVE  LinesOK'
    <3>1. items \in Seq(Measured)
      BY PayloadsAre
    <3> QED BY <2>2, <3>1, BroughtIs DEF SyncQuoteWithPlan, LinesOK
  <2>3. CASE UNCHANGED quotePlanVars
    BY <2>3 DEF quotePlanVars, LinesOK
  <2> QED BY <2>1, <2>2, <2>3 DEF QuotePlanNext
<1> QED BY <1>1, <1>2, PTL DEF QuotePlanSpec

\* The rooms of a line never add up to more than the line, for any services,
\* quantities and lines, whatever was edited by hand (QuoteItemRoom).
THEOREM RoomsAlwaysFit == QuotePlanSpec => []RoomsFit
<1>1. LinesOK => RoomsFit
  BY DEF LinesOK, FitLine, RoomsFit
<1> QED BY <1>1, QuoteLinesFit, PTL

\* The lines of the plan, as a set, and what it means that there is one of each.
LEMMA PlanLinesAre ==
  ASSUME NEW seq \in Seq(FitLine)
  PROVE  /\ \A l : l \in ToSet(PlanLines(seq)) <=>
                     \E i \in 1..Len(seq) : seq[i].plan /\ l = seq[i]
         /\ Distinct(PlanLines(seq)) =>
              \A i, j \in 1..Len(seq) :
                 seq[i].plan /\ seq[j].plan /\ seq[i].tariff = seq[j].tariff => i = j
<1> DEFINE P == {i \in DOMAIN seq : seq[i].plan}
<1>1. Len(seq) \in Nat /\ DOMAIN seq = 1..Len(seq)
  OBVIOUS
<1>2. P \in SUBSET Nat /\ IsFiniteSet(P)
  <2>1. P \in SUBSET (1..Len(seq)) /\ IsFiniteSet(1..Len(seq)) /\ 1..Len(seq) \subseteq Nat
    BY <1>1, FS_Interval
  <2> HIDE DEF P
  <2> QED BY <2>1, FS_Subset
<1>3. /\ DOMAIN PlanLines(seq) = 1..Cardinality(P)
      /\ \A k \in 1..Cardinality(P) : Place(P, k) \in P /\ PlanLines(seq)[k] = seq[Place(P, k)]
      /\ \A i \in P : \E k \in 1..Cardinality(P) : Place(P, k) = i /\ PlanLines(seq)[k] = seq[i]
  <2>1. PlanLines(seq) = Those(seq, P)
    BY DEF PlanLines
  <2> HIDE DEF P
  <2> QED BY <1>2, <2>1, ThoseAre
<1>4. \A l : l \in ToSet(PlanLines(seq)) <=> \E i \in P : l = seq[i]
  <2> HIDE DEF P
  <2> QED BY <1>3 DEF ToSet
<1>5. ASSUME Distinct(PlanLines(seq)), NEW i \in P, NEW j \in P, seq[i].tariff = seq[j].tariff
      PROVE  i = j
  <2>1. PICK k \in 1..Cardinality(P) : Place(P, k) = i /\ PlanLines(seq)[k] = seq[i]
    BY <1>3
  <2>2. PICK l \in 1..Cardinality(P) : Place(P, l) = j /\ PlanLines(seq)[l] = seq[j]
    BY <1>3
  <2>3. k = l
    <3> HIDE DEF P
    <3> QED BY <1>3, <1>5, <2>1, <2>2 DEF Distinct
  <2> QED BY <2>1, <2>2, <2>3
<1>6. \A i : i \in P <=> i \in 1..Len(seq) /\ seq[i].plan
  BY <1>1
<1> HIDE DEF P
<1> QED BY <1>4, <1>5, <1>6

\* One line of the plan for each service: it is the last of its service; and so
\* of the services of a payload.
LEMMA OneOfEach ==
  ASSUME LinesOK, NEW items \in Seq(Measured), Distinct(items), Distinct(PlanLines(lines))
  PROVE  /\ \A i \in 1..Len(lines) : lines[i].plan => LastOf(lines, lines[i].tariff) = i
         /\ \A j \in 1..Len(items) : LastGiven(items, items[j].tariff) = j
<1>1. ASSUME NEW i \in 1..Len(lines), lines[i].plan
      PROVE  LastOf(lines, lines[i].tariff) = i
  <2> DEFINE p == LastOf(lines, lines[i].tariff)
  <2>1. p # 0
    BY <1>1, LastOfIs
  <2>2. p \in 1..Len(lines) /\ lines[p].plan /\ lines[p].tariff = lines[i].tariff
    <3>1. p \in 0..Len(lines) /\ Len(lines) \in Nat
      BY LastOfIs DEF LinesOK
    <3>2. lines[p].plan /\ lines[p].tariff = lines[i].tariff
      BY <2>1, LastOfIs
    <3> HIDE DEF p
    <3> QED BY <2>1, <3>1, <3>2
  <2> HIDE DEF p
  <2>3. p = i
    BY <1>1, <2>2, PlanLinesAre DEF LinesOK
  <2> QED BY <2>3 DEF p
<1>2. ASSUME NEW j \in 1..Len(items)
      PROVE  LastGiven(items, items[j].tariff) = j
  <2> DEFINE p == LastGiven(items, items[j].tariff)
  <2>1. p # 0
    BY LastGivenIs
  <2>2. p \in 1..Len(items) /\ items[p].tariff = items[j].tariff
    <3>1. p \in 0..Len(items) /\ Len(items) \in Nat
      BY LastGivenIs
    <3>2. items[p].tariff = items[j].tariff
      BY <2>1, LastGivenIs
    <3> HIDE DEF p
    <3> QED BY <2>1, <3>1, <3>2
  <2> HIDE DEF p
  <2>3. p = j
    BY <2>2 DEF Distinct
  <2> QED BY <2>3 DEF p
<1> QED BY <1>1, <1>2

\* A line of the plan that is kept takes what the payload gives of its service.
LEMMA KeptFollows ==
  ASSUME LinesOK, NEW items \in Seq(Measured), Distinct(items), Distinct(PlanLines(lines)),
         NEW i \in KeptAt(items), lines[i].plan
  PROVE  \E j \in 1..Len(items) :
            /\ items[j].tariff = lines[i].tariff
            /\ Taken(items)[i] = [lines[i] EXCEPT !.quantity = items[j].quantity,
                                                  !.rooms = items[j].rooms]
<1>1. i \in 1..Len(lines) /\ lines[i].tariff \in Tariffs(items)
  BY DEF KeptAt, LinesOK
<1>2. PICK j \in 1..Len(items) : items[j].tariff = lines[i].tariff
  BY <1>1 DEF Tariffs, ToSet
<1>3. LastGiven(items, lines[i].tariff) = j /\ LastOf(lines, lines[i].tariff) = i
  BY <1>1, <1>2, OneOfEach
<1>4. Taken(items)[i] = [lines[i] EXCEPT !.quantity = items[j].quantity, !.rooms = items[j].rooms]
  <2>1. \A l \in 1..Len(items) :
          lines[i].plan /\ LastOf(lines, lines[i].tariff) = i
            /\ LastGiven(items, lines[i].tariff) = l =>
            Taken(items)[i] = [lines[i] EXCEPT !.quantity = items[l].quantity,
                                               !.rooms = items[l].rooms]
    BY <1>1, TakenAre
  <2> QED BY <1>3, <2>1
<1> QED BY <1>2, <1>4

\* Where each line of a quote that was brought up to date comes from.
LEMMA ComesFrom ==
  ASSUME LinesOK, NEW items \in Seq(Measured), NEW k \in 1..Len(Brought(items))
  PROVE  \/ /\ k \in 1..Cardinality(KeptAt(items))
            /\ Place(KeptAt(items), k) \in KeptAt(items)
            /\ Rank(KeptAt(items), Place(KeptAt(items), k)) = k
            /\ Brought(items)[k] = Taken(items)[Place(KeptAt(items), k)]
         \/ \E j \in NewAt(items) : Brought(items)[k] = AsLine(items[j])
<1> DEFINE K == KeptAt(items)
           N == NewAt(items)
           m == Cardinality(K)
           n == Cardinality(N)
<1>1. /\ K \in SUBSET Nat /\ IsFiniteSet(K) /\ m \in Nat
      /\ N \in SUBSET Nat /\ IsFiniteSet(N) /\ n \in Nat
      /\ Len(Brought(items)) = m + n
      /\ \A l \in 1..m : Brought(items)[l] = Taken(items)[Place(K, l)]
      /\ \A l \in 1..n : Brought(items)[m + l] = AsLine(items[Place(N, l)])
  BY BroughtIs
<1> HIDE DEF K, N
<1>2. CASE k <= m
  <2>1. k \in 1..m
    BY <1>1, <1>2
  <2>2. Place(K, k) \in K /\ Rank(K, Place(K, k)) = k
    BY <1>1, <2>1, PlacesAreRanks
  <2> QED BY <1>1, <2>1, <2>2 DEF K
<1>3. CASE ~(k <= m)
  <2>1. k - m \in 1..n /\ m + (k - m) = k
    BY <1>1, <1>3
  <2>2. Place(N, k - m) \in N
    BY <1>1, <2>1, PlacesAreRanks
  <2>3. Brought(items)[k] = AsLine(items[Place(N, k - m)])
    BY <1>1, <2>1
  <2> QED BY <2>2, <2>3 DEF N
<1> QED BY <1>2, <1>3

\* And where each that was kept or added is.
LEMMA GoesTo ==
  ASSUME LinesOK, NEW items \in Seq(Measured)
  PROVE  /\ \A i \in KeptAt(items) :
              /\ Rank(KeptAt(items), i) \in 1..Len(Brought(items))
              /\ Brought(items)[Rank(KeptAt(items), i)] = Taken(items)[i]
         /\ \A j \in NewAt(items) :
              \E k \in 1..Len(Brought(items)) : Brought(items)[k] = AsLine(items[j])
<1> DEFINE K == KeptAt(items)
           N == NewAt(items)
           m == Cardinality(K)
           n == Cardinality(N)
<1>1. /\ K \in SUBSET Nat /\ IsFiniteSet(K) /\ m \in Nat
      /\ N \in SUBSET Nat /\ IsFiniteSet(N) /\ n \in Nat
      /\ Len(Brought(items)) = m + n
      /\ \A l \in 1..m : Brought(items)[l] = Taken(items)[Place(K, l)]
      /\ \A l \in 1..n : Brought(items)[m + l] = AsLine(items[Place(N, l)])
  BY BroughtIs
<1> HIDE DEF K, N
<1>2. ASSUME NEW i \in K
      PROVE  Rank(K, i) \in 1..(m + n) /\ Brought(items)[Rank(K, i)] = Taken(items)[i]
  <2>1. Rank(K, i) \in 1..m /\ Place(K, Rank(K, i)) = i
    BY <1>1, RanksCount, PlacesAreRanks
  <2> QED BY <1>1, <2>1
<1>3. ASSUME NEW j \in N
      PROVE  \E k \in 1..(m + n) : Brought(items)[k] = AsLine(items[j])
  <2>1. Rank(N, j) \in 1..n /\ Place(N, Rank(N, j)) = j
    BY <1>1, RanksCount, PlacesAreRanks
  <2>2. m + Rank(N, j) \in 1..(m + n)
    BY <1>1, <2>1
  <2> QED BY <1>1, <2>1, <2>2
<1> QED BY <1>1, <1>2, <1>3 DEF K, N

LEMMA PlanLinesFollow ==
  ASSUME LinesOK, NEW items \in Seq(Measured), Distinct(items), Distinct(PlanLines(lines))
  PROVE  {[tariff |-> line.tariff, quantity |-> line.quantity, rooms |-> line.rooms] :
            line \in ToSet(PlanLines(Brought(items)))}
         = {[tariff |-> item.tariff, quantity |-> item.quantity, rooms |-> item.rooms] :
            item \in ToSet(items)}
<1> DEFINE said(l) == [tariff |-> l.tariff, quantity |-> l.quantity, rooms |-> l.rooms]
           L == Brought(items)
           plan == ToSet(PlanLines(L))
<1>1. L \in Seq(FitLine) /\ Len(L) \in Nat
  BY BroughtIs
<1>2. \A l : l \in plan <=> \E k \in 1..Len(L) : L[k].plan /\ l = L[k]
  <2> HIDE DEF L
  <2> QED BY <1>1, PlanLinesAre
<1>3. ASSUME NEW j \in 1..Len(items)
      PROVE  said(AsLine(items[j])) = said(items[j]) /\ AsLine(items[j]).plan
  BY DEF AsLine, Line
<1>4. ASSUME NEW l \in plan
      PROVE  \E item \in ToSet(items) : said(l) = said(item)
  <2>1. PICK k \in 1..Len(L) : L[k].plan /\ l = L[k]
    BY <1>2
  <2>2. CASE \E j \in NewAt(items) : L[k] = AsLine(items[j])
    <3>1. PICK j \in 1..Len(items) : L[k] = AsLine(items[j])
      BY <2>2 DEF NewAt
    <3>2. items[j] \in ToSet(items) /\ l = AsLine(items[j])
      BY <2>1, <3>1 DEF ToSet
    <3> HIDE DEF said
    <3> QED BY <1>3, <3>2
  <2>3. CASE \E i \in KeptAt(items) : L[k] = Taken(items)[i]
    <3>1. PICK i \in KeptAt(items) : L[k] = Taken(items)[i]
      BY <2>3
    <3>2. i \in 1..Len(lines) /\ lines[i] \in FitLine
      BY DEF KeptAt, LinesOK
    <3>3. lines[i].plan
      BY <2>1, <3>1, <3>2, TakenAre
    <3>4. PICK j \in 1..Len(items) :
            /\ items[j].tariff = lines[i].tariff
            /\ Taken(items)[i] = [lines[i] EXCEPT !.quantity = items[j].quantity,
                                                  !.rooms = items[j].rooms]
      BY <3>3, KeptFollows
    <3>5. said(l) = said(items[j])
      BY <2>1, <3>1, <3>2, <3>4 DEF FitLine
    <3> QED BY <3>5 DEF ToSet
  <2> QED BY <2>2, <2>3, ComesFrom
<1>5. ASSUME NEW item \in ToSet(items)
      PROVE  \E l \in plan : said(item) = said(l)
  <2>1. PICK j \in 1..Len(items) : item = items[j]
    BY DEF ToSet
  <2>2. CASE LastOf(lines, item.tariff) = 0
    <3>1. j \in NewAt(items)
      BY <2>1, <2>2 DEF NewAt
    <3>2. PICK k \in 1..Len(L) : L[k] = AsLine(items[j])
      BY <3>1, GoesTo
    <3> HIDE DEF L, plan
    <3>3. L[k] \in plan
      BY <1>2, <1>3, <3>2
    <3> QED BY <1>3, <2>1, <3>2, <3>3
  <2>3. CASE LastOf(lines, item.tariff) # 0
    <3> DEFINE i == LastOf(lines, item.tariff)
    <3>1. i \in 1..Len(lines) /\ lines[i].plan /\ lines[i].tariff = item.tariff
      <4>1. i \in 0..Len(lines) /\ Len(lines) \in Nat
        BY LastOfIs DEF LinesOK
      <4>2. lines[i].plan /\ lines[i].tariff = item.tariff
        BY <2>3, LastOfIs
      <4> QED BY <2>3, <4>1, <4>2
    <3> HIDE DEF i
    <3>2. i \in KeptAt(items)
      BY <2>1, <3>1 DEF KeptAt, Tariffs, ToSet, LinesOK
    <3>3. LastGiven(items, lines[i].tariff) = j /\ LastOf(lines, lines[i].tariff) = i
      BY <2>1, <3>1, OneOfEach
    <3>4. Taken(items)[i] = [lines[i] EXCEPT !.quantity = items[j].quantity,
                                             !.rooms = items[j].rooms]
      <4>1. \A k \in 1..Len(items) :
              lines[i].plan /\ LastOf(lines, lines[i].tariff) = i
                /\ LastGiven(items, lines[i].tariff) = k =>
                Taken(items)[i] = [lines[i] EXCEPT !.quantity = items[k].quantity,
                                                   !.rooms = items[k].rooms]
        BY <3>1, TakenAre
      <4> QED BY <3>1, <3>3, <4>1
    <3>5. PICK k \in 1..Len(L) : L[k] = Taken(items)[i]
      BY <3>2, GoesTo
    <3>6. lines[i] \in FitLine
      BY <3>1 DEF LinesOK
    <3>7. L[k].plan /\ said(item) = said(L[k])
      BY <2>1, <3>1, <3>4, <3>5, <3>6 DEF FitLine
    <3> HIDE DEF L, plan, said
    <3>8. L[k] \in plan
      BY <1>2, <3>7
    <3> QED BY <3>7, <3>8
  <2> QED BY <2>2, <2>3
<1> HIDE DEF plan, said
<1>6. {said(l) : l \in plan} = {said(item) : item \in ToSet(items)}
  BY <1>4, <1>5
<1> QED BY <1>6 DEF plan, said

LEMMA PricesStay ==
  ASSUME LinesOK, NEW items \in Seq(Measured), Distinct(items), Distinct(PlanLines(lines)),
         NEW old \in ToSet(PlanLines(lines)), NEW new \in ToSet(PlanLines(Brought(items))),
         old.tariff = new.tariff
  PROVE  old.price = new.price
<1>1. PICK o \in 1..Len(lines) : lines[o].plan /\ old = lines[o]
  BY PlanLinesAre DEF LinesOK
<1>2. PICK k \in 1..Len(Brought(items)) : Brought(items)[k].plan /\ new = Brought(items)[k]
  BY BroughtIs, PlanLinesAre
<1>3. CASE \E j \in NewAt(items) : Brought(items)[k] = AsLine(items[j])
  <2>1. PICK j \in NewAt(items) : Brought(items)[k] = AsLine(items[j])
    BY <1>3
  <2>2. LastOf(lines, new.tariff) = 0
    BY <1>2, <2>1 DEF NewAt, AsLine, Line
  <2> QED BY <1>1, <2>2, LastOfIs
<1>4. CASE \E i \in KeptAt(items) : Brought(items)[k] = Taken(items)[i]
  <2>1. PICK i \in KeptAt(items) : Brought(items)[k] = Taken(items)[i]
    BY <1>4
  <2>2. i \in 1..Len(lines)
    BY DEF KeptAt, LinesOK
  <2>3. lines[i].plan /\ new.tariff = lines[i].tariff /\ new.price = lines[i].price
    <3>1. /\ Taken(items)[i].plan = lines[i].plan
          /\ Taken(items)[i].tariff = lines[i].tariff
          /\ Taken(items)[i].price = lines[i].price
      BY <2>2, TakenAre
    <3> QED BY <1>2, <2>1, <3>1
  <2>4. i = o
    BY <1>1, <2>2, <2>3, PlanLinesAre DEF LinesOK
  <2> QED BY <1>1, <2>3, <2>4
<1> QED BY <1>3, <1>4, ComesFrom

LEMMA OtherLinesStay ==
  ASSUME LinesOK, NEW items \in Seq(Measured)
  PROVE  OtherLines(Brought(items)) = OtherLines(lines)
<1> DEFINE L == Brought(items)
           K == KeptAt(items)
           A == {i \in DOMAIN lines : ~lines[i].plan}
           B == {k \in DOMAIN L : ~L[k].plan}
           g == [i \in A |-> Rank(K, i)]
<1>1. /\ L \in Seq(FitLine) /\ Len(L) \in Nat /\ DOMAIN L = 1..Len(L)
      /\ Len(lines) \in Nat /\ DOMAIN lines = 1..Len(lines)
      /\ K \in SUBSET Nat /\ IsFiniteSet(K)
  BY BroughtIs DEF LinesOK
<1>2. A \subseteq 1..Len(lines) /\ B \subseteq 1..Len(L) /\ A \subseteq K
  BY <1>1 DEF KeptAt
<1>3. A \in SUBSET Nat /\ IsFiniteSet(A) /\ B \in SUBSET Nat /\ IsFiniteSet(B)
  <2>1. IsFiniteSet(1..Len(lines)) /\ IsFiniteSet(1..Len(L))
        /\ 1..Len(lines) \subseteq Nat /\ 1..Len(L) \subseteq Nat
    <3> HIDE DEF A, B, K, L
    <3>1. Len(lines) \in Int /\ Len(L) \in Int /\ 1 \in Int
      BY <1>1
    <3> QED BY <3>1, FS_Interval
  <2> HIDE DEF A, B, L
  <2> QED BY <1>2, <2>1, FS_Subset
<1>4. ASSUME NEW i \in A
      PROVE  Rank(K, i) \in B /\ L[Rank(K, i)] = lines[i]
  <2>1. i \in K /\ i \in 1..Len(lines) /\ ~lines[i].plan
    BY <1>2
  <2>2. Rank(K, i) \in 1..Len(L) /\ L[Rank(K, i)] = Taken(items)[i]
    <3> HIDE DEF A
    <3> QED BY <2>1, GoesTo
  <2>3. Taken(items)[i] = lines[i]
    BY <2>1, TakenAre
  <2> HIDE DEF L
  <2> QED BY <1>1, <2>1, <2>2, <2>3
<1>5. ASSUME NEW k \in B
      PROVE  \E i \in A : Rank(K, i) = k
  <2>1. k \in 1..Len(L) /\ ~L[k].plan
    BY <1>1
  <2>2. ~ \E j \in NewAt(items) : L[k] = AsLine(items[j])
    <3>1. \A j \in NewAt(items) : AsLine(items[j]).plan
      BY DEF AsLine, Line
    <3> HIDE DEF L
    <3> QED BY <2>1, <3>1
  <2>3. Place(K, k) \in K /\ Rank(K, Place(K, k)) = k /\ L[k] = Taken(items)[Place(K, k)]
    BY <2>1, <2>2, ComesFrom
  <2>4. Place(K, k) \in 1..Len(lines)
    BY <1>1, <2>3 DEF KeptAt
  <2>5. ~lines[Place(K, k)].plan
    <3> HIDE DEF K, L
    <3> QED BY <2>1, <2>3, <2>4, TakenAre
  <2>6. Place(K, k) \in A
    BY <1>1, <2>4, <2>5
  <2> QED BY <2>3, <2>6
<1>6. \A i, j \in A : i < j => Rank(K, i) < Rank(K, j)
  <2> HIDE DEF A, K
  <2> QED BY <1>1, <1>2, RanksCount
<1> HIDE DEF A, B, K, L
<1>7. g \in Surjection(A, B)
  BY <1>4, <1>5 DEF Surjection
<1>8. (\A i, j \in A : i < j => g[i] < g[j]) /\ \A i \in A : L[g[i]] = lines[i]
  BY <1>4, <1>6
<1> HIDE DEF g
<1>9. Those(lines, A) = Those(L, B)
  BY <1>3, <1>7, <1>8, ThoseAreSame
<1> QED BY <1>9 DEF OtherLines, A, B, L

\* A draft with one line of the plan for each service comes to say, brought up to
\* date, what the plan measures and nothing else of it, at the prices it had, and
\* the lines added by hand stay as they were, in their order (US-95).
THEOREM QuotesFollowThePlan == QuotePlanSpec => SyncFollowsThePlan
<1>1. ASSUME LinesOK, QuotePlanNext, synced' # <<>>, Distinct(synced'),
             Distinct(PlanLines(lines))
      PROVE  /\ {[tariff |-> line.tariff, quantity |-> line.quantity, rooms |-> line.rooms] :
                   line \in ToSet(PlanLines(lines'))}
                = {[tariff |-> item.tariff, quantity |-> item.quantity, rooms |-> item.rooms] :
                   item \in ToSet(synced')}
             /\ \A old \in ToSet(PlanLines(lines)), new \in ToSet(PlanLines(lines')) :
                  old.tariff = new.tariff => old.price = new.price
             /\ OtherLines(lines') = OtherLines(lines)
  <2>1. PICK items \in Payloads : SyncQuoteWithPlan(items)
    BY <1>1 DEF QuotePlanNext, UpdateQuote
  <2>2. items \in Seq(Measured) /\ lines' = Brought(items) /\ synced' = items
    BY <2>1, PayloadsAre DEF SyncQuoteWithPlan
  <2> QED BY <1>1, <2>2, PlanLinesFollow, PricesStay, OtherLinesStay
<1>2. LinesOK /\ [QuotePlanNext]_quotePlanVars =>
        [synced' # <<>> /\ Distinct(synced') /\ Distinct(PlanLines(lines)) =>
           /\ {[tariff |-> line.tariff, quantity |-> line.quantity, rooms |-> line.rooms] :
                 line \in ToSet(PlanLines(lines'))}
              = {[tariff |-> item.tariff, quantity |-> item.quantity, rooms |-> item.rooms] :
                 item \in ToSet(synced')}
           /\ \A old \in ToSet(PlanLines(lines)), new \in ToSet(PlanLines(lines')) :
                old.tariff = new.tariff => old.price = new.price
           /\ OtherLines(lines') = OtherLines(lines)]_quotePlanVars
  BY <1>1
<1> QED BY <1>2, QuoteLinesFit, PTL DEF QuotePlanSpec, SyncFollowsThePlan
=============================================================================
