CONSTANTS
    Req = {r1, r2, r3}
    Path = {p1}
    MaxFiles = 2
    MaxFolders = 2
    None = None
    Asker = {a1, a2, a3}
    Limit = 2
    Model = {m1, m2}
    Fiche = {f1, f2}
    Device = {d1, d2}
    MaxRows = 2
    NoFiche = NoFiche
    Tariff = {wall, floor}
    Amount = {1, 2}
    Price = {7, 8}
    ListPrice = 7
    MaxLines = 2
    Template <- MCTemplate
    Drafts <- MCDrafts
    MaxReadme = 12
    Sheet <- MCSheet
    Measures <- MCMeasures
    PhotoWidth = 600
    PhotoHeight = 600
SPECIFICATION Spec
SYMMETRY MCSymmetry
INVARIANTS
    RowHasItsFile
    TwoFolders
    SweptClean
    LimitNearlyKept
    CornersMeet
    RoomsAreTheSpaces
    OpeningsAreWhereDrawn
    RoomsFit
    AdoptedIsWhole
PROPERTIES
    StoredIsThere
    SyncFollowsThePlan
    PeoplesTextStays
CHECK_DEADLOCK FALSE
