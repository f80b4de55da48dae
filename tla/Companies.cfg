CONSTANTS
    A = A
    B = B
    W = W
    None = None
    Person <- MCPerson
    HasOwn <- MCHasOwn
    Admin <- MCAdmin
    Leaving <- MCLeaving
    InPlay <- MCInPlay
    Req = {r1, r2}
    MaxRows = 1
SPECIFICATION Spec
INVARIANTS
    OneCompanyEach
    OnlyRacesRefuse
PROPERTY
    DeletesItsOwn
SYMMETRY MCSymmetry
