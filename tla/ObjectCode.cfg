SPECIFICATION Spec
CONSTANTS
    Proc = {p1, p2, p3}
    Short = Short
    Long = Long
    Bad = Bad
    Ir = {Short, Long, Bad}
    Valid = {Short, Long}
    Pieces <- MCPieces
    Target = Target
    Deep = Deep
    Other = Other
    Path = {Target, Deep, Other}
    LongPath = {Deep}
    Cut <- MCCut
    EmptyModule = EmptyModule
    Mixed = Mixed
    NULL = NULL
SYMMETRY MCSymmetry
INVARIANTS
    TypeOK
    AloneIsRight
    TempRemoved
