SPECIFICATION Spec
CONSTANTS
    Proc = {p1, p2}
    Short = Short
    Long = Long
    Bad = Bad
    Ir = {Long}
    Valid = {Long}
    Pieces <- MCPieces
    Target = Target
    Deep = Deep
    Other = Other
    Path = {Target, Other}
    LongPath = {}
    Cut <- MCCut
    EmptyModule = EmptyModule
    Mixed = Mixed
    NULL = NULL
INVARIANT OutputsObject
