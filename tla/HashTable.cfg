SPECIFICATION MCSpec
CONSTANTS
    A = A
    B = B
    C = C
    D = D
    P = P
    NULL = NULL
    Key = {A, B, C, D}
    Value = {P, NULL}
    Hash <- MCHash
    INITIAL_CAPACITY = 1
    LOAD_FACTOR_THR = 1
INVARIANTS
    TypeOK
    Searchable
    ResizeNotRecursive
    LoadBound
    HeapAccounted
    IterVisitsOnce
PROPERTIES
    IsSymbolMap
    InsertReturns
