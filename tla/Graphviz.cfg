SPECIFICATION Spec
CONSTANTS
    X = "x"
    Y = "y"
    NULL = NULL
    Trees <- MCTrees
INVARIANTS
    NamesUnique
    DrawsTree
    LosesOnlyIndexes
